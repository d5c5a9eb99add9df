--------------------------- MODULE UploadsProofs ---------------------------
(***************************************************************************)
(* Proofs about the uploads (module Uploads), for any number of browsers,  *)
(* uploads, chunks, calls, cleanups and crashes.                           *)
(*                                                                         *)
(* The argument is about the steps a thread has left: which step may       *)
(* follow which (Shape), that a thread between "lock" and "unlock" holds   *)
(* the lock (LockInv), and what the library and the states are like while  *)
(* one assembles (NameInv) or is about to write a state (FreshInv).        *)
(***************************************************************************)
EXTENDS Uploads, FiniteSetTheorems, TLAPS


\* What the cleanup does, and the end of put_chunk: nothing depends on what
\* comes after these.
Loose    == {"list", "expired", "orphan", "rmtree", "forget", "touch", "rewrite"}
Assembly == {"copy", "rename", "undo"}

(* Which steps may follow each other in a call, or in what is left of it.  *)
Shape(s) ==
    /\ \A k \in 1..Len(s) :
         s[k].op \in {"create", "copy", "rename", "resume", "state"} =>
            s[Len(s)].op = "unlock"
    /\ \A k \in 1..(Len(s) - 1) :
         /\ s[k].op # "unlock"
         /\ s[k + 1].op \notin {"lock", "state", "undo"}
         /\ s[k + 1].op \in {"copy", "rename"} <=> s[k].op \in {"create", "copy"}
         /\ s[k + 1].op = "create" => s[k].op = "received"
         /\ s[k + 1].op = "resume" => s[k].op \in Loose

Shapes ==
    /\ \A t \in Threads : Shape(todo[t])
    /\ \A k \in 1..Len(todo[Bg]) : todo[Bg][k].op \in Loose

(* Past the lock of its call. *)
Inside(s) ==
    /\ s # <<>>
    /\ \/ Head(s).op = "undo"
       \/ s[Len(s)].op = "unlock" /\ Head(s).op # "lock"

LockInv == \A t \in Threads : Inside(todo[t]) => lock = t

(* An assembly is about a name it has reserved, and a name that is         *)
(* reserved is being assembled unless the process has died.                *)
NameInv ==
    /\ \A t \in Threads : (\E op \in Assembly : Step(t, op)) => dest = "empty"
    /\ NameIsFreed

(* A state is about to be written only while no upload is live, those that *)
(* a late chunk has brought back apart.                                    *)
FreshInv ==
    /\ \A t \in Threads : Step(t, "state") =>
         \A i \in Ids \ revived : state[i] # "live"
    /\ \A i, j \in Ids \ revived : state[i] = "live" /\ state[j] = "live" => i = j

DrawnInv ==
    /\ drawn + Cardinality(Drawing) <= MaxUploads
    /\ \A t \in Threads : \A j, k \in 1..Len(todo[t]) :
         todo[t][j].op = "resume" /\ todo[t][k].op = "resume" => j = k

(* The inductive invariant. *)
IInv == TypeOK /\ Shapes /\ LockInv /\ NameInv /\ FreshInv /\ DrawnInv

-----------------------------------------------------------------------------
(* What is left of a call, the step at its head done. *)
LEMMA TailFacts ==
    ASSUME NEW S, NEW s \in Seq(S), s # <<>>
    PROVE  /\ Head(s) \in S /\ Head(s) = s[1]
           /\ Tail(s) \in Seq(S)
           /\ Len(s) \in Nat \ {0}
           /\ Len(Tail(s)) = Len(s) - 1
           /\ \A k \in 1..Len(Tail(s)) : Tail(s)[k] = s[k + 1]
OBVIOUS

LEMMA ConcatFacts ==
    ASSUME NEW S, NEW m \in Seq(S), NEW r \in Seq(S)
    PROVE  /\ m \o r \in Seq(S)
           /\ Len(m) \in Nat /\ Len(r) \in Nat /\ Len(m \o r) = Len(m) + Len(r)
           /\ \A k \in 1..Len(m) : (m \o r)[k] = m[k]
           /\ \A k \in 1..Len(m \o r) :
                k > Len(m) => /\ k - Len(m) \in 1..Len(r)
                              /\ (m \o r)[k] = r[k - Len(m)]
OBVIOUS

LEMMA ShapeTail ==
    ASSUME NEW s \in Seq(Steps), s # <<>>, Shape(s)
    PROVE  Tail(s) \in Seq(Steps) /\ Shape(Tail(s))
<1> DEFINE r == Tail(s)
<1>1. /\ r \in Seq(Steps) /\ Len(s) \in Nat \ {0} /\ Len(r) = Len(s) - 1
      /\ \A k \in 1..Len(r) : r[k] = s[k + 1]
    BY TailFacts
<1> HIDE DEF r
<1>2. ASSUME NEW k \in 1..Len(r),
             r[k].op \in {"create", "copy", "rename", "resume", "state"}
      PROVE  r[Len(r)].op = "unlock"
    <2>1. k + 1 \in 1..Len(s) /\ r[k] = s[k + 1] /\ Len(r) \in 1..Len(r)
          /\ r[Len(r)] = s[Len(s)]
        BY <1>1
    <2> QED
        BY <2>1, <1>2 DEF Shape
<1>3. ASSUME NEW k \in 1..(Len(r) - 1)
      PROVE  /\ r[k].op # "unlock"
             /\ r[k + 1].op \notin {"lock", "state", "undo"}
             /\ r[k + 1].op \in {"copy", "rename"} <=> r[k].op \in {"create", "copy"}
             /\ r[k + 1].op = "create" => r[k].op = "received"
             /\ r[k + 1].op = "resume" => r[k].op \in Loose
    <2>1. k + 1 \in 1..(Len(s) - 1) /\ r[k] = s[k + 1] /\ r[k + 1] = s[(k + 1) + 1]
        BY <1>1
    <2> QED
        BY <2>1 DEF Shape
<1> QED
    BY <1>1, <1>2, <1>3 DEF Shape, r

(* What List, Expired and Orphan put before the rest of a call. *)
LEMMA ShapePush ==
    ASSUME NEW s \in Seq(Steps), s # <<>>, Shape(s),
           NEW m \in Seq(Steps),
           Head(s).op \in Loose,
           \A k \in 1..Len(m) : m[k].op \in Loose
    PROVE  m \o Tail(s) \in Seq(Steps) /\ Shape(m \o Tail(s))
<1> DEFINE r == Tail(s)
           q == m \o r
<1>1. /\ r \in Seq(Steps) /\ Len(s) \in Nat \ {0} /\ Len(r) = Len(s) - 1
      /\ s[1].op \in Loose
      /\ \A k \in 1..Len(r) : r[k] = s[k + 1]
    BY TailFacts
<1>2. Shape(r)
    BY ShapeTail
<1> HIDE DEF r
<1>3. /\ q \in Seq(Steps) /\ Len(m) \in Nat /\ Len(q) = Len(m) + Len(r)
      /\ \A k \in 1..Len(m) : q[k] = m[k]
      /\ \A k \in 1..Len(q) :
           k > Len(m) => k - Len(m) \in 1..Len(r) /\ q[k] = r[k - Len(m)]
    <2>1. m \in Seq(Steps) /\ r \in Seq(Steps)
        BY <1>1
    <2> QED
        BY ONLY <2>1, ConcatFacts, Zenon DEF q
<1> HIDE DEF q
<1>4. ASSUME NEW k \in 1..Len(q),
             q[k].op \in {"create", "copy", "rename", "resume", "state"}
      PROVE  q[Len(q)].op = "unlock"
    <2>1. k > Len(m)
        <3>1. SUFFICES ASSUME k \leq Len(m) PROVE FALSE
            BY <1>3
        <3>2. k \in 1..Len(m) /\ q[k] = m[k]
            BY <1>3, <3>1
        <3> QED
            BY <3>2, <1>4 DEF Loose
    <2>2. k - Len(m) \in 1..Len(r) /\ q[k] = r[k - Len(m)]
        BY <1>1, <1>3, <2>1
    <2>3. /\ Len(r) \in 1..Len(r) /\ Len(q) \in 1..Len(q) /\ Len(q) > Len(m)
          /\ Len(q) - Len(m) = Len(r)
        BY <1>1, <1>3, <2>2
    <2>4. q[Len(q)] = r[Len(r)]
        BY <1>3, <2>3
    <2> QED
        BY <2>2, <2>3, <2>4, <1>2, <1>4 DEF Shape
<1>5. ASSUME NEW k \in 1..(Len(q) - 1)
      PROVE  /\ q[k].op # "unlock"
             /\ q[k + 1].op \notin {"lock", "state", "undo"}
             /\ q[k + 1].op \in {"copy", "rename"} <=> q[k].op \in {"create", "copy"}
             /\ q[k + 1].op = "create" => q[k].op = "received"
             /\ q[k + 1].op = "resume" => q[k].op \in Loose
    <2>1. CASE k > Len(m)
        <3>1. k \in 1..Len(q) /\ k + 1 \in 1..Len(q) /\ k + 1 > Len(m)
            BY <1>1, <1>3, <2>1
        <3>2. k - Len(m) \in 1..Len(r) /\ q[k] = r[k - Len(m)]
            BY <1>3, <2>1, <3>1
        <3>3. (k + 1) - Len(m) \in 1..Len(r) /\ q[k + 1] = r[(k + 1) - Len(m)]
            BY <1>3, <3>1
        <3>4. (k + 1) - Len(m) = (k - Len(m)) + 1 /\ k - Len(m) \in 1..(Len(r) - 1)
            BY SMTT(30), <1>1, <1>3, <3>2, <3>3
        <3> QED
            BY <3>2, <3>3, <3>4, <1>2 DEF Shape
    <2>2. CASE k < Len(m)
        <3>1. Len(m) \in Nat /\ k \in 1..Len(m) /\ k + 1 \in 1..Len(m)
            BY <1>3, <2>2
        <3>2. q[k] = m[k] /\ q[k + 1] = m[k + 1]
            BY <1>3, <3>1
        <3>3. q[k].op \in Loose /\ q[k + 1].op \in Loose
            BY <3>1, <3>2
        <3> QED
            BY <3>3 DEF Loose
    <2>3. CASE k = Len(m)
        <3>0. /\ q[k].op \in Loose /\ k + 1 \in 1..Len(q) /\ (k + 1) - Len(m) = 1
              /\ 1 \in 1..Len(r) /\ r[1] = s[1 + 1]
            BY <1>1, <1>3, <2>3
        <3>1. q[k].op \in Loose /\ 1 \in 1..(Len(s) - 1) /\ q[k + 1] = s[1 + 1]
            BY <1>1, <1>3, <2>3, <3>0
        <3>2. /\ s[1 + 1].op \notin {"lock", "state", "undo"}
              /\ s[1 + 1].op \in {"copy", "rename"} <=> s[1].op \in {"create", "copy"}
              /\ s[1 + 1].op = "create" => s[1].op = "received"
            BY <3>1 DEF Shape
        <3> QED
            BY <3>1, <3>2, <1>1 DEF Loose
    <2> QED
        BY <1>3, <2>1, <2>2, <2>3
<1> QED
    BY <1>3, <1>4, <1>5 DEF Shape, q, r

(* Resume puts the write of the state in its own place. *)
LEMMA ShapeResume ==
    ASSUME NEW s \in Seq(Steps), s # <<>>, Shape(s),
           Head(s).op = "resume", NEW i \in Ids
    PROVE  LET X == <<Do("state", i, 0)>> \o Tail(s) IN
           /\ X \in Seq(Steps) /\ Shape(X)
           /\ Len(X) = Len(s) /\ Len(X) > 1 /\ X[1].op = "state" /\ X[Len(X)].op = "unlock"
           /\ \A k \in 2..Len(X) : X[k] = s[k]
<1> DEFINE m == <<Do("state", i, 0)>>
           r == Tail(s)
           q == m \o r
<1>1. /\ r \in Seq(Steps) /\ Len(s) \in Nat \ {0} /\ Len(r) = Len(s) - 1
      /\ s[1].op = "resume"
      /\ \A k \in 1..Len(r) : r[k] = s[k + 1]
    BY TailFacts
<1>2. m \in Seq(Steps) /\ Len(m) = 1 /\ m[1].op = "state"
    BY DEF Do, Steps
<1> HIDE DEF r, m
<1>3. /\ q \in Seq(Steps) /\ Len(q) = Len(s)
      /\ q[1].op = "state"
      /\ \A k \in 2..Len(q) : q[k] = s[k]
    <2>1. m \in Seq(Steps) /\ r \in Seq(Steps)
        BY <1>1, <1>2
    <2>2. /\ q \in Seq(Steps)
          /\ Len(m) \in Nat /\ Len(r) \in Nat /\ Len(q) = Len(m) + Len(r)
          /\ \A k \in 1..Len(m) : q[k] = m[k]
          /\ \A k \in 1..Len(q) :
               k > Len(m) => k - Len(m) \in 1..Len(r) /\ q[k] = r[k - Len(m)]
        BY ONLY <2>1, ConcatFacts, Zenon DEF q
    <2>3. /\ q \in Seq(Steps) /\ Len(q) = 1 + Len(r) /\ q[1] = m[1]
          /\ \A k \in 1..Len(q) : k > 1 => q[k] = r[k - 1]
        BY <1>2, <2>2
    <2>4. ASSUME NEW k \in 2..Len(q) PROVE q[k] = s[k]
        <3>1. k \in 1..Len(q) /\ k > 1 /\ k - 1 \in 1..Len(r) /\ (k - 1) + 1 = k
            BY <2>3, <1>1
        <3>2. q[k] = r[k - 1] /\ r[k - 1] = s[(k - 1) + 1]
            BY <1>1, <2>3, <3>1
        <3> QED
            BY <3>1, <3>2
    <2> QED
        BY <1>1, <1>2, <2>3, <2>4
<1> HIDE DEF q
<1>4. s[Len(s)].op = "unlock" /\ Len(s) > 1
    <2>1. 1 \in 1..Len(s)
        BY <1>1
    <2>2. s[Len(s)].op = "unlock"
        BY <2>1, <1>1 DEF Shape
    <2> QED
        BY <1>1, <2>2
<1>5. ASSUME NEW k \in 1..(Len(q) - 1)
      PROVE  /\ q[k].op # "unlock"
             /\ q[k + 1].op \notin {"lock", "state", "undo"}
             /\ q[k + 1].op \in {"copy", "rename"} <=> q[k].op \in {"create", "copy"}
             /\ q[k + 1].op = "create" => q[k].op = "received"
             /\ q[k + 1].op = "resume" => q[k].op \in Loose
    <2>1. /\ k \in 1..(Len(s) - 1) /\ q[k + 1] = s[k + 1]
          /\ k = 1 \/ q[k] = s[k]
        BY <1>3
    <2>2. /\ s[k].op # "unlock"
          /\ s[k + 1].op \notin {"lock", "state", "undo"}
          /\ s[k + 1].op \in {"copy", "rename"} <=> s[k].op \in {"create", "copy"}
          /\ s[k + 1].op = "create" => s[k].op = "received"
          /\ s[k + 1].op = "resume" => s[k].op \in Loose
        BY <2>1 DEF Shape
    <2> QED
        BY <2>1, <2>2, <1>1, <1>3 DEF Loose
<1>6. q[Len(q)].op = "unlock"
    BY <1>3, <1>4
<1> QED
    BY <1>3, <1>4, <1>5, <1>6 DEF Shape, q, r, m

LEMMA ShapeShort ==
    /\ <<>> \in Seq(Steps) /\ Shape(<<>>)
    /\ <<Plain("undo")>> \in Seq(Steps) /\ Shape(<<Plain("undo")>>)
    /\ <<Plain("list")>> \in Seq(Steps) /\ Shape(<<Plain("list")>>)
BY DEF Shape, Plain, Do, Steps

(* The calls of the browsers. *)
LEMMA InitShape == InitCall \in Seq(Steps) /\ Shape(InitCall)
<1> DEFINE s == InitCall
<1>1. /\ s \in Seq(Steps) /\ Len(s) = 4
      /\ s[1].op = "lock" /\ s[2].op = "list" /\ s[3].op = "resume" /\ s[4].op = "unlock"
    BY DEF InitCall, Plain, Do, Steps
<1> HIDE DEF s
<1> QED
    BY <1>1 DEF s, Shape, Loose

LEMMA PutShape ==
    ASSUME NEW i \in Ids, NEW n \in Indices
    PROVE  PutCall(i, n) \in Seq(Steps) /\ Shape(PutCall(i, n))
<1> DEFINE s == PutCall(i, n)
<1>1. /\ s \in Seq(Steps) /\ Len(s) = 4
      /\ s[1].op = "known" /\ s[2].op = "open" /\ s[3].op = "put" /\ s[4].op = "touch"
    BY DEF PutCall, Do, Steps
<1> HIDE DEF s
<1> QED
    BY <1>1 DEF s, Shape, Loose

LEMMA DiscardShape ==
    ASSUME NEW i \in Ids
    PROVE  DiscardCall(i) \in Seq(Steps) /\ Shape(DiscardCall(i))
<1> DEFINE s == DiscardCall(i)
<1>1. /\ s \in Seq(Steps) /\ Len(s) = 3
      /\ s[1].op = "known" /\ s[2].op = "rmtree" /\ s[3].op = "forget"
    BY DEF DiscardCall, Discard, Do, Steps
<1> HIDE DEF s
<1> QED
    BY <1>1 DEF s, Shape, Loose

LEMMA FinishSteps ==
    ASSUME NEW i \in Ids
    PROVE  LET s == FinishCall(i) IN
           /\ s \in Seq(Steps) /\ Len(s) = Chunks + 8
           /\ s[1].op = "lock" /\ s[2].op = "known" /\ s[3].op = "received"
           /\ s[4].op = "create"
           /\ \A k \in 5..(Chunks + 4) : s[k].op = "copy"
           /\ s[Chunks + 5].op = "rename" /\ s[Chunks + 6].op = "rmtree"
           /\ s[Chunks + 7].op = "forget" /\ s[Chunks + 8].op = "unlock"
<1> USE UploadsAssumption
<1> DEFINE a == <<Plain("lock"), Do("known", i, 0), Do("received", i, 0), Do("create", i, 0)>>
           b == [n \in Indices |-> Do("copy", i, n)]
           c == <<Do("rename", i, 0)>>
           d == Discard(i)
           e == <<Plain("unlock")>>
<1>1. /\ a \in Seq(Steps) /\ Len(a) = 4
      /\ a[1].op = "lock" /\ a[2].op = "known" /\ a[3].op = "received" /\ a[4].op = "create"
    BY DEF Plain, Do, Steps
<1>2. b \in Seq(Steps) /\ Len(b) = Chunks /\ \A k \in 1..Chunks : b[k].op = "copy"
    <2>1. \A n \in 1..Chunks : Do("copy", i, n) \in Steps /\ Do("copy", i, n).op = "copy"
        BY DEF Do, Steps, Indices
    <2> QED
        BY <2>1 DEF Indices
<1>3. c \in Seq(Steps) /\ Len(c) = 1 /\ c[1].op = "rename"
    BY DEF Do, Steps
<1>4. d \in Seq(Steps) /\ Len(d) = 2 /\ d[1].op = "rmtree" /\ d[2].op = "forget"
    BY DEF Discard, Do, Steps
<1>5. e \in Seq(Steps) /\ Len(e) = 1 /\ e[1].op = "unlock"
    BY DEF Plain, Do, Steps
<1> DEFINE ab == a \o b
           abc == ab \o c
           abcd == abc \o d
           s == abcd \o e
<1>6. s = FinishCall(i)
    BY DEF FinishCall
<1> HIDE DEF a, b, c, d, e
<1>7. /\ ab \in Seq(Steps) /\ Len(ab) = Chunks + 4
      /\ ab[1] = a[1] /\ ab[2] = a[2] /\ ab[3] = a[3] /\ ab[4] = a[4]
      /\ \A k \in 5..(Chunks + 4) : ab[k].op = "copy"
    <2>0. a \in Seq(Steps) /\ b \in Seq(Steps)
        BY <1>1, <1>2
    <2>1. /\ ab \in Seq(Steps)
          /\ Len(a) \in Nat /\ Len(b) \in Nat /\ Len(ab) = Len(a) + Len(b)
          /\ \A k \in 1..Len(a) : ab[k] = a[k]
          /\ \A k \in 1..Len(ab) :
               k > Len(a) => k - Len(a) \in 1..Len(b) /\ ab[k] = b[k - Len(a)]
        BY ONLY <2>0, ConcatFacts, Zenon DEF ab
    <2>2. ASSUME NEW k \in 5..(Chunks + 4) PROVE ab[k].op = "copy"
        <3>1. k \in 1..Len(ab) /\ k > Len(a) /\ k - Len(a) \in 1..Chunks
            BY <1>1, <1>2, <2>1
        <3> QED
            BY <1>2, <2>1, <3>1
    <2> QED
        BY <1>1, <1>2, <2>1, <2>2
<1> HIDE DEF ab
<1>8. /\ abc \in Seq(Steps) /\ Len(abc) = Chunks + 5
      /\ \A k \in 1..(Chunks + 4) : abc[k] = ab[k]
      /\ abc[Chunks + 5].op = "rename"
    <2>0. ab \in Seq(Steps) /\ c \in Seq(Steps)
        BY <1>7, <1>3
    <2>1. /\ abc \in Seq(Steps)
          /\ Len(ab) \in Nat /\ Len(c) \in Nat /\ Len(abc) = Len(ab) + Len(c)
          /\ \A k \in 1..Len(ab) : abc[k] = ab[k]
          /\ \A k \in 1..Len(abc) :
               k > Len(ab) => k - Len(ab) \in 1..Len(c) /\ abc[k] = c[k - Len(ab)]
        BY ONLY <2>0, ConcatFacts, Zenon DEF abc
    <2>2. \A k \in {Chunks + 5} : k \in 1..Len(abc) /\ k > Len(ab)
        BY <1>3, <1>7, <2>1
    <2>3. \A k \in {Chunks + 5} : abc[k] = c[k - Len(ab)]
        BY <2>1, <2>2
    <2> QED
        BY <1>3, <1>7, <2>1, <2>3
<1> HIDE DEF abc
<1>9. /\ abcd \in Seq(Steps) /\ Len(abcd) = Chunks + 7
      /\ \A k \in 1..(Chunks + 5) : abcd[k] = abc[k]
      /\ abcd[Chunks + 6].op = "rmtree" /\ abcd[Chunks + 7].op = "forget"
    <2>0. abc \in Seq(Steps) /\ d \in Seq(Steps)
        BY <1>8, <1>4
    <2>1. /\ abcd \in Seq(Steps)
          /\ Len(abc) \in Nat /\ Len(d) \in Nat /\ Len(abcd) = Len(abc) + Len(d)
          /\ \A k \in 1..Len(abc) : abcd[k] = abc[k]
          /\ \A k \in 1..Len(abcd) :
               k > Len(abc) => k - Len(abc) \in 1..Len(d) /\ abcd[k] = d[k - Len(abc)]
        BY ONLY <2>0, ConcatFacts, Zenon DEF abcd
    <2>2. \A k \in {Chunks + 6, Chunks + 7} : k \in 1..Len(abcd) /\ k > Len(abc)
        BY <1>4, <1>8, <2>1
    <2>3. \A k \in {Chunks + 6, Chunks + 7} : abcd[k] = d[k - Len(abc)]
        BY <2>1, <2>2
    <2> QED
        BY <1>4, <1>8, <2>1, <2>3
<1> HIDE DEF abcd
<1>10. /\ s \in Seq(Steps) /\ Len(s) = Chunks + 8
       /\ \A k \in 1..(Chunks + 7) : s[k] = abcd[k]
       /\ s[Chunks + 8].op = "unlock"
    <2>0. abcd \in Seq(Steps) /\ e \in Seq(Steps)
        BY <1>9, <1>5
    <2>1. /\ s \in Seq(Steps)
          /\ Len(abcd) \in Nat /\ Len(e) \in Nat /\ Len(s) = Len(abcd) + Len(e)
          /\ \A k \in 1..Len(abcd) : s[k] = abcd[k]
          /\ \A k \in 1..Len(s) :
               k > Len(abcd) => k - Len(abcd) \in 1..Len(e) /\ s[k] = e[k - Len(abcd)]
        BY ONLY <2>0, ConcatFacts, Zenon DEF s
    <2>2. \A k \in {Chunks + 8} : k \in 1..Len(s) /\ k > Len(abcd)
        BY <1>5, <1>9, <2>1
    <2>3. \A k \in {Chunks + 8} : s[k] = e[k - Len(abcd)]
        BY <2>1, <2>2
    <2> QED
        BY <1>5, <1>9, <2>1, <2>3
<1> HIDE DEF s
<1>11. \A k \in 1..(Chunks + 4) : s[k] = ab[k]
    BY <1>8, <1>9, <1>10
<1> QED
    BY <1>1, <1>6, <1>7, <1>8, <1>9, <1>10, <1>11

LEMMA FinishShape ==
    ASSUME NEW i \in Ids
    PROVE  FinishCall(i) \in Seq(Steps) /\ Shape(FinishCall(i))
<1> DEFINE s == FinishCall(i)
<1>1. /\ s \in Seq(Steps) /\ Len(s) = Chunks + 8
      /\ s[1].op = "lock" /\ s[2].op = "known" /\ s[3].op = "received"
      /\ s[4].op = "create"
      /\ \A k \in 5..(Chunks + 4) : s[k].op = "copy"
      /\ s[Chunks + 5].op = "rename" /\ s[Chunks + 6].op = "rmtree"
      /\ s[Chunks + 7].op = "forget" /\ s[Chunks + 8].op = "unlock"
    BY FinishSteps
<1> HIDE DEF s
<1>2. ASSUME NEW k \in 1..(Len(s) - 1)
      PROVE  /\ s[k].op # "unlock"
             /\ s[k + 1].op \notin {"lock", "state", "undo"}
             /\ s[k + 1].op \in {"copy", "rename"} <=> s[k].op \in {"create", "copy"}
             /\ s[k + 1].op = "create" => s[k].op = "received"
             /\ s[k + 1].op = "resume" => s[k].op \in Loose
    <2>1. \/ k \in {1, 2, 3} \/ k = 4 \/ k \in 5..(Chunks + 4) 
          \/ k \in {Chunks + 5, Chunks + 6, Chunks + 7}
        <3>1. Chunks \in Nat /\ k \in 1..(Chunks + 7)
            BY <1>1, UploadsAssumption
        <3>2. /\ k \in Int /\ 1 <= k /\ k <= Chunks + 7
              /\ k <= Chunks + 4 \/ k = Chunks + 5 \/ k = Chunks + 6 \/ k = Chunks + 7
            BY ONLY <3>1
        <3> QED
            BY ONLY <3>1, <3>2
    <2>2. CASE k \in {1, 2, 3}
        BY <1>1, <2>2
    <2>3. CASE k = 4
        BY <1>1, <2>3, UploadsAssumption
    <2>4. CASE k \in 5..(Chunks + 4)
        BY <1>1, <2>4, UploadsAssumption
    <2>5. CASE k \in {Chunks + 5, Chunks + 6, Chunks + 7}
        BY <1>1, <2>5, UploadsAssumption
    <2> QED
        BY <2>1, <2>2, <2>3, <2>4, <2>5
<1> QED
    BY <1>1, <1>2 DEF Shape, s

-----------------------------------------------------------------------------
(* What a step leaves a thread to do. *)
After(t, X) == todo' = [todo EXCEPT ![t] = X]

LEMMA ProceedAfter ==
    ASSUME TypeOK, NEW t \in Threads, todo[t] # <<>>, Proceed(t)
    PROVE  After(t, Tail(todo[t]))
<1>1. Tail(todo[t]) \in Seq(Steps)
    BY TailFacts DEF TypeOK
<1>2. <<>> \o Tail(todo[t]) = Tail(todo[t])
    BY <1>1
<1>3. todo' = [todo EXCEPT ![t] = <<>> \o Tail(todo[t])]
    BY DEF Proceed, Go
<1> QED
    BY <1>2, <1>3 DEF After

LEMMA AfterShapes ==
    ASSUME TypeOK, Shapes, NEW t \in Threads, NEW X \in Seq(Steps), Shape(X),
           t = Bg => \A k \in 1..Len(X) : X[k].op \in Loose,
           After(t, X)
    PROVE  todo' \in [Threads -> Seq(Steps)] /\ Shapes'
<1>1. todo' \in [Threads -> Seq(Steps)]
    BY DEF TypeOK, After
<1>2. \A u \in Threads : todo'[u] = IF u = t THEN X ELSE todo[u]
    BY DEF TypeOK, After
<1>3. \A u \in Threads : Shape(todo[u]')
    BY <1>2 DEF Shapes
<1>4. \A k \in 1..Len(todo'[Bg]) : todo'[Bg][k].op \in Loose
    BY <1>2 DEF Shapes, Threads
<1> QED
    BY <1>1, <1>3, <1>4 DEF Shapes

(* The rest of a call of the background thread cleans up too. *)
LEMMA TailStep ==
    ASSUME TypeOK, Shapes, NEW t \in Threads, todo[t] # <<>>
    PROVE  /\ Tail(todo[t]) \in Seq(Steps) /\ Shape(Tail(todo[t]))
           /\ t = Bg => \A k \in 1..Len(Tail(todo[t])) : Tail(todo[t])[k].op \in Loose
<1>1. todo[t] \in Seq(Steps) /\ Shape(todo[t])
    BY DEF TypeOK, Shapes
<1>2. /\ Tail(todo[t]) \in Seq(Steps) /\ Len(todo[t]) \in Nat \ {0}
      /\ Len(Tail(todo[t])) = Len(todo[t]) - 1
      /\ \A k \in 1..Len(Tail(todo[t])) : Tail(todo[t])[k] = todo[t][k + 1]
    BY <1>1, TailFacts
<1>3. ASSUME t = Bg, NEW k \in 1..Len(Tail(todo[t]))
      PROVE  Tail(todo[t])[k].op \in Loose
    <2>1. k + 1 \in 1..Len(todo[t]) /\ Tail(todo[t])[k] = todo[t][k + 1]
        BY <1>2
    <2> QED
        BY <2>1, <1>3 DEF Shapes
<1> QED
    BY <1>1, <1>3, ShapeTail

LEMMA PushStep ==
    ASSUME TypeOK, Shapes, NEW t \in Threads, todo[t] # <<>>,
           NEW m \in Seq(Steps), Head(todo[t]).op \in Loose,
           \A k \in 1..Len(m) : m[k].op \in Loose
    PROVE  LET X == m \o Tail(todo[t]) IN
           /\ X \in Seq(Steps) /\ Shape(X)
           /\ t = Bg => \A k \in 1..Len(X) : X[k].op \in Loose
<1> DEFINE r == Tail(todo[t])
           X == m \o r
<1>1. todo[t] \in Seq(Steps) /\ Shape(todo[t])
    BY DEF TypeOK, Shapes
<1>2. X \in Seq(Steps) /\ Shape(X)
    BY <1>1, ShapePush
<1>3. /\ r \in Seq(Steps)
      /\ t = Bg => \A k \in 1..Len(r) : r[k].op \in Loose
    BY TailStep
<1> HIDE DEF r
<1>4. /\ Len(m) \in Nat
      /\ \A k \in 1..Len(m) : X[k] = m[k]
      /\ \A k \in 1..Len(X) : k > Len(m) => k - Len(m) \in 1..Len(r) /\ X[k] = r[k - Len(m)]
    <2>1. m \in Seq(Steps) /\ r \in Seq(Steps)
        BY <1>3
    <2> QED
        BY ONLY <2>1, ConcatFacts, Zenon DEF X
<1>5. ASSUME t = Bg, NEW k \in 1..Len(X) PROVE X[k].op \in Loose
    <2>1. CASE k > Len(m)
        BY <1>3, <1>4, <1>5, <2>1
    <2>2. CASE k <= Len(m)
        <3>1. k \in 1..Len(m)
            BY <1>4, <2>2
        <3> QED
            BY <1>4, <3>1
    <2> QED
        BY <1>4, <2>1, <2>2
<1> QED
    BY <1>2, <1>5 DEF r

(* SetToSeq lists the elements of a finite set. *)
LEMMA ListOfSet ==
    ASSUME NEW S, S \subseteq Ids
    PROVE  /\ Cardinality(S) \in Nat
           /\ SetToSeq(S) \in [1..Cardinality(S) -> S]
<1>1. IsFiniteSet(S)
    <2>1. IsFiniteSet(Ids)
        BY UploadsAssumption, FS_Interval DEF Ids
    <2> QED
        BY <2>1, FS_Subset
<1>2. Cardinality(S) \in Nat /\ ExistsBijection(1..Cardinality(S), S)
    BY <1>1, FS_CardinalityType
<1>3. PICK f \in [1..Cardinality(S) -> S] : IsInjective(f)
    BY <1>2 DEF ExistsBijection, Bijection, Injection, IsInjective
<1> QED
    BY <1>2, <1>3 DEF SetToSeq

LEMMA ForEachSteps ==
    ASSUME NEW S, S \subseteq Ids, NEW op \in {"expired", "orphan"}
    PROVE  /\ ForEach(S, op) \in Seq(Steps)
           /\ \A k \in 1..Len(ForEach(S, op)) : ForEach(S, op)[k].op \in Loose
<1> DEFINE n == Cardinality(S)
           q == SetToSeq(S)
<1>1. n \in Nat /\ q \in [1..n -> S]
    BY ListOfSet
<1>2. ForEach(S, op) = [k \in 1..n |-> Do(op, q[k], 0)]
    BY DEF ForEach
<1> HIDE DEF n, q
<1>3. \A k \in 1..n : Do(op, q[k], 0) \in Steps /\ Do(op, q[k], 0).op \in Loose
    BY <1>1 DEF Do, Steps, Loose
<1> QED
    BY <1>1, <1>2, <1>3

-----------------------------------------------------------------------------
(* A step of t that leaves it X is calm: it enters no part of a call that  *)
(* the invariant speaks of.                                                *)
Resumes(X) == {k \in 1..Len(X) : X[k].op = "resume"}

Calm(t, X) ==
    /\ X \in Seq(Steps) /\ Shape(X)
    /\ t = Bg => \A k \in 1..Len(X) : X[k].op \in Loose
    /\ X # <<>> => Head(X).op \notin Assembly \cup {"state"}
    /\ Inside(X) => Inside(todo[t])
    /\ \A j, k \in Resumes(X) : j = k
    /\ Resumes(X) # {} => Resumes(todo[t]) # {}

LEMMA EmptyCalm == ASSUME NEW t \in Threads PROVE Calm(t, <<>>)
BY ShapeShort DEF Calm, Inside, Resumes

(* What one step brings next, and what it leaves as it was. *)
LEMMA TailParts ==
    ASSUME TypeOK, Shapes, DrawnInv, NEW t \in Threads, todo[t] # <<>>
    PROVE  LET s == todo[t]
               r == Tail(todo[t]) IN
           /\ r # <<>> =>
                 /\ Head(r).op \notin {"state", "undo"}
                 /\ Head(r).op \in {"copy", "rename"} <=> Head(s).op \in {"create", "copy"}
           /\ Head(s).op \in {"create", "copy"} => r # <<>>
           /\ Head(s).op = "unlock" => r = <<>>
           /\ Head(s).op # "lock" /\ Inside(r) => Inside(s)
           /\ \A j, k \in Resumes(r) : j = k
           /\ Resumes(r) # {} => Resumes(s) # {}
<1> DEFINE s == todo[t]
           r == Tail(s)
<1>1. r \in Seq(Steps) /\ s \in Seq(Steps) /\ Shape(s)
    BY TailStep DEF TypeOK, Shapes
<1>2. /\ Head(s) = s[1] /\ Len(s) \in Nat \ {0} /\ Len(r) = Len(s) - 1
      /\ \A k \in 1..Len(r) : r[k] = s[k + 1]
    BY <1>1, TailFacts
<1>3. r # <<>> => /\ Len(r) \in Nat \ {0} /\ Head(r) = r[1]
    BY <1>1, TailFacts
<1>4. s # <<>> /\ \A j, k \in Resumes(s) : j = k
    BY DEF DrawnInv, Resumes
<1> HIDE DEF r, s
<1>5. ASSUME r # <<>>
      PROVE  /\ Head(r).op \notin {"state", "undo"}
             /\ Head(r).op \in {"copy", "rename"} <=> Head(s).op \in {"create", "copy"}
             /\ Head(s).op # "unlock"
             /\ r[Len(r)] = s[Len(s)]
    <2>1. 1 \in 1..(Len(s) - 1) /\ r[1] = s[1 + 1] /\ r[Len(r)] = s[Len(s)]
        BY <1>2, <1>3, <1>5
    <2>2. /\ s[1].op # "unlock"
          /\ s[1 + 1].op \notin {"lock", "state", "undo"}
          /\ s[1 + 1].op \in {"copy", "rename"} <=> s[1].op \in {"create", "copy"}
        BY <1>1, <2>1 DEF Shape
    <2> QED
        BY <1>2, <1>3, <1>5, <2>1, <2>2
<1>6. ASSUME Head(s).op \in {"create", "copy"} PROVE r # <<>>
    <2>1. SUFFICES ASSUME r = <<>> PROVE FALSE
        OBVIOUS
    <2>2. Len(s) = 1 /\ 1 \in 1..Len(s)
        BY <1>1, <1>2, <2>1
    <2>3. s[Len(s)].op = "unlock"
        BY <1>1, <1>2, <1>6, <2>2 DEF Shape
    <2> QED
        BY <1>2, <1>6, <2>2, <2>3
<1>7. ASSUME Head(s).op # "lock", Inside(r) PROVE Inside(s)
    BY <1>4, <1>5, <1>7 DEF Inside
<1>8. \A k \in Resumes(r) : k + 1 \in Resumes(s) /\ k \in Nat
    BY <1>1, <1>2 DEF Resumes
<1>9. \A j, k \in Resumes(r) : j = k
    BY <1>4, <1>8
<1> QED
    BY <1>5, <1>6, <1>7, <1>8, <1>9 DEF s, r

LEMMA TailCalm ==
    ASSUME TypeOK, Shapes, DrawnInv, NEW t \in Threads, todo[t] # <<>>,
           Head(todo[t]).op \notin {"create", "copy", "lock"}
    PROVE  Calm(t, Tail(todo[t]))
BY TailParts, TailStep DEF Calm, Assembly

LEMMA PushCalm ==
    ASSUME TypeOK, Shapes, DrawnInv, NEW t \in Threads, todo[t] # <<>>,
           NEW m \in Seq(Steps), Head(todo[t]).op \in Loose,
           \A k \in 1..Len(m) : m[k].op \in Loose
    PROVE  Calm(t, m \o Tail(todo[t]))
<1> DEFINE r == Tail(todo[t])
           X == m \o r
<1>1. /\ X \in Seq(Steps) /\ Shape(X)
      /\ t = Bg => \A k \in 1..Len(X) : X[k].op \in Loose
    BY PushStep
<1>2. Calm(t, r)
    BY TailCalm DEF Loose
<1>3. r \in Seq(Steps) /\ \A j, k \in Resumes(r) : j = k
    BY <1>2 DEF Calm
<1>4. /\ Len(m) \in Nat /\ Len(r) \in Nat /\ Len(X) = Len(m) + Len(r)
      /\ \A k \in 1..Len(m) : X[k] = m[k]
      /\ \A k \in 1..Len(X) : k > Len(m) => k - Len(m) \in 1..Len(r) /\ X[k] = r[k - Len(m)]
    <2>1. m \in Seq(Steps) /\ r \in Seq(Steps)
        BY <1>3
    <2> HIDE DEF r
    <2> QED
        BY ONLY <2>1, ConcatFacts, Zenon DEF X
<1> HIDE DEF r
<1>5. CASE m = <<>>
    <2>1. X = r
        BY <1>3, <1>5
    <2> QED
        BY <1>2, <2>1 DEF r
<1>6. CASE m # <<>>
    <2>1. Len(m) > 0 /\ X # <<>> /\ Head(X) = X[1] /\ X[1] = m[1] /\ m[1].op \in Loose
        <3>1. Len(m) > 0
            BY <1>6
        <3> QED
            BY <3>1, <1>1, <1>4
    <2>2. Head(X).op \in Loose
        BY <2>1
    <2>3. Inside(X) => Inside(todo[t])
        <3>1. SUFFICES ASSUME X[Len(X)].op = "unlock" PROVE Inside(todo[t])
            BY <2>2 DEF Inside, Loose
        <3>2. Len(X) > Len(m)
            <4>1. SUFFICES ASSUME Len(r) = 0 PROVE FALSE
                BY <1>4
            <4> QED
                BY <1>4, <2>1, <3>1, <4>1 DEF Loose
        <3>3. Len(r) \in 1..Len(r) /\ Len(X) \in 1..Len(X) /\ Len(X) - Len(m) = Len(r)
            BY <1>4, <3>2
        <3>4. r[Len(r)].op = "unlock"
            BY <1>4, <3>1, <3>2, <3>3
        <3>5. todo[t] \in Seq(Steps)
            BY DEF TypeOK
        <3>6. /\ Len(todo[t]) \in Nat \ {0} /\ Len(r) = Len(todo[t]) - 1
              /\ \A k \in 1..Len(r) : r[k] = todo[t][k + 1]
            BY <3>5, TailFacts DEF r
        <3>7. todo[t][Len(todo[t])].op = "unlock"
            BY <3>3, <3>4, <3>6
        <3> QED
            BY <3>7 DEF Inside, Loose
    <2>4. \A k \in Resumes(X) : k > Len(m) /\ k - Len(m) \in Resumes(r)
        <3>1. TAKE k \in Resumes(X)
        <3>2. k \in 1..Len(X) /\ X[k].op = "resume"
            BY DEF Resumes
        <3>3. k > Len(m)
            <4>1. SUFFICES ASSUME k <= Len(m) PROVE FALSE
                BY <1>4, <3>2
            <4>2. k \in 1..Len(m) /\ X[k] = m[k]
                BY <1>4, <3>2, <4>1
            <4> QED
                BY <3>2, <4>2 DEF Loose
        <3> QED
            BY <1>4, <3>2, <3>3 DEF Resumes
    <2>5. \A j, k \in Resumes(X) : j = k
        <3>1. \A k \in Resumes(X) : k \in Int
            BY <1>4 DEF Resumes
        <3> QED
            BY <1>3, <1>4, <2>4, <3>1
    <2>6. Resumes(X) # {} => Resumes(todo[t]) # {}
        BY <1>2, <2>4 DEF Calm, r
    <2> QED
        BY <1>1, <2>2, <2>3, <2>5, <2>6 DEF Calm, Loose, Assembly, r
<1> QED
    BY <1>5, <1>6


(* What each part of the invariant asks of a step of t that leaves it X. *)
LEMMA LockKept ==
    ASSUME TypeOK, LockInv, NEW t \in Threads, NEW X, After(t, X),
           Inside(X) => Inside(todo[t]),
           lock' = lock \/ (X = <<>> /\ lock = t /\ lock' = Nobody)
    PROVE  LockInv' /\ lock' \in Threads \cup {Nobody}
<1>1. \A u \in Threads : todo'[u] = IF u = t THEN X ELSE todo[u]
    BY DEF TypeOK, After
<1>2. ASSUME NEW u \in Threads, Inside(todo'[u]) PROVE lock' = u
    <2>1. Inside(todo[u])
        BY <1>1, <1>2
    <2>2. lock = u
        BY <2>1 DEF LockInv
    <2> QED
        BY <1>1, <1>2, <2>2 DEF Inside
<1> QED
    BY <1>2 DEF LockInv, TypeOK

LEMMA NameKept ==
    ASSUME TypeOK, NameInv, NEW t \in Threads, NEW X, After(t, X),
           X # <<>> => Head(X).op \notin Assembly,
           \A op \in Assembly : ~Step(t, op),
           lock' = lock \/ lock \in {t, Nobody},
           dest' = dest, crashes' = crashes, kept' = kept
    PROVE  NameInv'
<1>1. \A u \in Threads : todo'[u] = IF u = t THEN X ELSE todo[u]
    BY DEF TypeOK, After
<1>2. ASSUME NEW u \in Threads, NEW op \in Assembly, Step(u, op)'
      PROVE  u # t /\ Step(u, op)
    BY <1>1, <1>2 DEF Step
<1>3. \A u \in Threads : (\E op \in Assembly : Step(u, op)') => dest' = "empty"
    BY <1>2 DEF NameInv
<1>4. ASSUME crashes' = 0, ~kept', dest' = "empty"
      PROVE  \E u \in Clients : Assembling(u)'
    <2>1. PICK u \in Clients : Assembling(u)
        BY <1>4 DEF NameInv, NameIsFreed
    <2>2. PICK op \in Assembly : Step(u, op)
        BY <2>1 DEF Assembling, Assembly
    <2>3. u # t /\ u \in Threads /\ lock = u
        BY <2>1, <2>2 DEF Threads, Assembling
    <2>4. lock' = u /\ Step(u, op)'
        BY <1>1, <2>2, <2>3, UploadsAssumption DEF Step
    <2> QED
        BY <2>2, <2>4 DEF Assembling, Assembly
<1> QED
    BY <1>3, <1>4 DEF NameInv, NameIsFreed

LEMMA FreshKept ==
    ASSUME TypeOK, FreshInv, NEW t \in Threads, NEW X, After(t, X),
           X # <<>> => Head(X).op # "state",
           \A i \in Ids \ revived' : state'[i] = "live" => i \notin revived /\ state[i] = "live"
    PROVE  FreshInv'
<1>1. \A u \in Threads : todo'[u] = IF u = t THEN X ELSE todo[u]
    BY DEF TypeOK, After
<1>2. ASSUME NEW u \in Threads, Step(u, "state")' PROVE Step(u, "state")
    BY <1>1, <1>2 DEF Step
<1> QED
    BY <1>2 DEF FreshInv

LEMMA DrawnKept ==
    ASSUME TypeOK, DrawnInv, NEW t \in Threads, NEW X, After(t, X),
           \A j, k \in Resumes(X) : j = k,
           Resumes(X) # {} => Resumes(todo[t]) # {},
           drawn' = drawn
    PROVE  DrawnInv'
<1>1. \A u \in Threads : todo'[u] = IF u = t THEN X ELSE todo[u]
    BY DEF TypeOK, After
<1>2. Drawing' \subseteq Drawing
    BY <1>1 DEF Drawing, Resumes, Threads
<1>3. IsFiniteSet(Drawing)
    BY UploadsAssumption, FS_Subset DEF Drawing
<1>4. Cardinality(Drawing') <= Cardinality(Drawing) /\ IsFiniteSet(Drawing')
    BY <1>2, <1>3, FS_Subset
<1>5. Cardinality(Drawing') \in Nat /\ Cardinality(Drawing) \in Nat
    BY <1>3, <1>4, FS_CardinalityType
<1>6. drawn + Cardinality(Drawing') <= MaxUploads
    BY <1>4, <1>5, UploadsAssumption DEF DrawnInv, TypeOK
<1>7. ASSUME NEW u \in Threads, NEW j \in Resumes(todo'[u]), NEW k \in Resumes(todo'[u])
      PROVE  j = k
    BY <1>1, <1>7 DEF DrawnInv, Resumes
<1> QED
    BY <1>6, <1>7 DEF DrawnInv, Resumes

(* A calm step keeps them all, if it does not touch the library nor make   *)
(* an upload live.                                                         *)
Keeps ==
    /\ todo' \in [Threads -> Seq(Steps)] /\ lock' \in Threads \cup {Nobody}
    /\ Shapes' /\ LockInv' /\ NameInv' /\ FreshInv' /\ DrawnInv'

LEMMA CalmKeeps ==
    ASSUME IInv, NEW t \in Threads, NEW X, Calm(t, X), After(t, X),
           lock' = lock \/ (X = <<>> /\ lock = t /\ lock' = Nobody),
           \A op \in Assembly : ~Step(t, op),
           dest' = dest, crashes' = crashes, kept' = kept, drawn' = drawn,
           \A i \in Ids \ revived' : state'[i] = "live" => i \notin revived /\ state[i] = "live"
    PROVE  Keeps
<1>1. TypeOK /\ Shapes /\ LockInv /\ NameInv /\ FreshInv /\ DrawnInv
    BY DEF IInv
<1>2. todo' \in [Threads -> Seq(Steps)] /\ Shapes'
    BY <1>1, AfterShapes DEF Calm
<1>3. LockInv' /\ lock' \in Threads \cup {Nobody}
    BY <1>1, LockKept DEF Calm
<1>4. NameInv'
    BY <1>1, NameKept DEF Calm
<1>5. FreshInv'
    BY <1>1, FreshKept DEF Calm
<1>6. DrawnInv'
    BY <1>1, DrawnKept DEF Calm
<1> QED
    BY <1>2, <1>3, <1>4, <1>5, <1>6 DEF Keeps

(* An exception leaves nothing to do, wherever it is raised outside of an  *)
(* assembly.                                                               *)
LEMMA RaiseKeeps ==
    ASSUME IInv, NEW t \in Threads, Raise(t),
           \A op \in Assembly : ~Step(t, op),
           dest' = dest, crashes' = crashes, kept' = kept, drawn' = drawn,
           state' = state, revived' = revived
    PROVE  Keeps
<1>1. After(t, <<>>) /\ Calm(t, <<>>)
    BY EmptyCalm DEF Raise, After
<1>2. lock' = lock \/ (lock = t /\ lock' = Nobody)
    BY DEF Raise
<1> QED
    BY <1>1, <1>2, CalmKeeps

LEMMA ProceedKeeps ==
    ASSUME IInv, NEW t \in Threads, todo[t] # <<>>, Proceed(t),
           Head(todo[t]).op \notin {"create", "copy", "lock", "rename", "undo"},
           lock' = lock, dest' = dest, crashes' = crashes, kept' = kept, drawn' = drawn,
           \A i \in Ids \ revived' : state'[i] = "live" => i \notin revived /\ state[i] = "live"
    PROVE  Keeps
<1>1. After(t, Tail(todo[t])) /\ Calm(t, Tail(todo[t]))
    BY ProceedAfter, TailCalm DEF IInv
<1>2. \A op \in Assembly : ~Step(t, op)
    BY DEF Step, Assembly
<1> QED
    BY <1>1, <1>2, CalmKeeps

LEMMA PushKeeps ==
    ASSUME IInv, NEW t \in Threads, todo[t] # <<>>,
           NEW m \in Seq(Steps), Go(t, m), Head(todo[t]).op \in Loose,
           \A k \in 1..Len(m) : m[k].op \in Loose,
           lock' = lock, dest' = dest, crashes' = crashes, kept' = kept, drawn' = drawn,
           state' = state, revived' = revived
    PROVE  Keeps
<1>1. After(t, m \o Tail(todo[t])) /\ Calm(t, m \o Tail(todo[t]))
    BY PushCalm DEF IInv, Go, After
<1>2. \A op \in Assembly : ~Step(t, op)
    BY DEF Step, Assembly, Loose
<1> QED
    BY <1>1, <1>2, CalmKeeps

-----------------------------------------------------------------------------
(* The steps that enter a part of a call the invariant speaks of.          *)

(* Whoever assembles, creates or writes a state is past its lock. *)
LEMMA HoldsLock ==
    ASSUME IInv, NEW t \in Threads, todo[t] # <<>>,
           Head(todo[t]).op \in {"unlock", "create", "copy", "rename", "undo", "resume", "state"}
    PROVE  lock = t
<1> DEFINE s == todo[t]
<1>1. s \in Seq(Steps) /\ Shape(s) /\ LockInv
    BY DEF IInv, TypeOK, Shapes
<1>2. Head(s) = s[1] /\ Len(s) \in Nat \ {0} /\ 1 \in 1..Len(s)
    BY <1>1, TailFacts
<1> HIDE DEF s
<1>3. CASE Head(s).op = "undo"
    BY <1>1, <1>3 DEF LockInv, Inside, s
<1>4. CASE Head(s).op = "unlock"
    <2>1. Len(s) = 1
        <3>1. Len(s) \in Nat \ {0}
            BY <1>2
        <3>2. ~(1 \in 1..(Len(s) - 1))
            BY <1>1, <1>2, <1>4 DEF Shape
        <3>3. \A n \in Nat \ {0} : ~(1 \in 1..(n - 1)) => n = 1
            OBVIOUS
        <3> QED
            BY <3>1, <3>2, <3>3, Zenon
    <2>2. s[Len(s)].op = "unlock"
        BY <1>2, <1>4, <2>1
    <2> QED
        BY <1>1, <1>4, <2>2 DEF LockInv, Inside, s
<1>5. CASE Head(s).op \in {"create", "copy", "rename", "resume", "state"}
    <2>1. s[Len(s)].op = "unlock"
        BY <1>1, <1>2, <1>5 DEF Shape
    <2> QED
        BY <1>1, <1>5, <2>1 DEF LockInv, Inside, s
<1> QED
    BY <1>3, <1>4, <1>5 DEF s

LEMMA BgIsLoose ==
    ASSUME IInv, NEW t \in Threads, todo[t] # <<>>, Head(todo[t]).op \notin Loose
    PROVE  t # Bg
<1>1. todo[t] \in Seq(Steps)
    BY DEF IInv, TypeOK
<1>2. 1 \in 1..Len(todo[t]) /\ Head(todo[t]) = todo[t][1]
    BY <1>1, TailFacts
<1> QED
    BY <1>2 DEF IInv, Shapes

LEMMA LockKeeps ==
    ASSUME IInv, NEW t \in Threads, Lock(t)
    PROVE  Keeps
<1>1. TypeOK /\ Shapes /\ LockInv /\ NameInv /\ FreshInv /\ DrawnInv
    BY DEF IInv
<1>2. /\ todo[t] # <<>> /\ Head(todo[t]).op = "lock" /\ lock = Nobody /\ lock' = t
      /\ Proceed(t) /\ dest' = dest /\ crashes' = crashes /\ kept' = kept /\ drawn' = drawn
      /\ state' = state /\ revived' = revived
    BY DEF Lock, Step, disk, history, bounds
<1> DEFINE r == Tail(todo[t])
<1>3. After(t, r)
    BY <1>1, <1>2, ProceedAfter
<1>4. /\ r # <<>> => Head(r).op \notin Assembly \cup {"state"}
      /\ \A j, k \in Resumes(r) : j = k
      /\ Resumes(r) # {} => Resumes(todo[t]) # {}
    BY <1>1, <1>2, TailParts DEF Assembly
<1>5. todo' \in [Threads -> Seq(Steps)] /\ Shapes'
    BY <1>1, <1>2, <1>3, TailStep, AfterShapes
<1> HIDE DEF r
<1>6. LockInv'
    <2>1. ASSUME NEW u \in Threads, u # t, Inside(todo'[u]) PROVE FALSE
        <3>1. Inside(todo[u])
            BY <1>1, <1>3, <2>1 DEF TypeOK, After
        <3> QED
            BY <1>1, <1>2, <3>1, UploadsAssumption DEF LockInv
    <2> QED
        BY <1>2, <2>1 DEF LockInv
<1>7. \A op \in Assembly : ~Step(t, op)
    BY <1>2 DEF Step, Assembly
<1>8. NameInv'
    BY <1>1, <1>2, <1>3, <1>4, <1>7, NameKept
<1>9. FreshInv'
    BY <1>1, <1>2, <1>3, <1>4, FreshKept
<1>10. DrawnInv'
    BY <1>1, <1>2, <1>3, <1>4, DrawnKept
<1> QED
    BY <1>2, <1>5, <1>6, <1>8, <1>9, <1>10 DEF Keeps

LEMMA UnlockKeeps ==
    ASSUME IInv, NEW t \in Threads, Unlock(t)
    PROVE  Keeps
<1>1. TypeOK /\ Shapes /\ DrawnInv
    BY DEF IInv
<1>2. /\ todo[t] # <<>> /\ Head(todo[t]).op = "unlock" /\ lock' = Nobody
      /\ Proceed(t) /\ dest' = dest /\ crashes' = crashes /\ kept' = kept /\ drawn' = drawn
      /\ state' = state /\ revived' = revived
    BY DEF Unlock, Step, disk, history, bounds
<1>3. Tail(todo[t]) = <<>>
    BY <1>1, <1>2, TailParts
<1>4. After(t, <<>>) /\ Calm(t, <<>>) /\ lock = t
    BY <1>1, <1>2, <1>3, ProceedAfter, EmptyCalm, HoldsLock
<1>5. \A op \in Assembly : ~Step(t, op)
    BY <1>2 DEF Step, Assembly
<1>6. lock' = lock \/ (<<>> = <<>> /\ lock = t /\ lock' = Nobody)
    BY <1>2, <1>4
<1> QED
    BY <1>2, <1>4, <1>5, <1>6, CalmKeeps

LEMMA WriteStateKeeps ==
    ASSUME IInv, NEW t \in Threads, WriteState(t)
    PROVE  Keeps
<1>1. TypeOK /\ Shapes /\ LockInv /\ NameInv /\ FreshInv /\ DrawnInv
    BY DEF IInv
<1>0. CASE Raise(t) /\ UNCHANGED state
    <2>1. \A op \in Assembly : ~Step(t, op)
        BY DEF WriteState, Step, Assembly
    <2>2. /\ dest' = dest /\ crashes' = crashes /\ kept' = kept /\ drawn' = drawn
          /\ revived' = revived
        BY DEF WriteState, history, bounds
    <2> QED
        BY <1>0, <2>1, <2>2, RaiseKeeps
<1> SUFFICES ASSUME ~(Raise(t) /\ UNCHANGED state) PROVE Keeps
    BY <1>0
<1>2. /\ todo[t] # <<>> /\ Head(todo[t]).op = "state" /\ lock' = lock
      /\ Proceed(t) /\ revived' = revived /\ dest' = dest /\ crashes' = crashes
      /\ kept' = kept /\ drawn' = drawn
      /\ state' = [state EXCEPT ![Id(t)] = "live"]
    BY DEF WriteState, Step, history, bounds
<1> DEFINE r == Tail(todo[t])
<1>3. After(t, r) /\ Calm(t, r)
    BY <1>1, <1>2, ProceedAfter, TailCalm
<1>4. todo' \in [Threads -> Seq(Steps)] /\ Shapes'
    BY <1>1, <1>3, AfterShapes DEF Calm
<1>5. LockInv' /\ lock' \in Threads \cup {Nobody}
    BY <1>1, <1>2, <1>3, LockKept DEF Calm
<1>6. \A op \in Assembly : ~Step(t, op)
    BY <1>2 DEF Step, Assembly
<1>7. NameInv'
    BY <1>1, <1>2, <1>3, <1>6, NameKept DEF Calm
<1>8. FreshInv'
    <2>1. \A i \in Ids \ revived : state[i] # "live"
        BY <1>1, <1>2 DEF FreshInv, Step
    <2>2. \A i \in Ids \ revived' : state'[i] = "live" => i = Id(t)
        BY <1>1, <1>2, <2>1 DEF TypeOK
    <2>3. ASSUME NEW u \in Threads, Step(u, "state")' PROVE FALSE
        <3>1. u # t /\ todo'[u] = todo[u]
            BY <1>1, <1>3, <2>3 DEF Step, After, Calm, TypeOK
        <3>2. lock = u /\ lock = t
            BY <1>2, <2>3, <3>1, HoldsLock DEF Step
        <3> QED
            BY <3>1, <3>2
    <2> QED
        BY <2>2, <2>3 DEF FreshInv
<1>9. DrawnInv'
    BY <1>1, <1>2, <1>3, DrawnKept DEF Calm
<1> QED
    BY <1>4, <1>5, <1>7, <1>8, <1>9 DEF Keeps

(* The step of an assembly changes the library, which nobody else does     *)
(* meanwhile.                                                              *)
LEMMA AssemblyKeeps ==
    ASSUME IInv, NEW t \in Threads, NEW X,
           todo[t] # <<>>, Head(todo[t]).op \in {"create", "copy", "rename", "undo"},
           X \in Seq(Steps), Shape(X), t = Bg => X = <<>>, After(t, X),
           X # <<>> => Head(X).op # "state",
           Inside(X) => Inside(todo[t]),
           \A j, k \in Resumes(X) : j = k,
           Resumes(X) # {} => Resumes(todo[t]) # {},
           lock' = lock \/ (X = <<>> /\ lock = t /\ lock' = Nobody),
           crashes' = crashes, drawn' = drawn, state' = state, revived' = revived,
           (X # <<>> /\ Head(X).op \in Assembly) => dest' = "empty",
           dest' = "empty" /\ ~kept' => X # <<>> /\ Head(X).op \in Assembly,
           (X # <<>> /\ Head(X).op \in Assembly) => lock' = lock
    PROVE  Keeps
<1>1. TypeOK /\ Shapes /\ LockInv /\ NameInv /\ FreshInv /\ DrawnInv /\ lock = t
    BY HoldsLock DEF IInv
<1>2. t # Bg /\ t \in Clients
    <2>1. todo[t] \in Seq(Steps)
        BY <1>1 DEF TypeOK
    <2>2. 1 \in 1..Len(todo[t]) /\ Head(todo[t]) = todo[t][1]
        BY <2>1, TailFacts
    <2> QED
        BY <1>1, <2>2 DEF Shapes, Loose, Threads
<1>3. todo' \in [Threads -> Seq(Steps)] /\ Shapes'
    BY <1>1, <1>2, AfterShapes
<1>4. \A u \in Threads : todo'[u] = IF u = t THEN X ELSE todo[u]
    BY <1>1 DEF TypeOK, After
<1>5. LockInv' /\ lock' \in Threads \cup {Nobody}
    BY <1>1, LockKept
<1>6. NameInv'
    <2>1. ASSUME NEW u \in Threads, NEW op \in Assembly, Step(u, op)'
          PROVE  dest' = "empty"
        <3>1. CASE u = t
            BY <1>4, <2>1, <3>1 DEF Step
        <3>2. CASE u # t
            <4>1. todo[u] # <<>> /\ Head(todo[u]).op = op
                BY <1>4, <2>1, <3>2 DEF Step
            <4>2. lock = u
                BY <4>1, HoldsLock DEF Assembly
            <4> QED
                BY <1>1, <3>2, <4>2
        <3> QED
            BY <3>1, <3>2
    <2>2. ASSUME dest' = "empty", ~kept' PROVE Assembling(t)'
        BY <1>1, <1>4, <2>2 DEF Assembling, Step, Assembly
    <2> QED
        BY <1>2, <2>1, <2>2 DEF NameInv, NameIsFreed
<1>7. FreshInv'
    BY <1>1, FreshKept
<1>8. DrawnInv'
    BY <1>1, DrawnKept
<1> QED
    BY <1>3, <1>5, <1>6, <1>7, <1>8 DEF Keeps

LEMMA ResumeKeeps ==
    ASSUME IInv, NEW t \in Threads, Resume(t)
    PROVE  Keeps /\ drawn' \in 0..MaxUploads /\ dir' \subseteq Ids
<1>1. TypeOK /\ Shapes /\ LockInv /\ NameInv /\ FreshInv /\ DrawnInv
    BY DEF IInv
<1>2. /\ todo[t] # <<>> /\ Head(todo[t]).op = "resume" /\ dest' = dest
      /\ crashes' = crashes /\ kept' = kept /\ state' = state /\ revived' = revived
    BY DEF Resume, Step, history, bounds
<1>3. \A op \in Assembly : ~Step(t, op)
    BY <1>2 DEF Step, Assembly
<1>4. drawn \in 0..MaxUploads /\ dir \subseteq Ids
    BY <1>1 DEF TypeOK
<1>5. CASE Raise(t) /\ UNCHANGED <<dir, drawn>>
    BY <1>2, <1>3, <1>4, <1>5, RaiseKeeps
<1>6. CASE UNCHANGED lock /\ Proceed(t) /\ UNCHANGED <<dir, drawn>>
    BY <1>2, <1>4, <1>6, ProceedKeeps
<1>7. CASE /\ UNCHANGED lock /\ ~(\E i \in Ids : state[i] = "live")
           /\ drawn' = drawn + 1 /\ dir' = dir \cup {drawn'}
           /\ Go(t, <<Do("state", drawn', 0)>>)
    <2> DEFINE s == todo[t]
               X == <<Do("state", drawn', 0)>> \o Tail(s)
    <2>1. s \in Seq(Steps) /\ Shape(s) /\ s # <<>> /\ Head(s).op = "resume"
        BY <1>1, <1>2 DEF TypeOK, Shapes
    <2>2. 1 \in 1..Len(s) /\ Head(s) = s[1]
        BY <2>1, TailFacts
    <2>3. t # Bg /\ t \in Clients /\ t \in Drawing
        BY <1>1, <2>1, <2>2 DEF Shapes, Loose, Threads, Drawing
    <2>4. IsFiniteSet(Drawing)
        BY UploadsAssumption, FS_Subset DEF Drawing
    <2>5. Cardinality(Drawing \ {t}) = Cardinality(Drawing) - 1
        BY <2>3, <2>4, FS_RemoveElement
    <2>6. Cardinality(Drawing) \in Nat /\ Cardinality(Drawing \ {t}) \in Nat
          /\ IsFiniteSet(Drawing \ {t})
        BY <2>4, FS_CardinalityType, FS_RemoveElement
    <2>7. drawn + 1 + Cardinality(Drawing \ {t}) <= MaxUploads
        BY <1>1, <1>4, <2>5, <2>6, UploadsAssumption DEF DrawnInv
    <2>8. drawn' \in Ids /\ drawn' \in 0..MaxUploads /\ dir' \subseteq Ids
        BY <1>4, <1>7, <2>6, <2>7, UploadsAssumption DEF Ids
    <2>9. /\ X \in Seq(Steps) /\ Shape(X) /\ Len(X) = Len(s) /\ Len(X) > 1
          /\ X[1].op = "state" /\ X[Len(X)].op = "unlock"
          /\ \A k \in 2..Len(X) : X[k] = s[k]
        BY <2>1, <2>8, ShapeResume
    <2>10. After(t, X)
        BY <1>7 DEF Go, After
    <2> HIDE DEF X, s
    <2>11. X # <<>> /\ Head(X) = X[1]
        BY <2>9
    <2>12. ASSUME NEW k \in 1..Len(X) PROVE X[k].op # "resume"
        <3>1. CASE k = 1
            BY <2>9, <3>1
        <3>2. CASE k # 1
            <4>1. k \in 2..Len(X) /\ k \in 1..Len(s) /\ X[k] = s[k]
                BY <2>9, <3>2
            <4>2. s[k].op = "resume" => k = 1
                BY <1>1, <2>1, <2>2, <4>1 DEF DrawnInv, s
            <4> QED
                BY <3>2, <4>1, <4>2
        <3> QED
            BY <3>1, <3>2
    <2>13. lock = t
        BY <1>2, HoldsLock
    <2>14. todo' \in [Threads -> Seq(Steps)] /\ Shapes'
        BY <1>1, <2>3, <2>9, <2>10, AfterShapes
    <2>15. \A u \in Threads : todo'[u] = IF u = t THEN X ELSE todo[u]
        BY <1>1, <2>10 DEF TypeOK, After
    <2>16. LockInv' /\ lock' \in Threads \cup {Nobody}
        BY <1>1, <1>7, <2>13, <2>15 DEF LockInv, TypeOK
    <2>17. NameInv'
        BY <1>1, <1>2, <1>3, <1>7, <2>9, <2>10, <2>11, NameKept DEF Assembly
    <2>18. FreshInv'
        BY <1>1, <1>2, <1>7 DEF FreshInv
    <2>19. Drawing' \subseteq Drawing \ {t}
        BY <2>12, <2>15 DEF Drawing, Threads
    <2>20. Cardinality(Drawing') <= Cardinality(Drawing \ {t}) /\ Cardinality(Drawing') \in Nat
        BY <2>6, <2>19, FS_Subset, FS_CardinalityType
    <2>21. drawn' + Cardinality(Drawing') <= MaxUploads
        BY <1>4, <1>7, <2>6, <2>7, <2>20, UploadsAssumption
    <2>22. \A u \in Threads : \A j, k \in 1..Len(todo'[u]) :
               todo'[u][j].op = "resume" /\ todo'[u][k].op = "resume" => j = k
        BY <1>1, <2>12, <2>15 DEF DrawnInv
    <2> QED
        BY <2>8, <2>14, <2>16, <2>17, <2>18, <2>21, <2>22 DEF Keeps, DrawnInv
<1> QED
    BY <1>5, <1>6, <1>7 DEF Resume

(* The steps of an assembly.                                               *)
LEMMA CreateKeeps ==
    ASSUME IInv, NEW t \in Threads, Create(t)
    PROVE  Keeps
<1>1. TypeOK /\ Shapes /\ NameInv /\ DrawnInv
    BY DEF IInv
<1>2. /\ todo[t] # <<>> /\ Head(todo[t]).op = "create"
      /\ crashes' = crashes /\ kept' = kept
      /\ state' = state /\ revived' = revived /\ drawn' = drawn
    BY DEF Create, Step, history, bounds
<1>3. CASE dest' = "empty" /\ Proceed(t) /\ UNCHANGED lock
    <2> DEFINE r == Tail(todo[t])
    <2>1. After(t, r) /\ r \in Seq(Steps) /\ Shape(r)
        BY <1>1, <1>2, <1>3, ProceedAfter, TailStep
    <2>2. /\ r # <<>> /\ Head(r).op \in {"copy", "rename"}
          /\ Inside(r) => Inside(todo[t])
          /\ \A j, k \in Resumes(r) : j = k
          /\ Resumes(r) # {} => Resumes(todo[t]) # {}
        BY <1>1, <1>2, TailParts
    <2>3. t # Bg
        BY <1>2, BgIsLoose DEF Loose
    <2> HIDE DEF r
    <2>4. Head(r).op # "state" /\ Head(r).op \in Assembly
        BY <2>2 DEF Assembly
    <2> QED
        BY <1>2, <1>3, <2>1, <2>2, <2>3, <2>4, AssemblyKeeps
<1>4. CASE Raise(t) /\ UNCHANGED <<dest, part>>
    <2>1. \A op \in Assembly : ~Step(t, op)
        BY <1>2 DEF Step, Assembly
    <2> QED
        BY <1>2, <1>4, <2>1, RaiseKeeps
<1> QED
    BY <1>3, <1>4 DEF Create

LEMMA UndoKeeps ==
    ASSUME IInv, NEW t \in Threads, Undo(t), UNCHANGED <<lock, dest, crashes, drawn, state, history>>,
           Step(t, "copy") \/ Step(t, "rename")
    PROVE  Keeps
<1> DEFINE X == <<Plain("undo")>>
<1>1. X \in Seq(Steps) /\ Shape(X) /\ X # <<>> /\ Head(X).op = "undo" /\ Resumes(X) = {}
    BY ShapeShort DEF Plain, Do, Resumes
<1>2. TypeOK /\ Shapes /\ NameInv /\ LockInv
    BY DEF IInv
<1>3. /\ todo[t] # <<>> /\ Head(todo[t]).op \in {"copy", "rename"} /\ dest = "empty"
    BY <1>2 DEF Step, NameInv, Assembly
<1>4. todo[t] \in Seq(Steps) /\ Shape(todo[t]) /\ 1 \in 1..Len(todo[t])
      /\ Head(todo[t]) = todo[t][1]
    BY <1>2, <1>3, TailFacts DEF TypeOK, Shapes
<1>5. t # Bg
    BY <1>2, <1>3, <1>4 DEF Shapes, Loose
<1>6. Inside(todo[t])
    BY <1>3, <1>4 DEF Inside, Shape
<1>7. After(t, X)
    BY DEF Undo, After
<1> HIDE DEF X
<1>8. Head(X).op # "state" /\ Head(X).op \in Assembly
    BY <1>1 DEF Assembly
<1> QED
    BY <1>1, <1>3, <1>5, <1>6, <1>7, <1>8, AssemblyKeeps DEF history

LEMMA CopyKeeps ==
    ASSUME IInv, NEW t \in Threads, Copy(t)
    PROVE  Keeps
<1>1. TypeOK /\ Shapes /\ NameInv /\ DrawnInv
    BY DEF IInv
<1>2. /\ todo[t] # <<>> /\ Head(todo[t]).op = "copy" /\ lock' = lock
      /\ crashes' = crashes /\ kept' = kept
      /\ state' = state /\ revived' = revived /\ drawn' = drawn /\ dest' = dest
    BY DEF Copy, Step, history, bounds
<1>3. CASE Proceed(t)
    <2> DEFINE r == Tail(todo[t])
    <2>1. After(t, r) /\ r \in Seq(Steps) /\ Shape(r)
        BY <1>1, <1>2, <1>3, ProceedAfter, TailStep
    <2>2. /\ r # <<>> /\ Head(r).op \in {"copy", "rename"}
          /\ Inside(r) => Inside(todo[t])
          /\ \A j, k \in Resumes(r) : j = k
          /\ Resumes(r) # {} => Resumes(todo[t]) # {}
        BY <1>1, <1>2, TailParts
    <2>3. t # Bg
        BY <1>2, BgIsLoose DEF Loose
    <2>4. dest = "empty"
        BY <1>1, <1>2 DEF NameInv, Step, Assembly
    <2> HIDE DEF r
    <2>5. Head(r).op # "state" /\ Head(r).op \in Assembly
        BY <2>2 DEF Assembly
    <2> QED
        BY <1>2, <1>3, <2>1, <2>2, <2>3, <2>4, <2>5, AssemblyKeeps
<1>4. CASE Undo(t)
    BY <1>2, <1>4, UndoKeeps DEF Step, history
<1> QED
    BY <1>3, <1>4 DEF Copy

LEMMA RenameKeeps ==
    ASSUME IInv, NEW t \in Threads, Rename(t)
    PROVE  Keeps
<1>1. TypeOK /\ Shapes /\ NameInv /\ DrawnInv
    BY DEF IInv
<1>2. /\ todo[t] # <<>> /\ Head(todo[t]).op = "rename" /\ lock' = lock
      /\ crashes' = crashes /\ kept' = kept
      /\ state' = state /\ revived' = revived /\ drawn' = drawn
    BY DEF Rename, Step, history, bounds
<1>3. CASE dest' = "whole" /\ Proceed(t)
    <2> DEFINE r == Tail(todo[t])
    <2>1. After(t, r) /\ r \in Seq(Steps) /\ Shape(r)
        BY <1>1, <1>2, <1>3, ProceedAfter, TailStep
    <2>2. /\ r # <<>> => Head(r).op \notin {"state", "undo", "copy", "rename"}
          /\ Inside(r) => Inside(todo[t])
          /\ \A j, k \in Resumes(r) : j = k
          /\ Resumes(r) # {} => Resumes(todo[t]) # {}
        BY <1>1, <1>2, TailParts
    <2>3. t # Bg
        BY <1>2, BgIsLoose DEF Loose
    <2> HIDE DEF r
    <2>4. r # <<>> => Head(r).op # "state" /\ ~(Head(r).op \in Assembly)
        BY <2>2 DEF Assembly
    <2> QED
        BY <1>2, <1>3, <2>1, <2>2, <2>3, <2>4, AssemblyKeeps
<1>4. CASE Undo(t) /\ UNCHANGED <<dest, part>>
    BY <1>2, <1>4, UndoKeeps DEF Step, history
<1> QED
    BY <1>3, <1>4 DEF Rename

LEMMA UndoAssemblyKeeps ==
    ASSUME IInv, NEW t \in Threads, UndoAssembly(t)
    PROVE  Keeps
<1>1. /\ todo[t] # <<>> /\ Head(todo[t]).op = "undo"
      /\ (dest' = "absent" \/ kept' = TRUE)
      /\ crashes' = crashes /\ state' = state /\ revived' = revived /\ drawn' = drawn
    BY DEF UndoAssembly, Step, history, bounds
<1>2. After(t, <<>>)
    BY DEF UndoAssembly, Raise, After
<1>3. lock = t /\ lock' = Nobody
    BY <1>1, HoldsLock DEF UndoAssembly, Raise
<1>4. /\ <<>> \in Seq(Steps) /\ Shape(<<>>) /\ Resumes(<<>>) = {}
      /\ ~Inside(<<>>)
    BY ShapeShort DEF Resumes, Inside
<1> QED
    BY <1>1, <1>2, <1>3, <1>4, AssemblyKeeps

-----------------------------------------------------------------------------
(* Every other step of a thread, by what it does to its call.              *)
LEMMA PlainSteps ==
    ASSUME IInv, NEW t \in Threads,
           \/ Known(t) \/ Rmtree(t) \/ Forget(t) \/ Open(t) \/ Put(t)
           \/ Rewrite(t) \/ Received(t)
    PROVE  Keeps
<1>1. TypeOK
    BY DEF IInv
<1>2. ASSUME NEW op, Step(t, op), op \notin Assembly
      PROVE  \A o \in Assembly : ~Step(t, o)
    BY <1>2 DEF Step
<1>3. CASE Known(t)
    <2>1. /\ todo[t] # <<>> /\ Head(todo[t]).op = "known" /\ dest' = dest
          /\ crashes' = crashes /\ kept' = kept /\ drawn' = drawn
          /\ state' = state /\ revived' = revived
        BY <1>3 DEF Known, Step, disk, history, bounds
    <2>2. \A o \in Assembly : ~Step(t, o)
        BY <1>2, <2>1 DEF Step, Assembly
    <2>3. (Proceed(t) /\ lock' = lock) \/ Raise(t)
        BY <1>3 DEF Known
    <2> QED
        BY <2>1, <2>2, <2>3, ProceedKeeps, RaiseKeeps
<1>4. CASE Received(t)
    <2>1. /\ todo[t] # <<>> /\ Head(todo[t]).op = "received" /\ dest' = dest
          /\ crashes' = crashes /\ kept' = kept /\ drawn' = drawn
          /\ state' = state /\ revived' = revived
        BY <1>4 DEF Received, Step, disk, history, bounds
    <2>2. \A o \in Assembly : ~Step(t, o)
        BY <1>2, <2>1 DEF Step, Assembly
    <2>3. (Proceed(t) /\ lock' = lock) \/ Raise(t)
        BY <1>4 DEF Received
    <2> QED
        BY <2>1, <2>2, <2>3, ProceedKeeps, RaiseKeeps
<1>5. CASE Put(t)
    <2>1. /\ todo[t] # <<>> /\ Head(todo[t]).op = "put" /\ dest' = dest
          /\ crashes' = crashes /\ kept' = kept /\ drawn' = drawn
          /\ state' = state /\ revived' = revived
        BY <1>5 DEF Put, Step, history, bounds
    <2>2. \A o \in Assembly : ~Step(t, o)
        BY <1>2, <2>1 DEF Step, Assembly
    <2>3. (Proceed(t) /\ lock' = lock) \/ Raise(t)
        BY <1>5 DEF Put
    <2> QED
        BY <2>1, <2>2, <2>3, ProceedKeeps, RaiseKeeps
<1>6. CASE Rmtree(t)
    <2>1. /\ todo[t] # <<>> /\ Head(todo[t]).op = "rmtree" /\ dest' = dest /\ lock' = lock
          /\ crashes' = crashes /\ kept' = kept /\ drawn' = drawn
          /\ state' = state /\ revived' = revived /\ Proceed(t)
        BY <1>6 DEF Rmtree, Step, history, bounds
    <2> QED
        BY <2>1, ProceedKeeps
<1>7. CASE Open(t)
    <2>1. /\ todo[t] # <<>> /\ Head(todo[t]).op = "open" /\ dest' = dest /\ lock' = lock
          /\ crashes' = crashes /\ kept' = kept /\ drawn' = drawn
          /\ state' = state /\ revived' = revived /\ Proceed(t)
        BY <1>7 DEF Open, Step, history, bounds
    <2> QED
        BY <2>1, ProceedKeeps
<1>8. CASE Forget(t)
    <2>1. /\ todo[t] # <<>> /\ Head(todo[t]).op = "forget" /\ dest' = dest /\ lock' = lock
          /\ crashes' = crashes /\ kept' = kept /\ drawn' = drawn /\ Proceed(t)
        BY <1>8 DEF Forget, Step, history, bounds
    <2>2. \A i \in Ids \ revived' : state'[i] = "live" => i \notin revived /\ state[i] = "live"
        BY <1>1, <1>8 DEF Forget, TypeOK, history
    <2> QED
        BY <2>1, <2>2, ProceedKeeps
<1>9. CASE Rewrite(t)
    <2>1. /\ todo[t] # <<>> /\ Head(todo[t]).op = "rewrite" /\ dest' = dest /\ lock' = lock
          /\ crashes' = crashes /\ kept' = kept /\ drawn' = drawn /\ Proceed(t)
        BY <1>9 DEF Rewrite, Step, bounds
    <2>2. \A i \in Ids \ revived' : state'[i] = "live" => i \notin revived /\ state[i] = "live"
        <3>1. state \in [Ids -> {"none", "live", "zombie"}]
            BY <1>1 DEF TypeOK
        <3>2. CASE UNCHANGED <<state, revived>>
            BY <3>2
        <3>3. CASE Index(t) = 1
                   /\ state' = [state EXCEPT ![Id(t)] = "live"]
                   /\ revived' = IF state[Id(t)] # "live" THEN revived \cup {Id(t)} ELSE revived
            BY <3>1, <3>3
        <3>4. CASE Index(t) # 1 /\ revived' = revived
                   /\ state' = [state EXCEPT ![Id(t)] = "zombie"]
            BY <3>1, <3>4
        <3> QED
            BY <1>9, <3>2, <3>3, <3>4 DEF Rewrite
    <2> QED
        BY <2>1, <2>2, ProceedKeeps
<1> QED
    BY <1>3, <1>4, <1>5, <1>6, <1>7, <1>8, <1>9

LEMMA LooseSteps ==
    ASSUME IInv, NEW t \in Threads, List(t) \/ Expired(t) \/ Orphan(t) \/ Touch(t)
    PROVE  Keeps
<1>1. TypeOK
    BY DEF IInv
<1>2. CASE List(t)
    <2> DEFINE A == ForEach({i \in Ids : state[i] # "none"}, "expired")
               B == ForEach(dir, "orphan")
    <2>1. /\ todo[t] # <<>> /\ Head(todo[t]).op \in Loose /\ Go(t, A \o B)
          /\ lock' = lock /\ dest' = dest /\ crashes' = crashes
          /\ kept' = kept /\ drawn' = drawn
          /\ state' = state /\ revived' = revived
        BY <1>2 DEF List, Step, disk, history, bounds, Loose
    <2>2. /\ A \in Seq(Steps) /\ \A k \in 1..Len(A) : A[k].op \in Loose
          /\ B \in Seq(Steps) /\ \A k \in 1..Len(B) : B[k].op \in Loose
        BY <1>1, ForEachSteps DEF TypeOK
    <2> HIDE DEF A, B
    <2>3. A \in Seq(Steps) /\ B \in Seq(Steps)
        BY <2>2
    <2>4. /\ A \o B \in Seq(Steps)
          /\ Len(A) \in Nat /\ Len(B) \in Nat /\ Len(A \o B) = Len(A) + Len(B)
          /\ \A k \in 1..Len(A) : (A \o B)[k] = A[k]
          /\ \A k \in 1..Len(A \o B) :
               k > Len(A) => k - Len(A) \in 1..Len(B) /\ (A \o B)[k] = B[k - Len(A)]
        BY ONLY <2>3, ConcatFacts, Zenon
    <2> DEFINE M == A \o B
    <2>5. /\ M \in Seq(Steps)
          /\ Len(A) \in Nat /\ Len(M) = Len(A) + Len(B) /\ Len(B) \in Nat
          /\ \A k \in 1..Len(A) : M[k] = A[k]
          /\ \A k \in 1..Len(M) :
               k > Len(A) => k - Len(A) \in 1..Len(B) /\ M[k] = B[k - Len(A)]
          /\ Go(t, M)
        BY <2>1, <2>4
    <2> HIDE DEF M
    <2>6. ASSUME NEW k \in 1..Len(M) PROVE M[k].op \in Loose
        <3>1. CASE k > Len(A)
            BY <2>2, <2>5, <3>1
        <3>2. CASE k <= Len(A)
            <4>1. k \in 1..Len(A)
                BY <2>5, <3>2
            <4> QED
                BY <2>2, <2>5, <4>1
        <3> QED
            BY <2>5, <3>1, <3>2
    <2> QED
        BY <2>1, <2>5, <2>6, PushKeeps
<1>3. ASSUME Step(t, "expired") \/ Step(t, "orphan") \/ Step(t, "touch")
      PROVE  todo[t] # <<>> /\ Head(todo[t]).op \in Loose /\ Id(t) \in Ids
    <2>1. Head(todo[t]) \in Steps /\ todo[t] # <<>>
        BY <1>1, <1>3, TailFacts DEF TypeOK, Step
    <2> QED
        BY <1>3, <2>1 DEF Step, Steps, Id, Loose
<1>4. ASSUME NEW i \in Ids
      PROVE  /\ \A m \in {<<>>, Discard(i), <<Do("forget", i, 0)>>, <<Do("rmtree", i, 0)>>} :
                  m \in Seq(Steps) /\ \A k \in 1..Len(m) : m[k].op \in Loose
    BY DEF Discard, Do, Steps, Loose
<1>5. CASE Expired(t)
    <2>1. /\ Step(t, "expired") /\ lock' = lock /\ dest' = dest /\ crashes' = crashes
          /\ kept' = kept
          /\ drawn' = drawn /\ state' = state /\ revived' = revived
          /\ Go(t, <<>>) \/ Go(t, Discard(Id(t))) \/ Go(t, <<Do("forget", Id(t), 0)>>)
        BY <1>5 DEF Expired, disk, history, bounds
    <2>2. PICK m \in {<<>>, Discard(Id(t)), <<Do("forget", Id(t), 0)>>} : Go(t, m)
        BY <2>1
    <2>3. m \in Seq(Steps) /\ \A k \in 1..Len(m) : m[k].op \in Loose
        BY <1>3, <1>4, <2>1, <2>2
    <2> QED
        BY <1>3, <2>1, <2>2, <2>3, PushKeeps
<1>6. CASE Orphan(t)
    <2>1. /\ Step(t, "orphan") /\ lock' = lock /\ dest' = dest /\ crashes' = crashes
          /\ kept' = kept
          /\ drawn' = drawn /\ state' = state /\ revived' = revived
          /\ Go(t, <<>>) \/ Go(t, <<Do("rmtree", Id(t), 0)>>)
        BY <1>6 DEF Orphan, disk, history, bounds
    <2>2. PICK m \in {<<>>, <<Do("rmtree", Id(t), 0)>>} : Go(t, m)
        BY <2>1
    <2>3. m \in Seq(Steps) /\ \A k \in 1..Len(m) : m[k].op \in Loose
        BY <1>3, <1>4, <2>1, <2>2
    <2> QED
        BY <1>3, <2>1, <2>2, <2>3, PushKeeps
<1>7. CASE Touch(t)
    <2> DEFINE m == <<Do("rewrite", Id(t), IF state[Id(t)] = "live" THEN 1 ELSE 0)>>
    <2>1. /\ Step(t, "touch") /\ lock' = lock /\ dest' = dest /\ crashes' = crashes
          /\ drawn' = drawn /\ state' = state /\ revived' = revived /\ kept' = kept
          /\ Go(t, m)
        BY <1>7 DEF Touch, disk, history, bounds
    <2>2. m \in Seq(Steps) /\ \A k \in 1..Len(m) : m[k].op \in Loose
        BY <1>3, <2>1 DEF Do, Steps, Loose
    <2> HIDE DEF m
    <2> QED
        BY <1>3, <2>1, <2>2, PushKeeps
<1> QED
    BY <1>2, <1>5, <1>6, <1>7

LEMMA ThreadKeeps ==
    ASSUME IInv, NEW t \in Threads, ThreadStep(t)
    PROVE  Keeps
BY LockKeeps, UnlockKeeps, PlainSteps, LooseSteps, ResumeKeeps, WriteStateKeeps,
   CreateKeeps, CopyKeeps, UndoAssemblyKeeps, RenameKeeps DEF ThreadStep

-----------------------------------------------------------------------------
(* The steps that are no thread's: a call begins, the process dies.        *)
LEMMA CallKeeps ==
    ASSUME IInv, NEW t \in Threads, NEW X \in Seq(Steps), Shape(X), X # <<>>,
           Head(X).op \in {"lock", "known", "list"},
           t = Bg => \A k \in 1..Len(X) : X[k].op \in Loose,
           \A j, k \in Resumes(X) : j = k,
           Resumes(X) # {} => drawn + Cardinality(Drawing) < MaxUploads,
           ~Inside(X), todo[t] = <<>>, After(t, X),
           UNCHANGED <<lock, dest, crashes, drawn, state, history>>
    PROVE  Keeps
<1>1. TypeOK /\ Shapes /\ LockInv /\ NameInv /\ FreshInv /\ DrawnInv
    BY DEF IInv
<1>2. \A u \in Threads : todo'[u] = IF u = t THEN X ELSE todo[u]
    BY <1>1 DEF TypeOK, After
<1>3. todo' \in [Threads -> Seq(Steps)] /\ Shapes'
    BY <1>1, AfterShapes
<1>4. LockInv' /\ lock' \in Threads \cup {Nobody}
    BY <1>1, <1>2 DEF LockInv, TypeOK
<1>5. /\ Head(X).op \notin Assembly /\ Head(X).op # "state"
      /\ \A op \in Assembly : ~Step(t, op)
    BY DEF Step, Assembly
<1>6. NameInv'
    BY <1>1, <1>5, NameKept DEF history
<1>7. FreshInv'
    BY <1>1, <1>5, FreshKept DEF history
<1>8. DrawnInv'
    <2>1. IsFiniteSet(Drawing) /\ Cardinality(Drawing) \in Nat
        BY UploadsAssumption, FS_Subset, FS_CardinalityType DEF Drawing
    <2>2. Drawing' \subseteq IF Resumes(X) = {} THEN Drawing ELSE Drawing \cup {t}
        BY <1>2 DEF Drawing, Threads, Resumes
    <2>3. IsFiniteSet(Drawing \cup {t}) /\ Cardinality(Drawing \cup {t}) \in Nat
          /\ Cardinality(Drawing \cup {t}) <= Cardinality(Drawing) + 1
        <3>1. /\ IsFiniteSet(Drawing \cup {t})
              /\ \/ Cardinality(Drawing \cup {t}) = Cardinality(Drawing)
                 \/ Cardinality(Drawing \cup {t}) = Cardinality(Drawing) + 1
            BY <2>1, FS_AddElement
        <3> QED
            BY <2>1, <3>1
    <2>4. Cardinality(Drawing') \in Nat
          /\ Cardinality(Drawing') <= Cardinality(Drawing)
             + (IF Resumes(X) = {} THEN 0 ELSE 1)
        <3>1. CASE Resumes(X) = {}
            <4>1. Drawing' \subseteq Drawing
                BY <2>2, <3>1
            <4>2. IsFiniteSet(Drawing') /\ Cardinality(Drawing') <= Cardinality(Drawing)
                BY <2>1, <4>1, FS_Subset
            <4>3. Cardinality(Drawing') \in Nat
                BY <4>2, FS_CardinalityType
            <4> QED
                BY <2>1, <3>1, <4>2, <4>3
        <3>2. CASE Resumes(X) # {}
            <4>1. Drawing' \subseteq Drawing \cup {t}
                BY <2>2, <3>2
            <4>2. IsFiniteSet(Drawing')
                  /\ Cardinality(Drawing') <= Cardinality(Drawing \cup {t})
                BY <2>3, <4>1, FS_Subset
            <4>3. Cardinality(Drawing') \in Nat
                BY <4>2, FS_CardinalityType
            <4> QED
                BY <2>1, <2>3, <3>2, <4>2, <4>3
        <3> QED
            BY <3>1, <3>2
    <2>5. drawn' + Cardinality(Drawing') <= MaxUploads
        BY <1>1, <2>1, <2>4, UploadsAssumption DEF DrawnInv, TypeOK
    <2>6. \A u \in Threads : \A j, k \in 1..Len(todo'[u]) :
              todo'[u][j].op = "resume" /\ todo'[u][k].op = "resume" => j = k
        BY <1>1, <1>2 DEF DrawnInv, Resumes
    <2> QED
        BY <2>5, <2>6 DEF DrawnInv
<1> QED
    BY <1>3, <1>4, <1>6, <1>7, <1>8 DEF Keeps

LEMMA BrowserKeeps ==
    ASSUME IInv, NEW c \in Clients, Browser(c)
    PROVE  Keeps
<1>0. c \in Threads /\ c # Bg
    BY UploadsAssumption DEF Threads
<1>1. ASSUME NEW X, Call(c, X)
      PROVE  todo[c] = <<>> /\ After(c, X) /\ UNCHANGED <<lock, dest, crashes, drawn, state, history>>
    BY <1>1 DEF Call, After, disk, history
<1>2. CASE drawn + Cardinality(Drawing) < MaxUploads /\ Call(c, InitCall)
    <2>1. /\ InitCall # <<>> /\ Head(InitCall).op = "lock"
          /\ ~Inside(InitCall) /\ \A k \in Resumes(InitCall) : k = 3
        BY DEF InitCall, Plain, Do, Inside, Resumes
    <2>2. \A j, k \in Resumes(InitCall) : j = k
        BY <2>1
    <2> QED
        BY <1>0, <1>1, <1>2, <2>1, <2>2, InitShape, CallKeeps
<1>3. ASSUME NEW i \in 1..drawn PROVE i \in Ids
    BY UploadsAssumption DEF IInv, TypeOK, Ids
<1>4. ASSUME NEW i \in 1..drawn, NEW n \in Indices, Call(c, PutCall(i, n))
      PROVE  Keeps
    <2>1. /\ PutCall(i, n) # <<>> /\ Head(PutCall(i, n)).op = "known"
          /\ ~Inside(PutCall(i, n)) /\ Resumes(PutCall(i, n)) = {}
        BY DEF PutCall, Do, Inside, Resumes
    <2>2. PutCall(i, n) \in Seq(Steps) /\ Shape(PutCall(i, n))
        BY <1>3, PutShape
    <2> QED
        BY <1>0, <1>1, <1>4, <2>1, <2>2, CallKeeps
<1>5. ASSUME NEW i \in 1..drawn, Call(c, FinishCall(i))
      PROVE  Keeps
    <2> DEFINE s == FinishCall(i)
    <2>1. s \in Seq(Steps) /\ Shape(s)
        BY <1>3, FinishShape
    <2>2. /\ s \in Seq(Steps) /\ Len(s) = Chunks + 8
          /\ s[1].op = "lock" /\ s[2].op = "known" /\ s[3].op = "received"
          /\ s[4].op = "create"
          /\ \A k \in 5..(Chunks + 4) : s[k].op = "copy"
          /\ s[Chunks + 5].op = "rename" /\ s[Chunks + 6].op = "rmtree"
          /\ s[Chunks + 7].op = "forget" /\ s[Chunks + 8].op = "unlock"
        BY <1>3, FinishSteps
    <2>3. Call(c, s)
        BY <1>5
    <2> HIDE DEF s
    <2>4. s # <<>> /\ Head(s).op = "lock" /\ ~Inside(s)
        BY <2>2, TailFacts, UploadsAssumption DEF Inside
    <2>5. ASSUME NEW k \in 1..Len(s) PROVE s[k].op # "resume"
        <3>0. Chunks \in Nat /\ k \in 1..(Chunks + 8)
            BY <2>2, UploadsAssumption
        <3>1. \/ k \in {1, 2, 3, 4} \/ k \in 5..(Chunks + 4)
              \/ k \in {Chunks + 5, Chunks + 6, Chunks + 7, Chunks + 8}
            BY <3>0
        <3> QED
            BY <2>2, <3>1
    <2>6. Resumes(s) = {}
        BY <2>5 DEF Resumes
    <2> QED
        BY <1>0, <1>1, <2>1, <2>3, <2>4, <2>6, CallKeeps
<1>6. ASSUME NEW i \in 1..drawn, Call(c, DiscardCall(i))
      PROVE  Keeps
    <2>1. /\ DiscardCall(i) # <<>> /\ Head(DiscardCall(i)).op = "known"
          /\ ~Inside(DiscardCall(i)) /\ Resumes(DiscardCall(i)) = {}
        BY DEF DiscardCall, Discard, Do, Inside, Resumes
    <2>2. DiscardCall(i) \in Seq(Steps) /\ Shape(DiscardCall(i))
        BY <1>3, DiscardShape
    <2> QED
        BY <1>0, <1>1, <1>6, <2>1, <2>2, CallKeeps
<1> QED
    BY <1>2, <1>4, <1>5, <1>6 DEF Browser

LEMMA CleanupKeeps == ASSUME IInv, Cleanup PROVE Keeps
<1> DEFINE X == <<Plain("list")>>
<1>1. /\ X \in Seq(Steps) /\ Shape(X) /\ X # <<>> /\ Head(X).op = "list"
      /\ \A k \in 1..Len(X) : X[k].op \in Loose
      /\ Resumes(X) = {} /\ ~Inside(X)
    BY ShapeShort DEF Plain, Do, Loose, Resumes, Inside
<1>2. /\ Bg \in Threads /\ todo[Bg] = <<>> /\ After(Bg, X)
      /\ UNCHANGED <<lock, dest, crashes, drawn, state, history>>
    BY DEF Cleanup, Threads, After, disk, history
<1> HIDE DEF X
<1> QED
    BY <1>1, <1>2, CallKeeps

LEMMA StillKeeps ==
    ASSUME IInv, UNCHANGED <<state, dest, lock, todo, drawn, crashes, history>>
    PROVE  Keeps
<1>1. /\ TypeOK /\ Shapes /\ LockInv /\ NameInv /\ FreshInv /\ DrawnInv
    BY DEF IInv
<1>2. Shapes' /\ LockInv' /\ FreshInv'
    BY <1>1 DEF Shapes, LockInv, FreshInv, Step, history
<1>3. NameInv'
    BY <1>1 DEF NameInv, NameIsFreed, Assembling, Step, history
<1>4. Drawing' = Drawing
    BY DEF Drawing
<1>5. DrawnInv'
    BY <1>1, <1>4 DEF DrawnInv
<1> QED
    BY <1>1, <1>2, <1>3, <1>5 DEF Keeps, TypeOK

(* The process dies with its locks and its calls; the files stay.          *)
LEMMA CrashKeeps == ASSUME IInv, Crash PROVE Keeps
<1>1. /\ TypeOK /\ FreshInv /\ DrawnInv
    BY DEF IInv
<1>2. /\ todo' = [t \in Threads |-> <<>>] /\ lock' = Nobody /\ crashes' = crashes + 1
      /\ state' = state /\ revived' = revived /\ drawn' = drawn
    BY DEF Crash, history
<1>3. todo' \in [Threads -> Seq(Steps)] /\ Shapes'
    <2>1. <<>> \in Seq(Steps) /\ Shape(<<>>) /\ Bg \in Threads
        BY ShapeShort DEF Threads
    <2> QED
        BY <1>2, <2>1 DEF Shapes
<1>4. LockInv'
    BY <1>2 DEF LockInv, Inside
<1>5. NameInv'
    BY <1>1, <1>2 DEF NameInv, NameIsFreed, Step, TypeOK
<1>6. FreshInv'
    BY <1>1, <1>2 DEF FreshInv, Step
<1>7. Drawing' = {}
    BY <1>2 DEF Drawing, Threads
<1>8. Cardinality(Drawing) \in Nat /\ Cardinality({}) = 0
    BY UploadsAssumption, FS_Subset, FS_CardinalityType, FS_EmptySet DEF Drawing
<1>9. DrawnInv'
    BY <1>1, <1>2, <1>7, <1>8, UploadsAssumption DEF DrawnInv, TypeOK
<1> QED
    BY <1>2, <1>3, <1>4, <1>5, <1>6, <1>9 DEF Keeps

-----------------------------------------------------------------------------
(* The types of what the steps write.                                      *)
Disk ==
    /\ state \in [Ids -> {"none", "live", "zombie"}]
    /\ dir \subseteq Ids
    /\ chunks \in [Ids -> SUBSET Indices]
    /\ tmps \in [Ids -> SUBSET Clients]
    /\ old \subseteq Ids
    /\ dest \in {"absent", "empty", "whole"}
    /\ part \subseteq Indices
    /\ drawn \in 0..MaxUploads
    /\ revived \subseteq Ids /\ kept \in BOOLEAN
    /\ calls \in Nat /\ cleanups \in Nat /\ crashes \in Nat

LEMMA DiskKept ==
    ASSUME IInv, [Next]_vars
    PROVE  Disk'
<1>1. TypeOK /\ Shapes /\ Disk
    BY DEF IInv, TypeOK, Disk
<1>2. ASSUME NEW t \in Threads, NEW op, Step(t, op)
      PROVE  /\ op \notin {"lock", "unlock", "list", "resume", "undo"} => Id(t) \in Ids
             /\ op \in {"put", "copy"} => Index(t) \in Indices
             /\ op = "open" => t \in Clients
    <2>1. Head(todo[t]) \in Steps /\ Head(todo[t]).op = op /\ Head(todo[t]) = todo[t][1]
          /\ 1 \in 1..Len(todo[t])
        BY <1>1, <1>2, TailFacts DEF TypeOK, Step
    <2>2. /\ op \notin {"lock", "unlock", "list", "resume", "undo"} => Id(t) \in Ids
          /\ op \in {"put", "copy"} => Index(t) \in Indices
        BY <2>1 DEF Steps, Id, Index
    <2>3. op = "open" => t \in Clients
        BY <1>1, <2>1 DEF Shapes, Loose, Threads
    <2> QED
        BY <2>2, <2>3
<1>3. ASSUME NEW t \in Threads, ThreadStep(t) PROVE Disk'
    <2>1. CASE Lock(t) \/ Unlock(t) \/ Known(t) \/ List(t) \/ Expired(t) \/ Orphan(t)
               \/ Received(t) \/ Touch(t)
        BY <1>1, <2>1 DEF Disk, Lock, Unlock, Known, List, Expired, Orphan,
           Received, Touch, disk,
                          history, bounds
    <2>2. CASE Rmtree(t)
        <3>1. Id(t) \in Ids
            BY <1>2, <2>2 DEF Rmtree
        <3> QED
            BY <1>1, <2>2, <3>1 DEF Disk, Rmtree, history, bounds
    <2>3. CASE Forget(t)
        <3>1. Id(t) \in Ids
            BY <1>2, <2>3 DEF Forget
        <3> QED
            BY <1>1, <2>3, <3>1 DEF Disk, Forget, history, bounds
    <2>4. CASE Resume(t)
        <3>1. drawn' \in 0..MaxUploads /\ dir' \subseteq Ids
            BY <2>4, ResumeKeeps
        <3> QED
            BY <1>1, <2>4, <3>1 DEF Disk, Resume, history, bounds
    <2>5. CASE WriteState(t)
        <3>1. Id(t) \in Ids
            BY <1>2, <2>5 DEF WriteState
        <3> QED
            BY <1>1, <2>5, <3>1 DEF Disk, WriteState, history, bounds
    <2>6. CASE Open(t)
        <3>1. Id(t) \in Ids /\ t \in Clients
            BY <1>2, <2>6 DEF Open
        <3>2. dir' \subseteq Ids /\ tmps' \in [Ids -> SUBSET Clients]
            BY <1>1, <2>6, <3>1 DEF Disk, Open
        <3> QED
            BY <1>1, <2>6, <3>2 DEF Disk, Open, history, bounds
    <2>7. CASE Put(t)
        <3>1. Id(t) \in Ids /\ Index(t) \in Indices
            BY <1>2, <2>7 DEF Put
        <3>2. tmps' \in [Ids -> SUBSET Clients]
            BY <1>1, <2>7, <3>1 DEF Disk, Put
        <3>3. chunks' \in [Ids -> SUBSET Indices]
            BY <1>1, <2>7, <3>1 DEF Disk, Put
        <3> QED
            BY <1>1, <2>7, <3>2, <3>3 DEF Disk, Put, history, bounds
    <2>8. CASE Rewrite(t)
        <3>1. Id(t) \in Ids
            BY <1>2, <2>8 DEF Rewrite
        <3> QED
            BY <1>1, <2>8, <3>1 DEF Disk, Rewrite, bounds
    <2>9. CASE Create(t)
        BY <1>1, <2>9 DEF Disk, Create, history, bounds
    <2>10. CASE Copy(t)
        <3>1. Index(t) \in Indices
            BY <1>2, <2>10 DEF Copy
        <3> QED
            BY <1>1, <2>10, <3>1 DEF Disk, Copy, history, bounds
    <2>11. CASE UndoAssembly(t)
        BY <1>1, <2>11 DEF Disk, UndoAssembly, history, bounds
    <2>12. CASE Rename(t)
        BY <1>1, <2>12 DEF Disk, Rename, history, bounds
    <2> QED
        BY <1>3, <2>1, <2>2, <2>3, <2>4, <2>5, <2>6, <2>7, <2>8, <2>9, <2>10,
           <2>11, <2>12
        DEF ThreadStep
<1>4. ASSUME NEW c \in Clients, Browser(c) PROVE Disk'
    BY <1>1, <1>4 DEF Disk, Browser, Call, disk, history
<1>5. CASE Cleanup
    BY <1>1, <1>5 DEF Disk, Cleanup, disk, history
<1>6. CASE Age
    BY <1>1, <1>6 DEF Disk, Age, history, bounds
<1>7. CASE Crash
    BY <1>1, <1>7 DEF Disk, Crash, history
<1>8. CASE UNCHANGED vars
    BY <1>1, <1>8 DEF Disk, vars, disk, history, bounds
<1> QED
    BY <1>3, <1>4, <1>5, <1>6, <1>7, <1>8 DEF Next

LEMMA InitIInv == ASSUME Init PROVE IInv
<1>1. \A t \in Threads : todo[t] = <<>>
    BY DEF Init
<1>2. <<>> \in Seq(Steps) /\ Shape(<<>>) /\ Bg \in Threads
    BY ShapeShort DEF Threads
<1>3. TypeOK
    <2>1. kept \in BOOLEAN
        BY DEF Init
    <2>2. /\ state \in [Ids -> {"none", "live", "zombie"}] /\ chunks \in [Ids -> SUBSET Indices]
          /\ tmps \in [Ids -> SUBSET Clients] /\ todo \in [Threads -> Seq(Steps)]
        BY <1>2 DEF Init
    <2>3. /\ dir \subseteq Ids /\ old \subseteq Ids /\ part \subseteq Indices
          /\ revived \subseteq Ids /\ dest \in {"absent", "empty", "whole"}
          /\ lock \in Threads \cup {Nobody}
        BY DEF Init
    <2>4. drawn \in 0..MaxUploads /\ calls \in Nat /\ cleanups \in Nat /\ crashes \in Nat
        BY UploadsAssumption DEF Init
    <2> QED
        BY <2>1, <2>2, <2>3, <2>4 DEF TypeOK
<1>4. Shapes
    BY <1>1, <1>2 DEF Shapes
<1>5. LockInv /\ NameInv /\ FreshInv
    BY <1>1 DEF Init, LockInv, Inside, NameInv, NameIsFreed, FreshInv, Step
<1>6. Drawing = {} /\ Cardinality({}) = 0
    BY <1>1, FS_EmptySet DEF Drawing, Threads
<1>7. DrawnInv
    BY <1>1, <1>6, UploadsAssumption DEF Init, DrawnInv
<1> QED
    BY <1>3, <1>4, <1>5, <1>7 DEF IInv

LEMMA NextIInv == ASSUME IInv, [Next]_vars PROVE IInv'
<1>1. Keeps
    <2>1. CASE \E c \in Clients : Browser(c)
        BY <2>1, BrowserKeeps
    <2>2. CASE Cleanup
        BY <2>2, CleanupKeeps
    <2>3. CASE \E t \in Threads : ThreadStep(t)
        BY <2>3, ThreadKeeps
    <2>4. CASE Age
        BY <2>4, StillKeeps DEF Age, history, bounds
    <2>5. CASE Crash
        BY <2>5, CrashKeeps
    <2>6. CASE UNCHANGED vars
        BY <2>6, StillKeeps DEF vars, disk, history, bounds
    <2> QED
        BY <2>1, <2>2, <2>3, <2>4, <2>5, <2>6 DEF Next
<1>2. Disk'
    BY DiskKept
<1>3. TypeOK'
    BY <1>1, <1>2 DEF Keeps, Disk, TypeOK
<1> QED
    BY <1>1, <1>3 DEF Keeps, IInv

THEOREM Invariance == Spec => []IInv
BY InitIInv, NextIInv, PTL DEF Spec

-----------------------------------------------------------------------------
(* Whatever the browsers, the cleanup and the crashes do, every variable   *)
(* of the uploads keeps its type: a thread's rest of a call is made of     *)
(* steps about ids that were drawn, and the cleanup writes no chunk.       *)
THEOREM TypeCorrectness == Spec => []TypeOK
<1>1. IInv => TypeOK
    BY DEF IInv
<1> QED
    BY <1>1, Invariance, PTL

(* init never makes a second upload of a file that has one: it looks for   *)
(* it under the lock under which the first was written.  Only a late chunk *)
(* of an upload that was discarded meanwhile makes another one live.       *)
THEOREM OneUpload == Spec => []OneUploadPerFile
<1>1. ASSUME IInv PROVE OneUploadPerFile
    <2> DEFINE L == {i \in Ids \ revived : state[i] = "live"}
    <2>1. \A i, j \in L : i = j
        BY <1>1 DEF IInv, FreshInv
    <2>2. CASE L = {}
        BY <2>2, FS_EmptySet DEF OneUploadPerFile
    <2>3. CASE L # {}
        <3>1. PICK i \in L : TRUE
            BY <2>3
        <3>2. L = {i}
            BY <2>1, <3>1
        <3>3. Cardinality({i}) = 1
            BY FS_Singleton
        <3> QED
            BY <3>2, <3>3 DEF OneUploadPerFile
    <2> QED
        BY <2>2, <2>3
<1> QED
    BY <1>1, Invariance, PTL

(* As long as the process lives, a name reserved in the library is freed   *)
(* or filled by the assembly that reserved it, whichever of its steps      *)
(* fails, but the very removal of the name.                                *)
THEOREM ReservedName == Spec => []NameIsFreed
<1>1. IInv => NameIsFreed
    BY DEF IInv, NameInv
<1> QED
    BY <1>1, Invariance, PTL

(* No upload takes a whole file out of the library again: only an assembly *)
(* that reserved the name removes it, and none reserves a name in use.     *)
THEOREM LibraryStays == Spec => LibraryFileStays
<1>1. ASSUME IInv, [Next]_vars, dest = "whole" PROVE dest' = "whole"
    <2>1. ASSUME NEW t \in Threads, ThreadStep(t) PROVE dest' = "whole"
        <3>1. ~UndoAssembly(t)
            BY <1>1 DEF UndoAssembly, IInv, NameInv, Assembly
        <3>2. Create(t) \/ Rename(t) => dest' = "whole"
            BY <1>1 DEF Create, Rename
        <3> QED
            BY <1>1, <2>1, <3>1, <3>2
            DEF ThreadStep, Lock, Unlock, Known, List, Expired, Orphan, Rmtree,
            Forget,
                Resume, WriteState, Open, Put, Touch, Rewrite, Received, Copy, disk
    <2>2. ASSUME NEW c \in Clients, Browser(c) PROVE dest' = "whole"
        BY <1>1, <2>2 DEF Browser, Call, disk
    <2> QED
        BY <1>1, <2>1, <2>2 DEF Next, Cleanup, Age, Crash, vars, disk
<1>2. IInv /\ [Next]_vars => [dest = "whole" => dest' = "whole"]_vars
    BY <1>1
<1> QED
    BY <1>2, Invariance, PTL DEF Spec, LibraryFileStays
=============================================================================
