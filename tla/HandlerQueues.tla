---------------------------- MODULE HandlerQueues ----------------------------
(***************************************************************************)
(* Facts about the queue of handlers posted to an asio strand: what        *)
(* running the first handler and posting one more do to it.  A handler is  *)
(* a record whose field `run` names its lambda.                            *)
(***************************************************************************)
EXTENDS Naturals, Sequences, TLAPS

-----------------------------------------------------------------------------
(***************************************************************************)
(* Sequences.                                                              *)
(***************************************************************************)

\* What Tail does to a queue that is not empty.
LEMMA TailFacts ==
  ASSUME NEW S, NEW s \in Seq(S), s # <<>>
  PROVE  /\ Head(s) \in S
         /\ Head(s) = s[1]
         /\ Len(s) \in Nat \ {0}
         /\ Tail(s) \in Seq(S)
         /\ Len(Tail(s)) = Len(s) - 1
         /\ DOMAIN s = 1 .. Len(s)
         /\ DOMAIN Tail(s) = 1 .. Len(s) - 1
         /\ \A i \in 1 .. Len(s) - 1 : Tail(s)[i] = s[i + 1]
  OBVIOUS

\* A queue of more than one element has a rest.
LEMMA TailNotEmpty ==
  ASSUME NEW S, NEW s \in Seq(S), Len(s) > 1
  PROVE  Tail(s) # <<>>
<1>1. s # <<>>
  OBVIOUS
<1>2. Tail(s) \in Seq(S) /\ Len(s) \in Nat /\ Len(Tail(s)) = Len(s) - 1
  BY <1>1, TailFacts
<1>3. \A t \in Seq(S) : Len(t) # 0 => t # <<>>
  OBVIOUS
<1>4. Len(Tail(s)) # 0
  BY ONLY <1>2, Len(s) > 1
<1> QED
  BY <1>2, <1>3, <1>4

\* What Append does to a queue.
LEMMA AppendFacts ==
  ASSUME NEW S, NEW s \in Seq(S), NEW e \in S
  PROVE  /\ Append(s, e) \in Seq(S)
         /\ Append(s, e) # <<>>
         /\ Len(s) \in Nat
         /\ Len(Append(s, e)) = Len(s) + 1
         /\ DOMAIN s = 1 .. Len(s)
         /\ DOMAIN Append(s, e) = 1 .. Len(s) + 1
         /\ \A i \in 1 .. Len(s) : Append(s, e)[i] = s[i]
         /\ Append(s, e)[Len(s) + 1] = e
  OBVIOUS

\* Two queues one behind the other.
LEMMA ConcatFacts ==
  ASSUME NEW S, NEW s \in Seq(S), NEW r \in Seq(S)
  PROVE  s \o r \in Seq(S)
  OBVIOUS

\* Three queues one behind the other.
LEMMA ConcatThree ==
  ASSUME NEW S, NEW s \in Seq(S), NEW r \in Seq(S), NEW q \in Seq(S)
  PROVE  (s \o r) \o q = s \o (r \o q)
<1>1. \A u, v \in Seq(S) :
        /\ u \o v \in Seq(S) /\ Len(u \o v) = Len(u) + Len(v)
        /\ \A i \in 1 .. Len(u) + Len(v) :
             (u \o v)[i] = IF i <= Len(u) THEN u[i] ELSE v[i - Len(u)]
  OBVIOUS
<1>2. \A u, v \in Seq(S) :
        Len(u) = Len(v) /\ (\A i \in 1 .. Len(u) : u[i] = v[i]) => u = v
  OBVIOUS
<1>3. Len(s) \in Nat /\ Len(r) \in Nat /\ Len(q) \in Nat
  OBVIOUS
<1>4. /\ (s \o r) \o q \in Seq(S) /\ s \o (r \o q) \in Seq(S)
      /\ Len((s \o r) \o q) = Len(s) + Len(r) + Len(q)
      /\ Len(s \o (r \o q)) = Len(s) + Len(r) + Len(q)
  BY <1>1, <1>3
<1>5. ASSUME NEW i \in 1 .. Len(s) + Len(r) + Len(q)
      PROVE  ((s \o r) \o q)[i] = (s \o (r \o q))[i]
  <2>1. CASE i <= Len(s)
    BY <1>1, <1>3, <2>1
  <2>2. CASE i > Len(s) /\ i <= Len(s) + Len(r)
    BY <1>1, <1>3, <2>2
  <2>3. CASE i > Len(s) + Len(r)
    BY <1>1, <1>3, <2>3
  <2> QED
    BY <1>3, <2>1, <2>2, <2>3
<1> QED
  BY <1>2, <1>4, <1>5

\* A queue given element by element.
LEMMA ListedQueue ==
  ASSUME NEW S, NEW n \in Nat, NEW f \in [1 .. n -> S]
  PROVE  f \in Seq(S) /\ Len(f) = n
  OBVIOUS

\* Queues of one and of two elements.
LEMMA ShortQueues ==
  ASSUME NEW S, NEW e \in S, NEW f \in S
  PROVE  /\ <<e>> \in Seq(S)
         /\ <<e, f>> \in Seq(S)
         /\ DOMAIN <<e, f>> = {1, 2}
         /\ <<e, f>>[1] = e /\ <<e, f>>[2] = f
  OBVIOUS

\* Building a queue of up to two elements.
LEMMA ShortAppends ==
  ASSUME NEW S, NEW c \in S, NEW d \in S
  PROVE  /\ <<c>> # <<>>
         /\ <<c, d>> # <<>>
         /\ Len(<<>>) = 0 /\ Len(<<c>>) = 1 /\ Len(<<c, d>>) = 2
         /\ Append(<<>>, c) = <<c>>
         /\ Append(<<c>>, d) = <<c, d>>
<1> DEFINE a == Append(<<c>>, d)
           b == <<c, d>>
<1>1. /\ <<c>> \in Seq(S) /\ b \in Seq(S) /\ Len(<<c>>) = 1 /\ Len(b) = 2
      /\ <<c>>[1] = c /\ b[1] = c /\ b[2] = d
  OBVIOUS
<1>2. a \in Seq(S) /\ Len(a) = 2 /\ a[1] = c /\ a[2] = d
  BY <1>1, AppendFacts
<1>3. \A u, v \in Seq(S) :
        Len(u) = Len(v) /\ (\A i \in 1 .. Len(u) : u[i] = v[i]) => u = v
  OBVIOUS
<1>4. \A i \in 1 .. 2 : i = 1 \/ i = 2
  OBVIOUS
<1>6. <<c>> # <<>> /\ b # <<>> /\ Len(<<>>) = 0
  OBVIOUS
<1> HIDE DEF a, b
<1>5. a = b
  BY <1>1, <1>2, <1>3, <1>4
<1>7. Append(<<>>, c) = <<c>>
  OBVIOUS
<1> QED
  BY <1>1, <1>5, <1>6, <1>7 DEF a, b

-----------------------------------------------------------------------------
(***************************************************************************)
(* Counting the handlers s that run one of a set of lambdas.               *)
(***************************************************************************)

\* At most one of them runs a lambda of runs.
AtMostOne(s, runs) ==
  \A i, j \in DOMAIN s : s[i].run \in runs /\ s[j].run \in runs => i = j

None(s, runs) == \A i \in DOMAIN s : s[i].run \notin runs

\* Running the first handler leaves at most one, and none if it was the one;
\* running another changes nothing.
LEMMA TailAtMostOne ==
  ASSUME NEW S, NEW s \in Seq(S), s # <<>>, NEW runs, AtMostOne(s, runs)
  PROVE  /\ AtMostOne(Tail(s), runs)
         /\ Head(s).run \in runs => None(Tail(s), runs)
         /\ None(s, runs) => None(Tail(s), runs)
         /\ Head(s).run \notin runs => (None(Tail(s), runs) <=> None(s, runs))
<1>1. /\ DOMAIN s = 1 .. Len(s) /\ Len(s) \in Nat \ {0}
      /\ DOMAIN Tail(s) = 1 .. Len(s) - 1
      /\ Head(s) = s[1]
      /\ \A i \in DOMAIN Tail(s) : i + 1 \in DOMAIN s /\ Tail(s)[i] = s[i + 1]
  BY TailFacts
<1>2. \A i \in DOMAIN s : i # 1 => i - 1 \in DOMAIN Tail(s) /\ i = (i - 1) + 1
  BY <1>1
<1>3. AtMostOne(Tail(s), runs)
  BY <1>1 DEF AtMostOne
<1>4. ASSUME Head(s).run \in runs PROVE None(Tail(s), runs)
  BY <1>1, <1>4 DEF AtMostOne, None
<1>5. ASSUME None(s, runs) PROVE None(Tail(s), runs)
  BY <1>1, <1>5 DEF None
<1>6. ASSUME Head(s).run \notin runs, None(Tail(s), runs) PROVE None(s, runs)
  BY <1>1, <1>2, <1>6 DEF None
<1> QED
  BY <1>3, <1>4, <1>5, <1>6

\* Posting a handler keeps at most one, if it is another or there was none.
LEMMA AppendAtMostOne ==
  ASSUME NEW S, NEW s \in Seq(S), NEW h \in S, NEW runs,
         AtMostOne(s, runs)
  PROVE  /\ h.run \notin runs \/ None(s, runs) => AtMostOne(Append(s, h), runs)
         /\ h.run \notin runs => (None(Append(s, h), runs) <=> None(s, runs))
         /\ h.run \in runs => ~None(Append(s, h), runs)
  BY AppendFacts DEF AtMostOne, None

\* Posting several handlers that run none of runs changes nothing.
LEMMA ConcatAtMostOne ==
  ASSUME NEW S, NEW s \in Seq(S), NEW r \in Seq(S), NEW runs,
         AtMostOne(s, runs), None(r, runs)
  PROVE  /\ AtMostOne(s \o r, runs)
         /\ None(s \o r, runs) <=> None(s, runs)
<1>1. /\ DOMAIN s = 1 .. Len(s) /\ Len(s) \in Nat
      /\ DOMAIN r = 1 .. Len(r) /\ Len(r) \in Nat
      /\ DOMAIN (s \o r) = 1 .. Len(s) + Len(r)
      /\ \A i \in 1 .. Len(s) : (s \o r)[i] = s[i]
      /\ \A i \in Len(s) + 1 .. Len(s) + Len(r) : (s \o r)[i] = r[i - Len(s)]
  OBVIOUS
<1>2. \A i \in DOMAIN (s \o r) : (s \o r)[i].run \in runs => i \in DOMAIN s
  <2>1. SUFFICES ASSUME NEW i \in Len(s) + 1 .. Len(s) + Len(r)
                 PROVE  (s \o r)[i].run \notin runs
    BY <1>1
  <2>2. i - Len(s) \in DOMAIN r
    BY <1>1
  <2> QED
    BY <1>1, <2>2 DEF None
<1>3. \A i \in DOMAIN s : i \in DOMAIN (s \o r) /\ (s \o r)[i] = s[i]
  BY <1>1
<1> QED
  BY <1>2, <1>3 DEF AtMostOne, None

\* An empty queue.
LEMMA EmptyNone == ASSUME NEW runs PROVE None(<<>>, runs)
  BY DEF None

\* Whether any of them runs a lambda of runs, after taking the first handler
\* and after posting one more.
LEMMA TailNone ==
  ASSUME NEW S, NEW s \in Seq(S), s # <<>>, NEW runs, Head(s).run \notin runs
  PROVE  None(Tail(s), runs) <=> None(s, runs)
<1>1. /\ DOMAIN s = 1 .. Len(s) /\ Len(s) \in Nat \ {0}
      /\ DOMAIN Tail(s) = 1 .. Len(s) - 1
      /\ Head(s) = s[1]
      /\ \A i \in DOMAIN Tail(s) : i + 1 \in DOMAIN s /\ Tail(s)[i] = s[i + 1]
  BY TailFacts
<1>2. \A i \in DOMAIN s : i # 1 => i - 1 \in DOMAIN Tail(s) /\ i = (i - 1) + 1
  BY <1>1
<1>3. ASSUME None(s, runs) PROVE None(Tail(s), runs)
  BY <1>1, <1>3 DEF None
<1>4. ASSUME None(Tail(s), runs) PROVE None(s, runs)
  BY <1>1, <1>2, <1>4 DEF None
<1> QED
  BY <1>3, <1>4

LEMMA AppendNone ==
  ASSUME NEW S, NEW s \in Seq(S), NEW h \in S, NEW runs
  PROVE  None(Append(s, h), runs) <=> None(s, runs) /\ h.run \notin runs
  BY AppendFacts DEF None

-----------------------------------------------------------------------------
(***************************************************************************)
(* Counting the elements of s that are of a set H.                         *)
(***************************************************************************)

\* At most one of them is in H.
OneAtMostIn(s, H) == \A i, j \in DOMAIN s : s[i] \in H /\ s[j] \in H => i = j

NoneIn(s, H) == \A i \in DOMAIN s : s[i] \notin H

\* An empty queue.
LEMMA EmptyIn == ASSUME NEW H PROVE OneAtMostIn(<<>>, H) /\ NoneIn(<<>>, H)
  BY DEF OneAtMostIn, NoneIn

\* Taking the first element.
LEMMA TailIn ==
  ASSUME NEW S, NEW s \in Seq(S), s # <<>>, NEW H
  PROVE  /\ OneAtMostIn(s, H) => OneAtMostIn(Tail(s), H)
         /\ OneAtMostIn(s, H) /\ Head(s) \in H => NoneIn(Tail(s), H)
         /\ Head(s) \in H => ~NoneIn(s, H)
         /\ NoneIn(s, H) => NoneIn(Tail(s), H)
         /\ Head(s) \notin H => (NoneIn(Tail(s), H) <=> NoneIn(s, H))
<1>1. /\ DOMAIN s = 1 .. Len(s) /\ Len(s) \in Nat \ {0}
      /\ DOMAIN Tail(s) = 1 .. Len(s) - 1
      /\ Head(s) = s[1]
      /\ \A i \in DOMAIN Tail(s) : i + 1 \in DOMAIN s /\ Tail(s)[i] = s[i + 1]
  BY TailFacts
<1>2. \A i \in DOMAIN s : i # 1 => i - 1 \in DOMAIN Tail(s) /\ i = (i - 1) + 1
  BY <1>1
<1>3. ASSUME OneAtMostIn(s, H) PROVE OneAtMostIn(Tail(s), H)
  BY <1>1, <1>3 DEF OneAtMostIn
<1>4. ASSUME OneAtMostIn(s, H), Head(s) \in H PROVE NoneIn(Tail(s), H)
  BY <1>1, <1>4 DEF OneAtMostIn, NoneIn
<1>5. ASSUME NoneIn(s, H) PROVE NoneIn(Tail(s), H)
  BY <1>1, <1>5 DEF NoneIn
<1>6. ASSUME Head(s) \notin H, NoneIn(Tail(s), H) PROVE NoneIn(s, H)
  BY <1>1, <1>2, <1>6 DEF NoneIn
<1>7. Head(s) \in H => ~NoneIn(s, H)
  BY <1>1 DEF NoneIn
<1> QED
  BY <1>3, <1>4, <1>5, <1>6, <1>7

\* Adding an element.
LEMMA AppendIn ==
  ASSUME NEW S, NEW s \in Seq(S), NEW h \in S, NEW H
  PROVE  /\ OneAtMostIn(s, H) /\ (h \notin H \/ NoneIn(s, H))
              => OneAtMostIn(Append(s, h), H)
         /\ h \notin H => (NoneIn(Append(s, h), H) <=> NoneIn(s, H))
         /\ h \in H => ~NoneIn(Append(s, h), H)
  BY AppendFacts DEF OneAtMostIn, NoneIn

\* One queue behind the other.
LEMMA ConcatIn ==
  ASSUME NEW S, NEW s \in Seq(S), NEW r \in Seq(S), NEW H
  PROVE  /\ OneAtMostIn(s, H) /\ NoneIn(r, H) => OneAtMostIn(s \o r, H)
         /\ NoneIn(s, H) /\ OneAtMostIn(r, H) => OneAtMostIn(s \o r, H)
         /\ NoneIn(s \o r, H) <=> NoneIn(s, H) /\ NoneIn(r, H)
<1>1. /\ DOMAIN s = 1 .. Len(s) /\ Len(s) \in Nat
      /\ DOMAIN r = 1 .. Len(r) /\ Len(r) \in Nat
      /\ DOMAIN (s \o r) = 1 .. Len(s) + Len(r)
      /\ \A i \in 1 .. Len(s) : (s \o r)[i] = s[i]
      /\ \A i \in Len(s) + 1 .. Len(s) + Len(r) : (s \o r)[i] = r[i - Len(s)]
  OBVIOUS
<1>2. \A i \in DOMAIN (s \o r) :
        \/ i \in DOMAIN s /\ (s \o r)[i] = s[i]
        \/ i - Len(s) \in DOMAIN r /\ (s \o r)[i] = r[i - Len(s)]
  BY <1>1
<1>3. \A i \in DOMAIN s : i \in DOMAIN (s \o r) /\ (s \o r)[i] = s[i]
  BY <1>1
<1>4. \A i \in DOMAIN r : /\ i + Len(s) \in DOMAIN (s \o r)
                          /\ (s \o r)[i + Len(s)] = r[i]
  BY <1>1
<1>5. NoneIn(s \o r, H) <=> NoneIn(s, H) /\ NoneIn(r, H)
  BY <1>2, <1>3, <1>4 DEF NoneIn
<1>6. ASSUME OneAtMostIn(s, H), NoneIn(r, H) PROVE OneAtMostIn(s \o r, H)
  BY <1>2, <1>3, <1>6 DEF OneAtMostIn, NoneIn
<1>7. ASSUME NoneIn(s, H), OneAtMostIn(r, H) PROVE OneAtMostIn(s \o r, H)
  <2>1. \A i \in DOMAIN (s \o r) : (s \o r)[i] \in H =>
          i - Len(s) \in DOMAIN r /\ r[i - Len(s)] \in H
    BY <1>2, <1>7 DEF NoneIn
  <2>2. \A i, j \in DOMAIN (s \o r) : i - Len(s) = j - Len(s) => i = j
    BY <1>1
  <2> QED
    BY <1>7, <2>1, <2>2 DEF OneAtMostIn
<1> QED
  BY <1>5, <1>6, <1>7

\* An element that comes only directly behind one of another set.
Follows(s, H, G) == \A i \in DOMAIN s : i > 1 /\ s[i] \in H => s[i - 1] \in G

\* Taking the first element of such a queue.
LEMMA TailFollows ==
  ASSUME NEW S, NEW s \in Seq(S), s # <<>>, NEW H, NEW G, Follows(s, H, G)
  PROVE  /\ Follows(Tail(s), H, G)
         /\ Tail(s) # <<>> /\ Head(Tail(s)) \in H => Head(s) \in G
<1>1. /\ DOMAIN s = 1 .. Len(s) /\ Len(s) \in Nat \ {0}
      /\ DOMAIN Tail(s) = 1 .. Len(s) - 1
      /\ Tail(s) \in Seq(S) /\ Len(Tail(s)) = Len(s) - 1
      /\ Head(s) = s[1]
      /\ \A i \in DOMAIN Tail(s) : i + 1 \in DOMAIN s /\ Tail(s)[i] = s[i + 1]
  BY TailFacts
<1>2. ASSUME NEW i \in DOMAIN Tail(s), i > 1, Tail(s)[i] \in H
      PROVE  Tail(s)[i - 1] \in G
  <2>1. /\ i + 1 \in DOMAIN s /\ i + 1 > 1 /\ s[i + 1] \in H
        /\ (i + 1) - 1 = i
        /\ i - 1 \in DOMAIN Tail(s) /\ (i - 1) + 1 = i
    BY <1>1, <1>2
  <2>2. s[i] \in G
    BY <2>1 DEF Follows
  <2> QED
    BY <1>1, <2>1, <2>2
<1>3. ASSUME Tail(s) # <<>>, Head(Tail(s)) \in H PROVE Head(s) \in G
  <2>1. 1 \in DOMAIN Tail(s) /\ Head(Tail(s)) = Tail(s)[1]
    BY <1>1, <1>3, TailFacts
  <2>2. 2 \in DOMAIN s /\ s[2] \in H /\ 2 - 1 = 1
    BY <1>1, <1>3, <2>1
  <2> QED
    BY <1>1, <2>2 DEF Follows
<1> QED
  BY <1>2, <1>3 DEF Follows

\* One such queue behind another.
LEMMA ConcatFollows ==
  ASSUME NEW S, NEW s \in Seq(S), NEW r \in Seq(S), NEW H, NEW G,
         Follows(s, H, G), Follows(r, H, G), r # <<>> => Head(r) \notin H
  PROVE  /\ Follows(s \o r, H, G)
         /\ s \o r # <<>> /\ Head(s \o r) \in H =>
              s # <<>> /\ Head(s) \in H
<1>1. /\ DOMAIN s = 1 .. Len(s) /\ Len(s) \in Nat
      /\ DOMAIN r = 1 .. Len(r) /\ Len(r) \in Nat
      /\ s \o r \in Seq(S) /\ Len(s \o r) = Len(s) + Len(r)
      /\ DOMAIN (s \o r) = 1 .. Len(s) + Len(r)
      /\ \A i \in 1 .. Len(s) : (s \o r)[i] = s[i]
      /\ \A i \in Len(s) + 1 .. Len(s) + Len(r) : (s \o r)[i] = r[i - Len(s)]
      /\ Len(r) # 0 => r # <<>> /\ Head(r) = r[1]
      /\ Len(s) # 0 => s # <<>> /\ Head(s) = s[1]
      /\ s \o r # <<>> => Len(s \o r) # 0 /\ Head(s \o r) = (s \o r)[1]
  OBVIOUS
<1>2. ASSUME NEW i \in DOMAIN (s \o r), i > 1, (s \o r)[i] \in H
      PROVE  (s \o r)[i - 1] \in G
  <2>1. CASE i \in 1 .. Len(s)
    <3>1. i - 1 \in 1 .. Len(s) /\ s[i] \in H
      BY <1>1, <1>2, <2>1
    <3> QED
      BY <1>1, <1>2, <2>1, <3>1 DEF Follows
  <2>2. CASE i = Len(s) + 1
    <3>1. r[1] \in H /\ Len(r) # 0
      BY <1>1, <1>2, <2>2
    <3> QED
      BY <1>1, <3>1
  <2>3. CASE i > Len(s) + 1
    <3>1. /\ i - Len(s) \in DOMAIN r /\ i - Len(s) > 1 /\ r[i - Len(s)] \in H
          /\ i - 1 \in Len(s) + 1 .. Len(s) + Len(r)
          /\ (i - 1) - Len(s) = (i - Len(s)) - 1
      BY <1>1, <1>2, <2>3
    <3>2. r[(i - Len(s)) - 1] \in G
      BY <3>1 DEF Follows
    <3> QED
      BY <1>1, <3>1, <3>2
  <2> QED
    BY <1>1, <1>2, <2>1, <2>2, <2>3
<1>3. ASSUME s \o r # <<>>, Head(s \o r) \in H
      PROVE  s # <<>> /\ Head(s) \in H
  <2>1. CASE Len(s) = 0
    BY <1>1, <1>3, <2>1
  <2>2. CASE Len(s) # 0
    BY <1>1, <1>3, <2>2
  <2> QED
    BY <2>1, <2>2
<1> QED
  BY <1>2, <1>3 DEF Follows
=============================================================================
