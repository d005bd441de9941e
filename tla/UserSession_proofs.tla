------------------------ MODULE UserSession_proofs ------------------------
(***************************************************************************)
(* Theorems about UserSession, for any users, accounts and paths of any    *)
(* length.                                                                 *)
(***************************************************************************)
EXTENDS UserSession, SequenceTheorems, FiniteSetTheorems, WellFoundedInduction,
        TLAPS

-----------------------------------------------------------------------------
(***************************************************************************)
(* Induction.  What holds of 0 and, with n, of n + 1 is a set of natural   *)
(* numbers here, since the least number that is not in it exists by the    *)
(* well-foundedness of the library.                                        *)
(***************************************************************************)
Less == {p \in Nat \X Nat : p[1] < p[2]}

LEMMA LeastElement ==
  ASSUME NEW T, T \subseteq Nat, T # {}
  PROVE  \E n \in T : \A m \in T : n <= m
<1>1. IsWellFoundedOn(Less, Nat)
  <2>1. OpToRel(<, Nat) = Less
    BY DEF OpToRel, Less
  <2> QED
    BY <2>1, NatLessThanWellFounded
<1>2. PICK n \in T : \A m \in T : <<m, n>> \notin Less
  BY <1>1, WFMin
<1>3. ASSUME NEW m \in T PROVE n <= m
  <2>1. /\ m \in Nat /\ n \in Nat
        /\ <<m, n>> \in Nat \X Nat /\ <<m, n>>[1] = m /\ <<m, n>>[2] = n
    OBVIOUS
  <2>2. ~(m < n)
    BY <1>2, <2>1 DEF Less
  <2> QED
    BY <2>1, <2>2
<1> QED
  BY <1>3

LEMMA Induction ==
  ASSUME NEW G, 0 \in G, \A n \in Nat : n \in G => n + 1 \in G
  PROVE  Nat \subseteq G
<1>1. SUFFICES ASSUME Nat \ G # {} PROVE FALSE
  OBVIOUS
<1>2. PICK n \in Nat \ G : \A m \in Nat \ G : n <= m
  BY <1>1, LeastElement
<1>3. n - 1 \in Nat /\ (n - 1) + 1 = n /\ ~(n <= n - 1)
  BY <1>2
<1> QED
  BY <1>2, <1>3

-----------------------------------------------------------------------------
(***************************************************************************)
(* The stacks of cleanPath.                                                *)
(***************************************************************************)

\* There is a stack after each number of parts, made from the one before.
LEMMA StackRecursion ==
  ASSUME NEW S, NEW absolute \in BOOLEAN, NEW path \in Seq(S)
  PROVE  /\ Stacks(absolute, path)[0] = <<>>
         /\ \A n \in 1 .. Len(path) :
              Stacks(absolute, path)[n]
                = Push(absolute, Stacks(absolute, path)[n - 1], path[n])
<1> DEFINE Defined(f, m) ==
             f = [n \in 0 .. m |->
                    IF n = 0 THEN <<>> ELSE Push(absolute, f[n - 1], path[n])]
           G == {m \in Nat : \E f : Defined(f, m)}
<1>1. 0 \in G
  <2>1. Defined([n \in 0 .. 0 |-> <<>>], 0)
    OBVIOUS
  <2> QED
    BY <2>1
<1>2. ASSUME NEW m \in Nat, m \in G PROVE m + 1 \in G
  <2>1. PICK f : Defined(f, m)
    BY <1>2
  <2> DEFINE g == [n \in 0 .. m + 1 |->
                     IF n = m + 1 THEN Push(absolute, f[m], path[n]) ELSE f[n]]
  <2>2. ASSUME NEW n \in 0 .. m + 1
        PROVE  g[n] = IF n = 0 THEN <<>> ELSE Push(absolute, g[n - 1], path[n])
    <3>1. CASE n = m + 1
      BY <3>1
    <3>2. CASE n \in 0 .. m
      BY <2>1, <3>2
    <3> QED
      BY <3>1, <3>2
  <2>3. Defined(g, m + 1)
    BY <2>2
  <2> HIDE DEF g, Defined
  <2> QED
    BY <2>3
<1>3. Nat \subseteq G
  <2> HIDE DEF G
  <2> QED
    BY <1>1, <1>2, Induction
<1>4. \E f : Defined(f, Len(path))
  BY <1>3
<1>5. Stacks(absolute, path) = CHOOSE f : Defined(f, Len(path))
  BY DEF Stacks
<1>6. Defined(Stacks(absolute, path), Len(path))
  <2> HIDE DEF Defined
  <2> QED
    BY <1>4, <1>5
<1> QED
  BY <1>6

\* The stack without its top.
LEMMA FrontFacts ==
  ASSUME NEW S, NEW s \in Seq(S), s # <<>>
  PROVE  /\ Front(s) \in Seq(S)
         /\ Len(Front(s)) = Len(s) - 1
         /\ Len(s) \in Nat \ {0}
         /\ \A i \in 1 .. Len(s) - 1 : Front(s)[i] = s[i]
<1> DEFINE n == Len(s) - 1
<1>1. /\ Len(s) \in Nat \ {0} /\ n \in Nat /\ n \in Int /\ 1 \in Int
      /\ \A i \in 1 .. n : s[i] \in S
  OBVIOUS
<1> HIDE DEF n
<1>2. /\ SubSeq(s, 1, n) \in Seq(S)
      /\ Len(SubSeq(s, 1, n)) = IF 1 <= n THEN n - 1 + 1 ELSE 0
      /\ \A i \in 1 .. n - 1 + 1 : SubSeq(s, 1, n)[i] = s[1 + i - 1]
  BY <1>1, SubSeqProperties
<1>3. n - 1 + 1 = n /\ (IF 1 <= n THEN n - 1 + 1 ELSE 0) = n
  BY <1>1
<1>4. ASSUME NEW i \in 1 .. n PROVE SubSeq(s, 1, n)[i] = s[i]
  <2>1. i \in 1 .. n - 1 + 1 /\ 1 + i - 1 = i
    BY <1>1, <1>3
  <2> QED
    BY <1>2, <2>1
<1> QED
  BY <1>1, <1>2, <1>3, <1>4 DEF n, Front

\* No element of a sequence is barred, and those that are low are at its
\* bottom.
Piled(s, barred, low) ==
  \A i \in DOMAIN s : /\ s[i] \notin barred
                      /\ i > 1 /\ s[i] \in low => s[i - 1] \in low

LEMMA FrontPiled ==
  ASSUME NEW S, NEW s \in Seq(S), s # <<>>, NEW barred, NEW low,
         Piled(s, barred, low)
  PROVE  Piled(Front(s), barred, low)
<1>1. /\ DOMAIN s = 1 .. Len(s) /\ Len(s) \in Nat
      /\ DOMAIN Front(s) = 1 .. Len(s) - 1
      /\ \A i \in 1 .. Len(s) - 1 : Front(s)[i] = s[i]
  BY FrontFacts
<1>2. ASSUME NEW i \in 1 .. Len(s) - 1, i > 1, Front(s)[i] \in low
      PROVE  Front(s)[i - 1] \in low
  <2>1. i - 1 \in 1 .. Len(s) - 1 /\ i \in DOMAIN s
    BY <1>1, <1>2
  <2>2. s[i - 1] \in low
    BY <1>1, <1>2, <2>1 DEF Piled
  <2> QED
    BY <1>1, <2>1, <2>2
<1> QED
  BY <1>1, <1>2 DEF Piled

LEMMA AppendPiled ==
  ASSUME NEW S, NEW s \in Seq(S), NEW e \in S, NEW barred, NEW low,
         Piled(s, barred, low), e \notin barred,
         e \in low => s = <<>> \/ Last(s) \in low
  PROVE  Piled(Append(s, e), barred, low)
<1>1. /\ DOMAIN s = 1 .. Len(s) /\ Len(s) \in Nat
      /\ DOMAIN Append(s, e) = 1 .. Len(s) + 1
      /\ \A i \in 1 .. Len(s) : Append(s, e)[i] = s[i]
      /\ Append(s, e)[Len(s) + 1] = e
      /\ s = <<>> => Len(s) = 0
  BY AppendProperties
<1>2. ASSUME NEW i \in 1 .. Len(s) + 1, i > 1, Append(s, e)[i] \in low
      PROVE  Append(s, e)[i - 1] \in low
  <2>1. i - 1 \in 1 .. Len(s) /\ (i \in DOMAIN s \/ i - 1 = Len(s))
    BY <1>1, <1>2
  <2>2. s[i - 1] \in low
    <3>1. CASE i \in DOMAIN s
      BY <1>1, <1>2, <3>1 DEF Piled
    <3>2. CASE i - 1 = Len(s)
      BY <1>1, <1>2, <3>2 DEF Last
    <3> QED
      BY <2>1, <3>1, <3>2
  <2> QED
    BY <1>1, <2>1, <2>2
<1>3. ASSUME NEW i \in 1 .. Len(s) + 1 PROVE Append(s, e)[i] \notin barred
  <2>1. i \in DOMAIN s \/ i = Len(s) + 1
    BY <1>1
  <2> QED
    BY <1>1, <2>1 DEF Piled
<1> QED
  BY <1>1, <1>2, <1>3 DEF Piled

(***************************************************************************)
(* A clean stack: no empty part and no ".", no ".." in an absolute path,   *)
(* and in a relative one each ".." on top of another or at the bottom.     *)
(***************************************************************************)
EmptyPart == ""
DotPart   == "."

Void == {EmptyPart, DotPart}
Up   == {".."}

Barred(absolute) == IF absolute THEN Void \cup Up ELSE Void

CleanStack(absolute, stack) == Piled(stack, Barred(absolute), Up)

\* What a name, a part without a meaning and ".." do to the stack.
LEMMA PushParts ==
  ASSUME NEW absolute \in BOOLEAN, NEW stack, NEW part
  PROVE  /\ part \in Void => Push(absolute, stack, part) = stack
         /\ part \notin Void \cup Up =>
              Push(absolute, stack, part) = Append(stack, part)
         /\ part \in Up \ Barred(absolute) =>
              Push(absolute, stack, part)
                = IF stack # <<>> /\ Last(stack) \notin Up
                  THEN Front(stack) ELSE Append(stack, part)
         /\ part \in Up /\ part \in Barred(absolute) =>
              Push(absolute, stack, part)
                = IF stack # <<>> THEN Front(stack) ELSE <<>>
<1>1. CASE absolute
  BY <1>1 DEF Push, Void, Up, Barred, EmptyPart, DotPart
<1>2. CASE ~absolute
  BY <1>2 DEF Push, Void, Up, Barred, EmptyPart, DotPart
<1> QED
  BY <1>1, <1>2

\* A part pushed onto a clean stack leaves it clean.
LEMMA PushClean ==
  ASSUME NEW S, NEW absolute \in BOOLEAN, NEW stack \in Seq(S),
         NEW part \in S, CleanStack(absolute, stack)
  PROVE  /\ Push(absolute, stack, part) \in Seq(S)
         /\ CleanStack(absolute, Push(absolute, stack, part))
<1>1. CASE part \in Void
  BY <1>1, PushParts
<1>2. ASSUME part \notin Barred(absolute),
             part \in Up => stack = <<>> \/ Last(stack) \in Up
      PROVE  /\ Append(stack, part) \in Seq(S)
             /\ CleanStack(absolute, Append(stack, part))
  BY <1>2, AppendProperties, AppendPiled DEF CleanStack
<1>3. ASSUME stack # <<>>
      PROVE  Front(stack) \in Seq(S) /\ CleanStack(absolute, Front(stack))
  BY <1>3, FrontFacts, FrontPiled DEF CleanStack
<1>4. <<>> \in Seq(S) /\ CleanStack(absolute, <<>>)
  BY DEF CleanStack, Piled
<1>5. CASE part \notin Void \cup Up
  <2>1. part \notin Barred(absolute) /\ part \notin Up
    BY <1>5 DEF Barred
  <2> QED
    BY <1>2, <1>5, <2>1, PushParts
<1>6. CASE part \in Up \ Barred(absolute)
  BY <1>2, <1>3, <1>6, PushParts
<1>7. CASE part \in Up /\ part \in Barred(absolute)
  <2>1. Push(absolute, stack, part) = IF stack # <<>> THEN Front(stack) ELSE <<>>
    BY <1>7, PushParts
  <2>2. CASE stack = <<>>
    BY <1>4, <2>1, <2>2
  <2>3. CASE stack # <<>>
    BY <1>3, <2>1, <2>3
  <2> QED
    BY <2>2, <2>3
<1>8. part \in Void \/ part \notin Void \cup Up \/ part \in Up
  OBVIOUS
<1> QED
  BY <1>1, <1>5, <1>6, <1>7, <1>8

\* All the stacks are clean.
LEMMA StacksClean ==
  ASSUME NEW S, NEW absolute \in BOOLEAN, NEW path \in Seq(S)
  PROVE  \A n \in 0 .. Len(path) :
           /\ Stacks(absolute, path)[n] \in Seq(S)
           /\ CleanStack(absolute, Stacks(absolute, path)[n])
<1> DEFINE stack == Stacks(absolute, path)
           Good(n) == stack[n] \in Seq(S) /\ CleanStack(absolute, stack[n])
           G == {n \in Nat : n <= Len(path) => Good(n)}
<1>0. Len(path) \in Nat /\ \A n \in 1 .. Len(path) : path[n] \in S
  OBVIOUS
<1>1. 0 \in G
  <2>1. stack[0] = <<>>
    BY StackRecursion
  <2>2. <<>> \in Seq(S) /\ CleanStack(absolute, <<>>)
    BY DEF CleanStack, Piled
  <2> QED
    BY <2>1, <2>2
<1>2. ASSUME NEW n \in Nat, n \in G PROVE n + 1 \in G
  <2> SUFFICES ASSUME n + 1 <= Len(path) PROVE Good(n + 1)
    BY <1>0
  <2>1. Good(n) /\ n + 1 \in 1 .. Len(path) /\ (n + 1) - 1 = n
    BY <1>0, <1>2
  <2>2. stack[n + 1] = Push(absolute, stack[n], path[n + 1])
    BY <2>1, StackRecursion
  <2> QED
    BY <1>0, <2>1, <2>2, PushClean
<1>3. Nat \subseteq G
  <2> HIDE DEF G
  <2> QED
    BY <1>1, <1>2, Induction
<1> QED
  BY <1>0, <1>3

\* The first stacks do not depend on the parts that follow.
LEMMA StacksOfPrefix ==
  ASSUME NEW S, NEW absolute \in BOOLEAN, NEW p \in Seq(S), NEW q \in Seq(S)
  PROVE  /\ p \o q \in Seq(S)
         /\ Len(p \o q) = Len(p) + Len(q)
         /\ \A n \in 0 .. Len(p) :
              Stacks(absolute, p \o q)[n] = Stacks(absolute, p)[n]
<1> DEFINE long  == Stacks(absolute, p \o q)
           short == Stacks(absolute, p)
           G == {n \in Nat : n <= Len(p) => long[n] = short[n]}
<1>0. /\ p \o q \in Seq(S) /\ Len(p \o q) = Len(p) + Len(q)
      /\ Len(p) \in Nat /\ Len(q) \in Nat
      /\ \A n \in 1 .. Len(p) : (p \o q)[n] = p[n]
  OBVIOUS
<1>1. 0 \in G
  <2>1. long[0] = <<>>
    BY <1>0, StackRecursion
  <2>2. short[0] = <<>>
    BY StackRecursion
  <2> QED
    BY <2>1, <2>2
<1>2. ASSUME NEW n \in Nat, n \in G PROVE n + 1 \in G
  <2> SUFFICES ASSUME n + 1 <= Len(p) PROVE long[n + 1] = short[n + 1]
    OBVIOUS
  <2>1. /\ n + 1 \in 1 .. Len(p) /\ n + 1 \in 1 .. Len(p \o q)
        /\ (n + 1) - 1 = n /\ long[n] = short[n]
    BY <1>0, <1>2
  <2>2. long[n + 1] = Push(absolute, long[n], (p \o q)[n + 1])
    BY <1>0, <2>1, StackRecursion
  <2>3. short[n + 1] = Push(absolute, short[n], p[n + 1])
    BY <2>1, StackRecursion
  <2> QED
    BY <1>0, <2>1, <2>2, <2>3
<1>3. Nat \subseteq G
  <2> HIDE DEF G
  <2> QED
    BY <1>1, <1>2, Induction
<1> QED
  BY <1>0, <1>3

\* The stack s is base and on top of it the parts k + 1 .. n of the path.
Grown(s, base, path, k, n) ==
  /\ Len(s) = Len(base) + (n - k)
  /\ \A i \in 1 .. Len(base) : s[i] = base[i]
  /\ \A i \in k + 1 .. n : s[Len(base) + (i - k)] = path[i]

\* Parts that are only pushed stay as they are.
LEMMA StackGrows ==
  ASSUME NEW S, NEW absolute \in BOOLEAN, NEW path \in Seq(S),
         NEW k \in 0 .. Len(path), NEW base \in Seq(S),
         Stacks(absolute, path)[k] = base,
         \A n \in k + 1 .. Len(path), s \in Seq(S) :
           Grown(s, base, path, k, n - 1)
             => Push(absolute, s, path[n]) = Append(s, path[n])
  PROVE  \A n \in k .. Len(path) :
           Grown(Stacks(absolute, path)[n], base, path, k, n)
<1> DEFINE stack == Stacks(absolute, path)
           Good(n) == Grown(stack[n], base, path, k, n)
           G == {m \in Nat : k + m <= Len(path) => Good(k + m)}
<1>0. /\ Len(path) \in Nat /\ k \in Nat /\ Len(base) \in Nat
      /\ \A n \in 1 .. Len(path) : path[n] \in S
  OBVIOUS
<1>1. 0 \in G
  <2>1. Grown(base, base, path, k, k)
    BY <1>0 DEF Grown
  <2> QED
    BY <1>0, <2>1
<1>2. ASSUME NEW m \in Nat, m \in G PROVE m + 1 \in G
  <2> DEFINE n == k + m
  <2> SUFFICES ASSUME n + 1 <= Len(path) PROVE Good(n + 1)
    BY <1>0
  <2>1. /\ n \in Nat /\ n + 1 \in k + 1 .. Len(path)
        /\ n + 1 \in 1 .. Len(path) /\ (n + 1) - 1 = n /\ n \in 0 .. Len(path)
        /\ Good(n)
    BY <1>0, <1>2
  <2> HIDE DEF n
  <2>2. stack[n] \in Seq(S)
    BY <2>1, StacksClean
  <2>3. stack[n + 1] = Push(absolute, stack[n], path[n + 1])
    BY <2>1, StackRecursion
  <2>4. stack[n + 1] = Append(stack[n], path[n + 1])
    BY <2>1, <2>2, <2>3
  <2>5. /\ Len(stack[n]) = Len(base) + (n - k)
        /\ \A i \in 1 .. Len(base) : stack[n][i] = base[i]
        /\ \A i \in k + 1 .. n : stack[n][Len(base) + (i - k)] = path[i]
    BY <2>1 DEF Grown
  <2>6. /\ Len(stack[n + 1]) = Len(base) + (n - k) + 1
        /\ \A i \in 1 .. Len(base) + (n - k) : stack[n + 1][i] = stack[n][i]
        /\ stack[n + 1][Len(base) + (n - k) + 1] = path[n + 1]
    BY <1>0, <2>1, <2>2, <2>4, <2>5, AppendProperties
  <2> HIDE DEF stack
  <2>7. n - k \in Nat /\ Len(base) + (n - k) + 1 = Len(base) + ((n + 1) - k)
    BY <1>0, <2>1
  <2>8. \A i \in 1 .. Len(base) : stack[n + 1][i] = base[i]
    BY <1>0, <2>5, <2>6, <2>7
  <2>9. ASSUME NEW i \in k + 1 .. n + 1
        PROVE  stack[n + 1][Len(base) + (i - k)] = path[i]
    <3>1. CASE i = n + 1
      BY <2>6, <2>7, <3>1
    <3>2. CASE i \in k + 1 .. n
      <4>1. Len(base) + (i - k) \in 1 .. Len(base) + (n - k)
        BY <1>0, <2>1, <3>2
      <4> QED
        BY <2>5, <2>6, <3>2, <4>1
    <3> QED
      BY <1>0, <2>1, <3>1, <3>2
  <2> QED
    BY <2>6, <2>7, <2>8, <2>9 DEF Grown
<1>3. Nat \subseteq G
  <2> HIDE DEF G
  <2> QED
    BY <1>1, <1>2, Induction
<1>4. ASSUME NEW n \in k .. Len(path) PROVE Good(n)
  <2>1. n - k \in Nat /\ k + (n - k) = n
    BY <1>0
  <2>2. n - k \in G
    BY <1>3, <2>1
  <2> HIDE DEF Good
  <2> QED
    BY <1>0, <2>1, <2>2
<1> QED
  BY <1>4

\* Where the parts that follow an empty stack are a clean stack, cleanPath
\* finds that stack again.
LEMMA Rebuilt ==
  ASSUME NEW S, NEW absolute \in BOOLEAN, NEW path \in Seq(S),
         NEW k \in 0 .. Len(path), Stacks(absolute, path)[k] = <<>>,
         NEW stack \in Seq(S), CleanStack(absolute, stack),
         Len(path) = k + Len(stack),
         \A i \in 1 .. Len(stack) : path[k + i] = stack[i]
  PROVE  Stacks(absolute, path)[Len(path)] = stack
<1> DEFINE base == Stacks(absolute, path)[k]
<1>0. /\ k \in Nat /\ Len(stack) \in Nat /\ DOMAIN stack = 1 .. Len(stack)
      /\ base \in Seq(S) /\ Len(base) = 0
  OBVIOUS
<1>9. base = Stacks(absolute, path)[k]
  OBVIOUS
<1> HIDE DEF base
<1>1. ASSUME NEW n \in k + 1 .. Len(path), NEW s \in Seq(S),
             Grown(s, base, path, k, n - 1)
      PROVE  Push(absolute, s, path[n]) = Append(s, path[n])
  <2> DEFINE i == n - k
  <2>1. i \in 1 .. Len(stack) /\ path[n] = stack[i]
    <3>1. i \in 1 .. Len(stack) /\ k + i = n
      BY <1>0
    <3> QED
      BY <3>1
  <2>2. /\ path[n] \notin Barred(absolute)
        /\ i > 1 /\ path[n] \in Up => stack[i - 1] \in Up
    BY <1>0, <2>1 DEF CleanStack, Piled
  <2>3. /\ Len(s) = i - 1
        /\ \A j \in k + 1 .. n - 1 : s[j - k] = path[j]
    <3>1. /\ Len(s) = 0 + ((n - 1) - k)
          /\ \A j \in k + 1 .. n - 1 : s[0 + (j - k)] = path[j]
      BY <1>0, <1>1 DEF Grown
    <3>2. \A j \in k + 1 .. n - 1 : 0 + (j - k) = j - k
      BY <1>0
    <3> QED
      BY <1>0, <3>1, <3>2
  <2>4. i > 1 => Last(s) = stack[i - 1]
    <3> SUFFICES ASSUME i > 1 PROVE Last(s) = stack[i - 1]
      OBVIOUS
    <3>1. /\ n - 1 \in k + 1 .. n - 1 /\ (n - 1) - k = i - 1
          /\ i - 1 \in 1 .. Len(stack) /\ k + (i - 1) = n - 1
      BY <1>0
    <3>2. s[i - 1] = path[n - 1] /\ path[n - 1] = stack[i - 1]
      BY <2>3, <3>1
    <3> QED
      BY <2>3, <3>2 DEF Last
  <2>5. i = 1 => s = <<>>
    BY <2>3
  <2> HIDE DEF i
  <2>6. CASE path[n] \in Up
    <3>1. i = 1 \/ i > 1
      BY <1>0, <2>1
    <3>2. s = <<>> \/ Last(s) \in Up
      BY <2>2, <2>4, <2>5, <2>6, <3>1
    <3>3. Push(absolute, s, path[n])
            = IF s # <<>> /\ Last(s) \notin Up
              THEN Front(s) ELSE Append(s, path[n])
      <4> DEFINE part == path[n]
      <4>1. part \in Up \ Barred(absolute)
        BY <2>2, <2>6
      <4> HIDE DEF part
      <4>2. Push(absolute, s, part)
              = IF s # <<>> /\ Last(s) \notin Up
                THEN Front(s) ELSE Append(s, part)
        BY <4>1, PushParts
      <4> QED
        BY <4>2 DEF part
    <3> QED
      BY <3>2, <3>3
  <2>7. CASE path[n] \notin Up
    <3>1. path[n] \notin Void \cup Up
      BY <2>2, <2>7 DEF Barred
    <3> QED
      BY <3>1, PushParts
  <2> QED
    BY <2>6, <2>7
<1>2. Grown(Stacks(absolute, path)[Len(path)], base, path, k, Len(path))
  <2>1. \A n \in k + 1 .. Len(path), s \in Seq(S) :
          Grown(s, base, path, k, n - 1)
            => Push(absolute, s, path[n]) = Append(s, path[n])
    BY <1>1
  <2>2. \A n \in k .. Len(path) :
          Grown(Stacks(absolute, path)[n], base, path, k, n)
    BY <1>0, <1>9, <2>1, StackGrows
  <2> QED
    BY <1>0, <2>2
<1> DEFINE s == Stacks(absolute, path)[Len(path)]
<1>3. s \in Seq(S)
  BY StacksClean
<1> HIDE DEF s
<1>4. /\ Len(s) = Len(base) + (Len(path) - k)
      /\ \A i \in k + 1 .. Len(path) : s[Len(base) + (i - k)] = path[i]
  BY <1>2 DEF Grown, s
<1>5. Len(s) = Len(stack)
  BY <1>0, <1>4
<1>6. ASSUME NEW i \in 1 .. Len(stack) PROVE s[i] = stack[i]
  <2>1. k + i \in k + 1 .. Len(path) /\ 0 + ((k + i) - k) = i
    BY <1>0
  <2> QED
    BY <1>0, <1>4, <2>1
<1>7. s = stack
  BY <1>3, <1>5, <1>6
<1> QED
  BY <1>7 DEF s

\* Parts without a meaning leave the stack empty.
LEMMA EmptyStacks ==
  ASSUME NEW S, NEW absolute \in BOOLEAN, NEW path \in Seq(S),
         NEW k \in 0 .. Len(path), \A i \in 1 .. k : path[i] \in Void
  PROVE  Stacks(absolute, path)[k] = <<>>
<1> DEFINE stack == Stacks(absolute, path)
           G == {n \in Nat : n <= k => stack[n] = <<>>}
<1>1. 0 \in G
  BY StackRecursion
<1>2. ASSUME NEW n \in Nat, n \in G PROVE n + 1 \in G
  <2> SUFFICES ASSUME n + 1 <= k PROVE stack[n + 1] = <<>>
    OBVIOUS
  <2>1. /\ n + 1 \in 1 .. Len(path) /\ n + 1 \in 1 .. k /\ (n + 1) - 1 = n
        /\ stack[n] = <<>>
    BY <1>2
  <2>2. stack[n + 1] = Push(absolute, stack[n], path[n + 1])
    BY <2>1, StackRecursion
  <2>3. path[n + 1] \in Void
    BY <2>1
  <2>4. Push(absolute, stack[n], path[n + 1]) = stack[n]
    BY <2>3, PushParts
  <2> QED
    BY <2>1, <2>2, <2>4
<1>3. Nat \subseteq G
  <2> HIDE DEF G
  <2> QED
    BY <1>1, <1>2, Induction
<1> QED
  BY <1>3

\* A part in front of a sequence of parts.
LEMMA PartBefore ==
  ASSUME NEW S, NEW part \in S, NEW parts \in Seq(S)
  PROVE  /\ <<part>> \o parts \in Seq(S)
         /\ Len(parts) \in Nat
         /\ Len(<<part>> \o parts) = 1 + Len(parts)
         /\ (<<part>> \o parts)[1] = part
         /\ \A i \in 1 .. Len(parts) : (<<part>> \o parts)[1 + i] = parts[i]
         /\ <<part>> \in Seq(S) /\ Len(<<part>>) = 1 /\ <<part>>[1] = part
  OBVIOUS

\* An absolute path begins with a slash.
LEMMA AbsolutePath ==
  ASSUME NEW path
  PROVE  IsAbsolute(path) <=> Len(path) > 1 /\ path[1] = EmptyPart
  BY DEF IsAbsolute, EmptyPart

\* A path is k parts without a meaning and then the stack.
Trailing(path, k, stack) ==
  /\ k \in 0 .. Len(path)
  /\ Len(path) = k + Len(stack)
  /\ \A i \in 1 .. k : path[i] \in Void
  /\ \A i \in 1 .. Len(stack) : path[k + i] = stack[i]

\* A joined path is some parts without a meaning and then the components.
LEMMA JoinedParts ==
  ASSUME NEW S, Void \subseteq S, NEW absolute \in BOOLEAN,
         NEW stack \in Seq(S), NEW path, path = Joined(absolute, stack)
  PROVE  /\ path \in Seq(S) \ {<<>>}
         /\ \E k \in Nat : Trailing(path, k, stack)
         /\ absolute => IsAbsolute(path)
         /\ ~absolute => path = stack \/ path = <<DotPart>>
<1>0. /\ Len(stack) \in Nat /\ (stack = <<>> <=> Len(stack) = 0)
      /\ \A s \in Seq(S) : Len(s) \in Nat \ {0} => s # <<>>
      /\ EmptyPart \in S /\ DotPart \in S
      /\ EmptyPart \in Void /\ DotPart \in Void
  BY DEF Void
<1>1. CASE absolute /\ stack = <<>>
  <2>1. path = <<EmptyPart>> \o <<EmptyPart>>
    BY <1>1 DEF Joined, EmptyPart
  <2>2. /\ path \in Seq(S) /\ Len(path) = 2
        /\ path[1] = EmptyPart /\ path[2] = EmptyPart
    <3>1. <<EmptyPart>> \in Seq(S) /\ Len(<<EmptyPart>>) = 1
          /\ <<EmptyPart>>[1] = EmptyPart
      BY <1>0
    <3> QED
      BY <1>0, <2>1, <3>1, PartBefore
  <2>3. \A i \in 1 .. 2 : path[i] \in Void
    <3>1. \A i \in 1 .. 2 : i = 1 \/ i = 2
      OBVIOUS
    <3> QED
      BY <1>0, <2>2, <3>1
  <2>4. Len(stack) = 0
    BY <1>0, <1>1
  <2>5. Trailing(path, 2, stack)
    BY <2>2, <2>3, <2>4 DEF Trailing
  <2>6. IsAbsolute(path)
    BY <2>2, AbsolutePath
  <2>7. path \in Seq(S) \ {<<>>}
    <3>1. path # <<>>
      <4>1. path \in Seq(S) /\ Len(path) \in Nat \ {0}
        BY <2>2
      <4> QED
        BY <1>0, <4>1
    <3> QED
      BY <2>2, <3>1
  <2> QED
    BY <1>1, <2>5, <2>6, <2>7
<1>2. CASE absolute /\ stack # <<>>
  <2>1. path = <<EmptyPart>> \o stack
    BY <1>2 DEF Joined, EmptyPart
  <2>2. /\ path \in Seq(S) /\ Len(path) = 1 + Len(stack)
        /\ path[1] = EmptyPart
        /\ \A i \in 1 .. Len(stack) : path[1 + i] = stack[i]
    BY <1>0, <2>1, PartBefore
  <2>3. Len(stack) > 0
    BY <1>0, <1>2
  <2>4. \A i \in 1 .. 1 : path[i] \in Void
    <3>1. \A i \in 1 .. 1 : i = 1
      OBVIOUS
    <3> QED
      BY <1>0, <2>2, <3>1
  <2>5. Trailing(path, 1, stack)
    BY <1>0, <2>2, <2>4 DEF Trailing
  <2>6. IsAbsolute(path)
    BY <1>0, <2>2, <2>3, AbsolutePath
  <2>7. path \in Seq(S) \ {<<>>}
    BY <1>0, <2>2
  <2> QED
    BY <1>2, <2>5, <2>6, <2>7
<1>3. CASE ~absolute /\ stack = <<>>
  <2>1. path = <<DotPart>>
    BY <1>3 DEF Joined, DotPart
  <2>2. path \in Seq(S) /\ Len(path) = 1 /\ path[1] = DotPart
    BY <1>0, <2>1
  <2>3. \A i \in 1 .. 1 : path[i] \in Void
    <3>1. \A i \in 1 .. 1 : i = 1
      OBVIOUS
    <3> QED
      BY <1>0, <2>2, <3>1
  <2>4. Len(stack) = 0
    BY <1>0, <1>3
  <2>5. Trailing(path, 1, stack)
    BY <2>2, <2>3, <2>4 DEF Trailing
  <2>6. path \in Seq(S) \ {<<>>}
    BY <1>0, <2>2
  <2> QED
    BY <1>3, <2>1, <2>5, <2>6
<1>4. CASE ~absolute /\ stack # <<>>
  <2>1. path = stack
    BY <1>4 DEF Joined
  <2>2. Trailing(path, 0, stack)
    BY <1>0, <2>1 DEF Trailing
  <2> QED
    BY <1>4, <2>1, <2>2
<1> QED
  BY <1>1, <1>2, <1>3, <1>4

\* The components of a joined path are those that were joined.
LEMMA ComponentsOfJoined ==
  ASSUME NEW S, Void \subseteq S, NEW absolute \in BOOLEAN,
         NEW stack \in Seq(S), CleanStack(absolute, stack),
         NEW path, path = Joined(absolute, stack)
  PROVE  /\ path \in Seq(S) \ {<<>>}
         /\ IsAbsolute(path) <=> absolute
         /\ Stacks(absolute, path)[Len(path)] = stack
<1>1. /\ path \in Seq(S) \ {<<>>}
      /\ \E k \in Nat : Trailing(path, k, stack)
      /\ absolute => IsAbsolute(path)
      /\ ~absolute => path = stack \/ path = <<DotPart>>
  BY JoinedParts
<1>2. Stacks(absolute, path)[Len(path)] = stack
  <2>1. PICK k \in Nat : Trailing(path, k, stack)
    BY <1>1
  <2>2. /\ k \in 0 .. Len(path)
        /\ Len(path) = k + Len(stack)
        /\ \A i \in 1 .. k : path[i] \in Void
        /\ \A i \in 1 .. Len(stack) : path[k + i] = stack[i]
    BY <2>1 DEF Trailing
  <2>3. Stacks(absolute, path)[k] = <<>>
    BY <1>1, <2>2, EmptyStacks
  <2> QED
    BY <1>1, <2>2, <2>3, Rebuilt
<1>3. ASSUME ~absolute PROVE ~IsAbsolute(path)
  <2>1. CASE path = stack
    <3>1. Len(stack) > 1 => stack[1] \notin Barred(absolute)
      BY DEF CleanStack, Piled
    <3>2. Len(stack) > 1 => stack[1] # EmptyPart
      BY <3>1 DEF Barred, Void
    <3> QED
      BY <2>1, <3>2, AbsolutePath
  <2>2. CASE path = <<DotPart>>
    <3>1. Len(<<DotPart>>) = 1
      OBVIOUS
    <3>2. ~(Len(path) > 1)
      BY <2>2, <3>1
    <3> QED
      BY <3>2, AbsolutePath
  <2> QED
    BY <1>1, <1>3, <2>1, <2>2
<1> QED
  BY <1>1, <1>2, <1>3

(***************************************************************************)
(* A clean path is clean: cleanPath has the components of the path it was  *)
(* given, and leaves its own results as they are.                          *)
(***************************************************************************)
THEOREM CleanPathIdempotent ==
  ASSUME NEW S, Void \subseteq S, NEW path \in Seq(S)
  PROVE  /\ cleanPath(path) \in Seq(S) \ {<<>>}
         /\ IsAbsolute(cleanPath(path)) <=> IsAbsolute(path)
         /\ Components(cleanPath(path)) = Components(path)
         /\ cleanPath(cleanPath(path)) = cleanPath(path)
<1>1. /\ IsAbsolute(path) \in BOOLEAN
      /\ Len(path) \in 0 .. Len(path)
  <2>1. IsAbsolute(path) \in BOOLEAN
    BY DEF IsAbsolute
  <2>2. Len(path) \in 0 .. Len(path)
    OBVIOUS
  <2> QED
    BY <2>1, <2>2
<1>2. /\ Components(path) \in Seq(S)
      /\ CleanStack(IsAbsolute(path), Components(path))
  BY <1>1, StacksClean DEF Components
<1>3. /\ cleanPath(path) \in Seq(S) \ {<<>>}
      /\ IsAbsolute(cleanPath(path)) <=> IsAbsolute(path)
      /\ Stacks(IsAbsolute(path), cleanPath(path))[Len(cleanPath(path))]
           = Components(path)
  BY <1>1, <1>2, ComponentsOfJoined DEF cleanPath
<1>4. IsAbsolute(cleanPath(path)) = IsAbsolute(path)
  BY <1>3 DEF IsAbsolute
<1>5. Components(cleanPath(path)) = Components(path)
  BY <1>3, <1>4 DEF Components
<1> QED
  BY <1>3, <1>4, <1>5 DEF cleanPath

-----------------------------------------------------------------------------
(***************************************************************************)
(* cleanPath against the reference.  The stack after n parts holds parts   *)
(* of the path: as many positions, in order, whose names none of the n     *)
(* parts takes back and, in a relative path, whose ".." take nothing back. *)
(***************************************************************************)
LEMMA PartKinds ==
  ASSUME NEW part
  PROVE  /\ IsName(part) <=> part \notin Void \cup Up
         /\ part = ".." <=> part \in Up
         /\ part \in Up => part \notin Void
  BY DEF IsName, Void, Up, EmptyPart, DotPart

\* A part more, and how deep it leads.
LEMMA DepthStep ==
  ASSUME NEW path, NEW n \in Nat
  PROVE  /\ Depth(path, n) \in Int
         /\ Depth(path, n + 1) =
              IF path[n + 1] \in Void THEN Depth(path, n)
              ELSE IF path[n + 1] \in Up THEN Depth(path, n) - 1
                   ELSE Depth(path, n) + 1
<1> DEFINE names(k) == {m \in 1 .. k : IsName(path[m])}
           ups(k)   == {m \in 1 .. k : path[m] = ".."}
<1>1. /\ n + 1 \notin 1 .. n
      /\ 1 .. n + 1 = (1 .. n) \cup {n + 1}
  OBVIOUS
<1>2. IsFiniteSet(names(n)) /\ IsFiniteSet(ups(n))
  <2>1. IsFiniteSet(1 .. n)
    BY FS_Interval
  <2>2. names(n) \in SUBSET (1 .. n) /\ ups(n) \in SUBSET (1 .. n)
    OBVIOUS
  <2> QED
    BY <2>1, <2>2, FS_Subset
<1>3. Cardinality(names(n)) \in Nat /\ Cardinality(ups(n)) \in Nat
  BY <1>2, FS_CardinalityType
<1>4. /\ n + 1 \notin names(n) /\ n + 1 \notin ups(n)
      /\ names(n + 1) = IF IsName(path[n + 1]) THEN names(n) \cup {n + 1}
                                               ELSE names(n)
      /\ ups(n + 1) = IF path[n + 1] = ".." THEN ups(n) \cup {n + 1}
                                            ELSE ups(n)
  BY <1>1
<1>5. /\ Depth(path, n) = Cardinality(names(n)) - Cardinality(ups(n))
      /\ Depth(path, n + 1) = Cardinality(names(n + 1)) - Cardinality(ups(n + 1))
  BY DEF Depth
<1> HIDE DEF names, ups
<1>6. /\ Cardinality(names(n + 1)) = Cardinality(names(n))
           + (IF IsName(path[n + 1]) THEN 1 ELSE 0)
      /\ Cardinality(ups(n + 1)) = Cardinality(ups(n))
           + (IF path[n + 1] = ".." THEN 1 ELSE 0)
  <2>1. /\ Cardinality(names(n) \cup {n + 1}) = Cardinality(names(n)) + 1
        /\ Cardinality(ups(n) \cup {n + 1}) = Cardinality(ups(n)) + 1
    BY <1>2, <1>4, FS_AddElement
  <2> QED
    BY <1>3, <1>4, <2>1
<1> QED
  BY <1>3, <1>5, <1>6, PartKinds

\* What it means that a ".." takes back a name, in terms of the parts.
LEMMA TakesBackParts ==
  ASSUME NEW path, NEW i, NEW j
  PROVE  TakesBack(path, i, j)
           <=> /\ i < j /\ path[i] \notin Void \cup Up /\ path[j] \in Up
               /\ Depth(path, j) = Depth(path, i - 1)
               /\ \A n \in i .. j - 1 : Depth(path, n) > Depth(path, j)
  BY PartKinds DEF TakesBack

(***************************************************************************)
(* The positions p of the parts in a stack after n parts.  The names among *)
(* them are open: since then the path has been as deep as behind the name. *)
(* The next position was taken when it was just as deep again, and so is   *)
(* the end of the n parts behind the last.                                 *)
(***************************************************************************)
Places(path, stack, p, n) ==
  /\ p \in Seq(Nat)
  /\ Len(p) = Len(stack)
  /\ \A k \in 1 .. Len(p) :
       p[k] \in 1 .. n /\ path[p[k]] = stack[k] /\ stack[k] \notin Void
  /\ \A k, l \in 1 .. Len(p) : k < l => p[k] < p[l]

Open(path, p, n) ==
  /\ \A k \in 1 .. Len(p) : path[p[k]] \notin Up =>
       /\ \A m \in p[k] .. n : Depth(path, m) >= Depth(path, p[k])
       /\ k < Len(p) => Depth(path, p[k + 1] - 1) = Depth(path, p[k])
       /\ k = Len(p) => Depth(path, n) = Depth(path, p[k])
  /\ \A k, l \in 1 .. Len(p) : k < l /\ path[p[l]] \in Up => path[p[k]] \in Up

\* The other names are taken back, and the other ".." of a relative path take
\* a name back, but none of those do.
Left(absolute, path, p, n) ==
  /\ \A i \in 1 .. n : path[i] \notin Void \cup Up =>
       \/ \E k \in 1 .. Len(p) : p[k] = i
       \/ \E j \in 1 .. n : TakesBack(path, i, j)
  /\ ~absolute =>
       \A j \in 1 .. n : path[j] \in Up =>
         IF \E k \in 1 .. Len(p) : p[k] = j
         THEN \A i \in 1 .. n : ~TakesBack(path, i, j)
         ELSE \E i \in 1 .. n : TakesBack(path, i, j)

Placed(absolute, path, stack, n) ==
  \E p : /\ Places(path, stack, p, n)
         /\ Open(path, p, n)
         /\ Left(absolute, path, p, n)

LEMMA OneMore ==
  ASSUME NEW k \in Int, NEW n \in Int, k <= n + 1
  PROVE  k .. n + 1 = (k .. n) \cup {n + 1}
  OBVIOUS

\* The places in terms of numbers, for the steps that follow.
LEMMA PlacesFacts ==
  ASSUME NEW path, NEW stack, NEW p, NEW n \in Nat, Places(path, stack, p, n)
  PROVE  /\ p \in Seq(Nat) /\ Len(p) = Len(stack) /\ Len(p) \in Nat
         /\ \A k \in 1 .. Len(p) :
              /\ p[k] \in Nat /\ 1 <= p[k] /\ p[k] <= n
              /\ path[p[k]] = stack[k] /\ stack[k] \notin Void
         /\ \A k, l \in 1 .. Len(p) : k < l => p[k] < p[l]
  BY DEF Places

\* What a ".." takes back is before it.
LEMMA TakenBefore ==
  ASSUME NEW path, NEW n \in Nat, NEW j \in 1 .. n
  PROVE  (\E i \in 1 .. n + 1 : TakesBack(path, i, j))
           <=> \E i \in 1 .. n : TakesBack(path, i, j)
<1>1. ~TakesBack(path, n + 1, j)
  BY DEF TakesBack
<1>2. 1 .. n + 1 = (1 .. n) \cup {n + 1}
  OBVIOUS
<1> QED
  BY <1>1, <1>2

\* A part without a meaning leaves everything as it is.
LEMMA VoidPlaced ==
  ASSUME NEW absolute, NEW path, NEW stack, NEW n \in Nat,
         path[n + 1] \in Void, Placed(absolute, path, stack, n)
  PROVE  Placed(absolute, path, stack, n + 1)
<1>1. PICK p : /\ Places(path, stack, p, n) /\ Open(path, p, n)
               /\ Left(absolute, path, p, n)
  BY DEF Placed
<1>2. /\ Depth(path, n + 1) = Depth(path, n)
      /\ Depth(path, n) \in Int
  BY DepthStep
<1>3. path[n + 1] \notin Up
  BY PartKinds
<1>4. Places(path, stack, p, n + 1)
  BY <1>1 DEF Places
<1>5. Open(path, p, n + 1)
  <2>1. ASSUME NEW k \in 1 .. Len(p), path[p[k]] \notin Up,
               NEW m \in p[k] .. n + 1
        PROVE  Depth(path, m) >= Depth(path, p[k])
    <3>1. p[k] \in Nat /\ p[k] <= n
      BY <1>1, PlacesFacts
    <3>2. m \in p[k] .. n \/ m = n + 1
      BY <3>1
    <3>3. n \in p[k] .. n
      BY <3>1
    <3> QED
      BY <1>1, <1>2, <2>1, <3>2, <3>3 DEF Open
  <2> QED
    BY <1>1, <1>2, <2>1 DEF Open
<1>6. Left(absolute, path, p, n + 1)
  <2>1. ASSUME NEW i \in 1 .. n + 1, path[i] \notin Void \cup Up
        PROVE  \/ \E k \in 1 .. Len(p) : p[k] = i
               \/ \E j \in 1 .. n + 1 : TakesBack(path, i, j)
    <3>1. i \in 1 .. n
      BY <2>1
    <3>2. 1 .. n \subseteq 1 .. n + 1
      OBVIOUS
    <3> QED
      BY <1>1, <2>1, <3>1, <3>2 DEF Left
  <2>2. ASSUME ~absolute, NEW j \in 1 .. n + 1, path[j] \in Up
        PROVE  IF \E k \in 1 .. Len(p) : p[k] = j
               THEN \A i \in 1 .. n + 1 : ~TakesBack(path, i, j)
               ELSE \E i \in 1 .. n + 1 : TakesBack(path, i, j)
    <3>1. j \in 1 .. n
      BY <1>3, <2>2
    <3> QED
      BY <1>1, <2>2, <3>1, TakenBefore DEF Left
  <2> QED
    BY <2>1, <2>2 DEF Left
<1> QED
  BY <1>4, <1>5, <1>6 DEF Placed

\* A name is put on top.
LEMMA NamePlaced ==
  ASSUME NEW S, NEW absolute, NEW path, NEW stack \in Seq(S), NEW n \in Nat,
         path[n + 1] \in S \ (Void \cup Up),
         Placed(absolute, path, stack, n)
  PROVE  Placed(absolute, path, Append(stack, path[n + 1]), n + 1)
<1>1. PICK p : /\ Places(path, stack, p, n) /\ Open(path, p, n)
               /\ Left(absolute, path, p, n)
  BY DEF Placed
<1> DEFINE q == Append(p, n + 1)
           top == Len(p) + 1
<1>2. /\ Depth(path, n + 1) = Depth(path, n) + 1
      /\ Depth(path, n) \in Int
  BY DepthStep
<1>3. /\ p \in Seq(Nat) /\ Len(p) = Len(stack) /\ Len(p) \in Nat
      /\ \A k \in 1 .. Len(p) : /\ p[k] \in Nat /\ 1 <= p[k] /\ p[k] <= n
                                /\ path[p[k]] = stack[k] /\ stack[k] \notin Void
      /\ \A k, l \in 1 .. Len(p) : k < l => p[k] < p[l]
  BY <1>1, PlacesFacts
<1>4. /\ q \in Seq(Nat) /\ Len(q) = top /\ q[top] = n + 1
      /\ \A k \in 1 .. Len(p) : q[k] = p[k]
      /\ top - 1 \in Nat
      /\ \A k \in 1 .. top : k \in 1 .. Len(p) \/ k = top
  BY <1>3, AppendProperties
<1>5. /\ Len(Append(stack, path[n + 1])) = top
      /\ Append(stack, path[n + 1])[top] = path[n + 1]
      /\ \A k \in 1 .. Len(p) : Append(stack, path[n + 1])[k] = stack[k]
  BY <1>3, AppendProperties
<1> HIDE DEF q
<1>6. Places(path, Append(stack, path[n + 1]), q, n + 1)
  <2>1. ASSUME NEW k \in 1 .. top
        PROVE  /\ q[k] \in 1 .. n + 1
               /\ path[q[k]] = Append(stack, path[n + 1])[k]
               /\ Append(stack, path[n + 1])[k] \notin Void
    <3>1. CASE k = top
      BY <1>4, <1>5, <3>1
    <3>2. CASE k \in 1 .. Len(p)
      <4>1. q[k] = p[k] /\ Append(stack, path[n + 1])[k] = stack[k]
        BY <1>4, <1>5, <3>2
      <4>2. /\ p[k] \in Nat /\ 1 <= p[k] /\ p[k] <= n
            /\ path[p[k]] = stack[k] /\ stack[k] \notin Void
        BY <1>3, <3>2
      <4>3. p[k] \in 1 .. n + 1
        BY <4>2
      <4> QED
        BY <4>1, <4>2, <4>3
    <3> QED
      BY <1>4, <3>1, <3>2
  <2>2. ASSUME NEW k \in 1 .. top, NEW l \in 1 .. top, k < l
        PROVE  q[k] < q[l]
    <3>1. k \in 1 .. Len(p)
      BY <1>3, <2>2
    <3>2. CASE l = top
      <4>1. q[k] = p[k] /\ q[l] = n + 1
        BY <1>4, <3>1, <3>2
      <4>2. p[k] \in Nat /\ p[k] <= n
        BY <1>3, <3>1
      <4> QED
        BY <4>1, <4>2
    <3>3. CASE l \in 1 .. Len(p)
      BY <1>3, <1>4, <2>2, <3>1, <3>3
    <3> QED
      BY <1>4, <3>2, <3>3
  <2> QED
    BY <1>4, <1>5, <2>1, <2>2 DEF Places
<1>7. Open(path, q, n + 1)
  <2>1. ASSUME NEW k \in 1 .. Len(p), path[p[k]] \notin Up
        PROVE  /\ \A m \in p[k] .. n + 1 : Depth(path, m) >= Depth(path, p[k])
               /\ Depth(path, q[k + 1] - 1) = Depth(path, p[k])
    <3>1. /\ \A m \in p[k] .. n : Depth(path, m) >= Depth(path, p[k])
          /\ k < Len(p) => Depth(path, p[k + 1] - 1) = Depth(path, p[k])
          /\ k = Len(p) => Depth(path, n) = Depth(path, p[k])
      BY <1>1, <2>1 DEF Open
    <3>2. n \in p[k] .. n /\ p[k] .. n + 1 = (p[k] .. n) \cup {n + 1}
      <4>1. p[k] \in Nat /\ p[k] <= n
        BY <1>3
      <4> QED
        BY <4>1, OneMore
    <3>3. Depth(path, p[k]) \in Int
      <4>1. p[k] \in Nat
        BY <1>3
      <4> QED
        BY <4>1, DepthStep
    <3>4. ASSUME NEW m \in p[k] .. n + 1
          PROVE  Depth(path, m) >= Depth(path, p[k])
      BY <1>2, <3>1, <3>2, <3>3
    <3>5. Depth(path, q[k + 1] - 1) = Depth(path, p[k])
      <4>1. CASE k = Len(p)
        <5>1. q[k + 1] - 1 = n
          BY <1>4, <4>1
        <5> QED
          BY <3>1, <4>1, <5>1
      <4>2. CASE k # Len(p)
        <5>1. k < Len(p) /\ k + 1 \in 1 .. Len(p)
          BY <1>3, <4>2
        <5> QED
          BY <1>4, <3>1, <5>1
      <4> QED
        BY <4>1, <4>2
    <3> QED
      BY <3>4, <3>5
  <2>2. ASSUME NEW k \in 1 .. top, path[q[k]] \notin Up
        PROVE  /\ \A m \in q[k] .. n + 1 : Depth(path, m) >= Depth(path, q[k])
               /\ k < top => Depth(path, q[k + 1] - 1) = Depth(path, q[k])
               /\ k = top => Depth(path, n + 1) = Depth(path, q[k])
    <3>1. CASE k = top
      <4>1. \A m \in n + 1 .. n + 1 : m = n + 1
        OBVIOUS
      <4> QED
        BY <1>2, <1>4, <3>1, <4>1
    <3>2. CASE k \in 1 .. Len(p)
      <4>1. k < top /\ k # top
        BY <3>2
      <4> QED
        BY <1>4, <2>1, <2>2, <3>2, <4>1
    <3> QED
      BY <1>4, <3>1, <3>2
  <2>3. ASSUME NEW k \in 1 .. top, NEW l \in 1 .. top, k < l,
               path[q[l]] \in Up
        PROVE  path[q[k]] \in Up
    <3>1. l # top
      BY <1>4, <2>3
    <3>2. k \in 1 .. Len(p) /\ l \in 1 .. Len(p)
      <4>1. Len(p) \in Nat
        BY <1>3
      <4> QED
        BY <2>3, <3>1, <4>1
    <3> QED
      BY <1>1, <1>4, <2>3, <3>2 DEF Open
  <2> QED
    BY <1>4, <2>2, <2>3 DEF Open
<1>8. Left(absolute, path, q, n + 1)
  <2>1. ASSUME NEW i \in 1 .. n
        PROVE  (\E k \in 1 .. top : q[k] = i) <=> \E k \in 1 .. Len(p) : p[k] = i
    <3>1. i # n + 1 /\ 1 .. top = (1 .. Len(p)) \cup {top}
      <4>1. Len(p) \in Nat
        BY <1>3
      <4> QED
        BY <4>1, OneMore
    <3> QED
      BY <1>4, <3>1
  <2>2. ASSUME NEW i \in 1 .. n + 1, path[i] \notin Void \cup Up
        PROVE  \/ \E k \in 1 .. top : q[k] = i
               \/ \E j \in 1 .. n + 1 : TakesBack(path, i, j)
    <3>1. CASE i = n + 1
      <4>1. top \in 1 .. top
        BY <1>3
      <4> QED
        BY <1>4, <3>1, <4>1
    <3>2. CASE i \in 1 .. n
      <4>1. 1 .. n \subseteq 1 .. n + 1
        OBVIOUS
      <4> QED
        BY <1>1, <2>1, <2>2, <3>2, <4>1 DEF Left
    <3> QED
      BY <3>1, <3>2
  <2>3. ASSUME ~absolute, NEW j \in 1 .. n + 1, path[j] \in Up
        PROVE  IF \E k \in 1 .. top : q[k] = j
               THEN \A i \in 1 .. n + 1 : ~TakesBack(path, i, j)
               ELSE \E i \in 1 .. n + 1 : TakesBack(path, i, j)
    <3>1. j \in 1 .. n
      BY <2>3
    <3> QED
      BY <1>1, <2>1, <2>3, <3>1, TakenBefore DEF Left
  <2> QED
    BY <1>4, <2>2, <2>3 DEF Left
<1> QED
  BY <1>6, <1>7, <1>8 DEF Placed

\* A ".." takes back the name on top: behind it the path is as deep again as
\* before the name, and has not been there since.
LEMMA TopTaken ==
  ASSUME NEW S, NEW absolute, NEW path, NEW stack \in Seq(S), NEW n \in Nat,
         path[n + 1] \in Up, stack # <<>>, Last(stack) \notin Up,
         Placed(absolute, path, stack, n)
  PROVE  Placed(absolute, path, Front(stack), n + 1)
<1>1. PICK p : /\ Places(path, stack, p, n) /\ Open(path, p, n)
               /\ Left(absolute, path, p, n)
  BY DEF Placed
<1> DEFINE q    == Front(p)
           top  == Len(p)
           name == p[top]
<1>2. /\ Depth(path, n + 1) = Depth(path, n) - 1
      /\ Depth(path, n) \in Int
  BY DepthStep, PartKinds
<1>3. /\ p \in Seq(Nat) /\ top = Len(stack) /\ top \in Nat \ {0}
      /\ \A k \in 1 .. top : /\ p[k] \in Nat /\ 1 <= p[k] /\ p[k] <= n
                             /\ path[p[k]] = stack[k] /\ stack[k] \notin Void
      /\ \A k, l \in 1 .. top : k < l => p[k] < p[l]
  <2>1. Len(stack) \in Nat \ {0}
    BY FrontFacts
  <2> QED
    BY <1>1, <2>1, PlacesFacts
<1>4. /\ q \in Seq(Nat) /\ Len(q) = top - 1
      /\ \A k \in 1 .. top - 1 : q[k] = p[k]
      /\ Len(Front(stack)) = top - 1
      /\ \A k \in 1 .. top - 1 : Front(stack)[k] = stack[k]
      /\ top - 1 \in Nat /\ top \in 1 .. top
      /\ \A k \in 1 .. top - 1 : k \in 1 .. top /\ k < top
  <2>1. p # <<>>
    BY <1>3
  <2> QED
    BY <1>3, <2>1, FrontFacts
<1>5. /\ name \in Nat /\ 1 <= name /\ name <= n
      /\ path[name] \notin Void \cup Up
      /\ \A k \in 1 .. top - 1 : p[k] < name
  <2>1. path[name] = Last(stack)
    BY <1>3, <1>4 DEF Last
  <2> QED
    BY <1>3, <1>4, <2>1
<1>6. /\ \A m \in name .. n : Depth(path, m) >= Depth(path, name)
      /\ Depth(path, n) = Depth(path, name)
  BY <1>1, <1>4, <1>5 DEF Open
<1>7. /\ Depth(path, name) \in Int
      /\ Depth(path, name - 1) = Depth(path, name) - 1
  <2>1. name - 1 \in Nat /\ (name - 1) + 1 = name
    BY <1>5
  <2>2. /\ Depth(path, name - 1) \in Int
        /\ Depth(path, name) = Depth(path, name - 1) + 1
    BY <1>5, <2>1, DepthStep
  <2> QED
    BY <2>2
<1>8. TakesBack(path, name, n + 1)
  <2>1. Depth(path, n + 1) = Depth(path, name - 1)
    BY <1>2, <1>6, <1>7
  <2>2. ASSUME NEW m \in name .. (n + 1) - 1
        PROVE  Depth(path, m) > Depth(path, n + 1)
    <3>1. m \in name .. n /\ m \in Nat
      BY <1>5
    <3>2. Depth(path, m) \in Int
      BY <3>1, DepthStep
    <3> QED
      BY <1>2, <1>6, <1>7, <3>1, <3>2
  <2>3. name < n + 1
    BY <1>5
  <2> QED
    BY <1>5, <2>1, <2>2, <2>3, TakesBackParts
<1> HIDE DEF q, name
<1>9. Places(path, Front(stack), q, n + 1)
  <2>1. ASSUME NEW k \in 1 .. top - 1
        PROVE  /\ q[k] \in 1 .. n + 1 /\ path[q[k]] = Front(stack)[k]
               /\ Front(stack)[k] \notin Void
    <3>1. q[k] = p[k] /\ Front(stack)[k] = stack[k] /\ k \in 1 .. top
      BY <1>4
    <3>2. /\ p[k] \in Nat /\ 1 <= p[k] /\ p[k] <= n
          /\ path[p[k]] = stack[k] /\ stack[k] \notin Void
      BY <1>3, <3>1
    <3>3. p[k] \in 1 .. n + 1
      BY <3>2
    <3> QED
      BY <3>1, <3>2, <3>3
  <2>2. ASSUME NEW k \in 1 .. top - 1, NEW l \in 1 .. top - 1, k < l
        PROVE  q[k] < q[l]
    BY <1>3, <1>4, <2>2
  <2> QED
    BY <1>4, <2>1, <2>2 DEF Places
<1>10. Open(path, q, n + 1)
  <2>1. ASSUME NEW k \in 1 .. top - 1, path[q[k]] \notin Up
        PROVE  /\ \A m \in q[k] .. n + 1 : Depth(path, m) >= Depth(path, q[k])
               /\ k < top - 1 => Depth(path, q[k + 1] - 1) = Depth(path, q[k])
               /\ k = top - 1 => Depth(path, n + 1) = Depth(path, q[k])
    <3>1. /\ q[k] = p[k] /\ p[k] \in Nat /\ p[k] < name /\ k < top
          /\ k \in 1 .. top
      BY <1>3, <1>4, <1>5
    <3>2. /\ \A m \in p[k] .. n : Depth(path, m) >= Depth(path, p[k])
          /\ Depth(path, p[k + 1] - 1) = Depth(path, p[k])
      BY <1>1, <2>1, <3>1 DEF Open
    <3>3. Depth(path, p[k]) \in Int
      BY <3>1, DepthStep
    <3>4. name - 1 \in p[k] .. n
      BY <1>5, <3>1
    <3>5. Depth(path, n + 1) >= Depth(path, p[k])
      BY <1>2, <1>6, <1>7, <3>2, <3>3, <3>4
    <3>6. p[k] .. n + 1 = (p[k] .. n) \cup {n + 1}
      <4>1. p[k] \in Nat /\ p[k] <= n + 1
        BY <1>5, <3>1
      <4> QED
        BY <4>1, OneMore
    <3>7. k < top - 1 => q[k + 1] = p[k + 1]
      BY <1>4
    <3>8. k = top - 1 => p[k + 1] = name
      BY DEF name
    <3>9. k = top - 1 => Depth(path, n + 1) = Depth(path, p[k])
      BY <1>2, <1>6, <1>7, <3>2, <3>8
    <3> QED
      BY <3>1, <3>2, <3>5, <3>6, <3>7, <3>9
  <2>2. ASSUME NEW k \in 1 .. top - 1, NEW l \in 1 .. top - 1, k < l,
               path[q[l]] \in Up
        PROVE  path[q[k]] \in Up
    BY <1>1, <1>4, <2>2 DEF Open
  <2> QED
    BY <1>4, <2>1, <2>2 DEF Open
<1>11. Left(absolute, path, q, n + 1)
  <2>1. ASSUME NEW i \in 1 .. n, i # name
        PROVE  (\E k \in 1 .. top - 1 : q[k] = i) <=> \E k \in 1 .. top : p[k] = i
    <3>1. 1 .. top = (1 .. top - 1) \cup {top}
      BY <1>3
    <3> QED
      BY <1>4, <2>1, <3>1 DEF name
  <2>2. ASSUME NEW i \in 1 .. n + 1, path[i] \notin Void \cup Up
        PROVE  \/ \E k \in 1 .. top - 1 : q[k] = i
               \/ \E j \in 1 .. n + 1 : TakesBack(path, i, j)
    <3>1. i \in 1 .. n /\ n + 1 \in 1 .. n + 1 /\ 1 .. n \subseteq 1 .. n + 1
      BY <2>2
    <3>2. CASE i = name
      BY <1>8, <3>1, <3>2
    <3>3. CASE i # name
      BY <1>1, <2>1, <2>2, <3>1, <3>3 DEF Left
    <3> QED
      BY <3>2, <3>3
  <2>3. ASSUME ~absolute, NEW j \in 1 .. n + 1, path[j] \in Up
        PROVE  IF \E k \in 1 .. top - 1 : q[k] = j
               THEN \A i \in 1 .. n + 1 : ~TakesBack(path, i, j)
               ELSE \E i \in 1 .. n + 1 : TakesBack(path, i, j)
    <3>1. j # name
      BY <1>5, <2>3
    <3>2. CASE j = n + 1
      <4>1. ASSUME NEW k \in 1 .. top - 1 PROVE q[k] # n + 1
        <5>1. q[k] = p[k] /\ k \in 1 .. top
          BY <1>4
        <5>2. p[k] \in Nat /\ p[k] <= n
          BY <1>3, <5>1
        <5> QED
          BY <5>1, <5>2
      <4>2. name \in 1 .. n + 1
        BY <1>5
      <4> QED
        BY <1>8, <3>2, <4>1, <4>2
    <3>3. CASE j \in 1 .. n
      BY <1>1, <2>1, <2>3, <3>1, <3>3, TakenBefore DEF Left
    <3> QED
      BY <3>2, <3>3
  <2> QED
    BY <1>4, <2>2, <2>3 DEF Left
<1> QED
  BY <1>9, <1>10, <1>11 DEF Placed

\* In an absolute path a ".." above the root is dropped.
LEMMA UpDropped ==
  ASSUME NEW path, NEW n \in Nat, path[n + 1] \in Up,
         Placed(TRUE, path, <<>>, n)
  PROVE  Placed(TRUE, path, <<>>, n + 1)
<1>1. PICK p : Places(path, <<>>, p, n) /\ Left(TRUE, path, p, n)
  BY DEF Placed
<1>2. p \in Seq(Nat) /\ Len(p) = 0 /\ 1 .. 0 = {}
  BY <1>1, PlacesFacts
<1>3. Places(path, <<>>, p, n + 1) /\ Open(path, p, n + 1)
  BY <1>2 DEF Places, Open
<1>4. Left(TRUE, path, p, n + 1)
  <2>1. ASSUME NEW i \in 1 .. n + 1, path[i] \notin Void \cup Up
        PROVE  \E j \in 1 .. n + 1 : TakesBack(path, i, j)
    <3>1. i \in 1 .. n /\ 1 .. n \subseteq 1 .. n + 1
      BY <2>1
    <3> QED
      BY <1>1, <1>2, <2>1, <3>1 DEF Left
  <2> QED
    BY <2>1 DEF Left
<1> QED
  BY <1>3, <1>4 DEF Placed

\* In a relative path a ".." on top of others, or on none, stays: all names
\* before it were taken back, each by a ".." behind which the path was less
\* deep than it would have to be for this one.
LEMMA UpPlaced ==
  ASSUME NEW S, NEW path, NEW stack \in Seq(S), NEW n \in Nat,
         path[n + 1] \in Up, path[n + 1] \in S,
         stack = <<>> \/ Last(stack) \in Up,
         Placed(FALSE, path, stack, n)
  PROVE  Placed(FALSE, path, Append(stack, path[n + 1]), n + 1)
<1>1. PICK p : /\ Places(path, stack, p, n) /\ Open(path, p, n)
               /\ Left(FALSE, path, p, n)
  BY DEF Placed
<1> DEFINE q == Append(p, n + 1)
           top == Len(p) + 1
<1>2. /\ p \in Seq(Nat) /\ Len(p) = Len(stack) /\ Len(p) \in Nat
      /\ \A k \in 1 .. Len(p) : /\ p[k] \in Nat /\ 1 <= p[k] /\ p[k] <= n
                                /\ path[p[k]] = stack[k] /\ stack[k] \notin Void
      /\ \A k, l \in 1 .. Len(p) : k < l => p[k] < p[l]
  BY <1>1, PlacesFacts
<1>3. ASSUME NEW k \in 1 .. Len(p) PROVE path[p[k]] \in Up
  <2>1. Len(p) \in 1 .. Len(p) /\ stack # <<>>
    BY <1>2
  <2>2. path[p[Len(p)]] \in Up
    BY <1>2, <2>1 DEF Last
  <2>3. k = Len(p) \/ k < Len(p)
    BY <1>2
  <2> QED
    BY <1>1, <2>1, <2>2, <2>3 DEF Open
<1>4. /\ q \in Seq(Nat) /\ Len(q) = top /\ q[top] = n + 1
      /\ \A k \in 1 .. Len(p) : q[k] = p[k]
      /\ \A k \in 1 .. top : k \in 1 .. Len(p) \/ k = top
  BY <1>2, AppendProperties
<1>5. /\ Len(Append(stack, path[n + 1])) = top
      /\ Append(stack, path[n + 1])[top] = path[n + 1]
      /\ \A k \in 1 .. Len(p) : Append(stack, path[n + 1])[k] = stack[k]
  BY <1>2, AppendProperties
<1> HIDE DEF q
<1>6. Places(path, Append(stack, path[n + 1]), q, n + 1)
  <2>1. ASSUME NEW k \in 1 .. top
        PROVE  /\ q[k] \in 1 .. n + 1
               /\ path[q[k]] = Append(stack, path[n + 1])[k]
               /\ Append(stack, path[n + 1])[k] \notin Void
    <3>1. CASE k = top
      BY <1>4, <1>5, <3>1, PartKinds
    <3>2. CASE k \in 1 .. Len(p)
      BY <1>2, <1>4, <1>5, <3>2
    <3> QED
      BY <1>4, <3>1, <3>2
  <2>2. ASSUME NEW k \in 1 .. top, NEW l \in 1 .. top, k < l
        PROVE  q[k] < q[l]
    <3>1. k \in 1 .. Len(p)
      BY <1>2, <2>2
    <3>2. CASE l = top
      <4>1. q[k] = p[k] /\ q[l] = n + 1
        BY <1>4, <3>1, <3>2
      <4>2. p[k] \in Nat /\ p[k] <= n
        BY <1>2, <3>1
      <4> QED
        BY <4>1, <4>2
    <3>3. CASE l \in 1 .. Len(p)
      BY <1>2, <1>4, <2>2, <3>1, <3>3
    <3> QED
      BY <1>4, <3>2, <3>3
  <2> QED
    BY <1>4, <1>5, <2>1, <2>2 DEF Places
<1>7. Open(path, q, n + 1)
  <2>1. ASSUME NEW k \in 1 .. top PROVE path[q[k]] \in Up
    BY <1>3, <1>4
  <2> QED
    BY <1>4, <2>1 DEF Open
<1>8. ASSUME NEW i \in 1 .. n PROVE ~TakesBack(path, i, n + 1)
  <2> SUFFICES ASSUME TakesBack(path, i, n + 1) PROVE FALSE
    OBVIOUS
  <2>1. /\ path[i] \notin Void \cup Up
        /\ Depth(path, n + 1) = Depth(path, i - 1)
        /\ \A m \in i .. (n + 1) - 1 : Depth(path, m) > Depth(path, n + 1)
    BY TakesBackParts
  <2>2. \A k \in 1 .. Len(p) : p[k] # i
    BY <1>3, <2>1
  <2>3. PICK j \in 1 .. n : TakesBack(path, i, j)
    BY <1>1, <2>1, <2>2 DEF Left
  <2>4. i < j /\ Depth(path, j) = Depth(path, i - 1)
    BY <2>3, TakesBackParts
  <2>5. j \in i .. (n + 1) - 1
    BY <2>4
  <2>6. Depth(path, j) \in Int
    BY DepthStep
  <2> QED
    BY <2>1, <2>4, <2>5, <2>6
<1>9. Left(FALSE, path, q, n + 1)
  <2>1. ASSUME NEW i \in 1 .. n
        PROVE  (\E k \in 1 .. top : q[k] = i) <=> \E k \in 1 .. Len(p) : p[k] = i
    <3>1. i # n + 1 /\ 1 .. top = (1 .. Len(p)) \cup {top}
      <4>1. Len(p) \in Nat
        BY <1>2
      <4> QED
        BY <4>1, OneMore
    <3> QED
      BY <1>4, <3>1
  <2>2. ASSUME NEW i \in 1 .. n + 1, path[i] \notin Void \cup Up
        PROVE  \/ \E k \in 1 .. top : q[k] = i
               \/ \E j \in 1 .. n + 1 : TakesBack(path, i, j)
    <3>1. i \in 1 .. n /\ 1 .. n \subseteq 1 .. n + 1
      BY <2>2
    <3> QED
      BY <1>1, <2>1, <2>2, <3>1 DEF Left
  <2>3. ASSUME NEW j \in 1 .. n + 1, path[j] \in Up
        PROVE  IF \E k \in 1 .. top : q[k] = j
               THEN \A i \in 1 .. n + 1 : ~TakesBack(path, i, j)
               ELSE \E i \in 1 .. n + 1 : TakesBack(path, i, j)
    <3>1. CASE j = n + 1
      <4>1. top \in 1 .. top
        BY <1>2
      <4>2. ~TakesBack(path, n + 1, n + 1)
        BY DEF TakesBack
      <4>3. 1 .. n + 1 = (1 .. n) \cup {n + 1}
        OBVIOUS
      <4> QED
        BY <1>4, <1>8, <3>1, <4>1, <4>2, <4>3
    <3>2. CASE j \in 1 .. n
      BY <1>1, <2>1, <2>3, <3>2, TakenBefore DEF Left
    <3> QED
      BY <3>1, <3>2
  <2> QED
    BY <1>4, <2>2, <2>3 DEF Left
<1> QED
  BY <1>6, <1>7, <1>9 DEF Placed

\* One more part, whatever it is.
LEMMA PushPlaced ==
  ASSUME NEW S, NEW absolute \in BOOLEAN, NEW path, NEW stack \in Seq(S),
         NEW n \in Nat, path[n + 1] \in S, CleanStack(absolute, stack),
         Placed(absolute, path, stack, n)
  PROVE  Placed(absolute, path, Push(absolute, stack, path[n + 1]), n + 1)
<1> DEFINE part == path[n + 1]
<1>1. ASSUME absolute, stack # <<>> PROVE Last(stack) \notin Up
  <2>1. Len(stack) \in DOMAIN stack
    BY <1>1
  <2> QED
    BY <1>1, <2>1 DEF CleanStack, Piled, Barred, Last
<1>2. CASE part \in Void
  BY <1>2, PushParts, VoidPlaced
<1>3. CASE part \notin Void \cup Up
  <2>1. Push(absolute, stack, part) = Append(stack, part)
    BY <1>3, PushParts
  <2>2. Placed(absolute, path, Append(stack, part), n + 1)
    BY <1>3, NamePlaced
  <2> QED
    BY <2>1, <2>2
<1>4. CASE part \in Up /\ stack # <<>> /\ Last(stack) \notin Up
  <2>1. Push(absolute, stack, part) = Front(stack)
    <3>1. \/ part \in Up \ Barred(absolute)
          \/ part \in Up /\ part \in Barred(absolute)
      BY <1>4
    <3> QED
      BY <1>4, <3>1, PushParts
  <2>2. Placed(absolute, path, Front(stack), n + 1)
    BY <1>4, TopTaken
  <2> QED
    BY <2>1, <2>2
<1>5. CASE part \in Up /\ (stack = <<>> \/ Last(stack) \in Up)
  <2>1. CASE absolute
    <3>1. stack = <<>> /\ absolute = TRUE
      BY <1>1, <1>5, <2>1
    <3>2. Push(absolute, stack, part) = <<>>
      <4>1. part \in Barred(absolute)
        BY <1>5, <2>1 DEF Barred
      <4> QED
        BY <1>5, <3>1, <4>1, PushParts
    <3>3. Placed(TRUE, path, <<>>, n + 1)
      BY <1>5, <3>1, UpDropped
    <3> QED
      BY <3>1, <3>2, <3>3
  <2>2. CASE ~absolute
    <3>1. absolute = FALSE
      BY <2>2
    <3>2. Push(absolute, stack, part) = Append(stack, part)
      <4>1. part \in Up \ Barred(absolute)
        BY <1>5, <2>2, PartKinds DEF Barred
      <4> QED
        BY <1>5, <4>1, PushParts
    <3>3. Placed(FALSE, path, Append(stack, part), n + 1)
      BY <1>5, <3>1, UpPlaced
    <3> QED
      BY <3>1, <3>2, <3>3
  <2> QED
    BY <2>1, <2>2
<1> QED
  BY <1>2, <1>3, <1>4, <1>5

\* All the stacks hold what is left of the parts so far.
LEMMA StacksPlaced ==
  ASSUME NEW S, NEW absolute \in BOOLEAN, NEW path \in Seq(S)
  PROVE  \A n \in 0 .. Len(path) :
           Placed(absolute, path, Stacks(absolute, path)[n], n)
<1> DEFINE stack == Stacks(absolute, path)
           G == {n \in Nat : n <= Len(path) => Placed(absolute, path, stack[n], n)}
<1>0. Len(path) \in Nat /\ \A n \in 1 .. Len(path) : path[n] \in S
  OBVIOUS
<1>1. 0 \in G
  <2>1. stack[0] = <<>>
    BY StackRecursion
  <2>2. /\ <<>> \in Seq(Nat) /\ Len(<<>>) = 0 /\ 1 .. 0 = {}
    OBVIOUS
  <2>3. /\ Places(path, <<>>, <<>>, 0) /\ Open(path, <<>>, 0)
        /\ Left(absolute, path, <<>>, 0)
    BY <2>2 DEF Places, Open, Left
  <2> QED
    BY <2>1, <2>3 DEF Placed
<1>2. ASSUME NEW n \in Nat, n \in G PROVE n + 1 \in G
  <2> SUFFICES ASSUME n + 1 <= Len(path)
               PROVE  Placed(absolute, path, stack[n + 1], n + 1)
    OBVIOUS
  <2>1. /\ Placed(absolute, path, stack[n], n) /\ n \in 0 .. Len(path)
        /\ n + 1 \in 1 .. Len(path) /\ (n + 1) - 1 = n
    BY <1>0, <1>2
  <2>2. stack[n + 1] = Push(absolute, stack[n], path[n + 1])
    BY <2>1, StackRecursion
  <2>3. stack[n] \in Seq(S) /\ CleanStack(absolute, stack[n])
    BY <2>1, StacksClean
  <2> QED
    BY <1>0, <2>1, <2>2, <2>3, PushPlaced
<1>3. Nat \subseteq G
  <2> HIDE DEF G
  <2> QED
    BY <1>1, <1>2, Induction
<1> QED
  BY <1>0, <1>3

(***************************************************************************)
(* Places that ascend are the places of their set in order: the k-th has   *)
(* k of them up to it.                                                     *)
(***************************************************************************)
UpTo(p, k) == {p[l] : l \in 1 .. k}

Nth(left, k) == CHOOSE n \in left : Cardinality({m \in left : m <= n}) = k

LEMMA CountedPlaces ==
  ASSUME NEW p \in Seq(Nat),
         \A k, l \in 1 .. Len(p) : k < l => p[k] < p[l]
  PROVE  \A k \in 0 .. Len(p) : /\ IsFiniteSet(UpTo(p, k))
                                /\ Cardinality(UpTo(p, k)) = k
<1> DEFINE Good(k) == /\ IsFiniteSet(UpTo(p, k))
                      /\ Cardinality(UpTo(p, k)) = k
           G == {k \in Nat : k <= Len(p) => Good(k)}
<1>0. Len(p) \in Nat /\ \A k \in 1 .. Len(p) : p[k] \in Nat
  OBVIOUS
<1>1. 0 \in G
  <2>1. UpTo(p, 0) = {}
    BY DEF UpTo
  <2> QED
    BY <2>1, FS_EmptySet
<1>2. ASSUME NEW k \in Nat, k \in G PROVE k + 1 \in G
  <2> SUFFICES ASSUME k + 1 <= Len(p) PROVE Good(k + 1)
    OBVIOUS
  <2>1. Good(k) /\ k + 1 \in 1 .. Len(p)
    BY <1>0, <1>2
  <2>2. UpTo(p, k + 1) = UpTo(p, k) \cup {p[k + 1]}
    <3>1. 1 .. k + 1 = (1 .. k) \cup {k + 1}
      OBVIOUS
    <3> QED
      BY <3>1 DEF UpTo
  <2>3. p[k + 1] \notin UpTo(p, k)
    <3>1. ASSUME NEW l \in 1 .. k PROVE p[l] # p[k + 1]
      <4>1. l \in 1 .. Len(p) /\ l < k + 1
        BY <1>0, <2>1
      <4>2. p[l] < p[k + 1] /\ p[l] \in Nat /\ p[k + 1] \in Nat
        BY <1>0, <2>1, <4>1
      <4> QED
        BY <4>2
    <3> QED
      BY <3>1 DEF UpTo
  <2>4. /\ IsFiniteSet(UpTo(p, k) \cup {p[k + 1]})
        /\ Cardinality(UpTo(p, k) \cup {p[k + 1]}) = Cardinality(UpTo(p, k)) + 1
    BY <2>1, <2>3, FS_AddElement
  <2> QED
    BY <2>1, <2>2, <2>4
<1>3. Nat \subseteq G
  <2> HIDE DEF G
  <2> QED
    BY <1>1, <1>2, Induction
<1> QED
  BY <1>0, <1>3

LEMMA NthPlace ==
  ASSUME NEW p \in Seq(Nat), NEW left, left = UpTo(p, Len(p)),
         \A k, l \in 1 .. Len(p) : k < l => p[k] < p[l]
  PROVE  /\ Cardinality(left) = Len(p)
         /\ \A k \in 1 .. Len(p) : Nth(left, k) = p[k]
<1>1. Len(p) \in Nat /\ \A k \in 1 .. Len(p) : p[k] \in Nat
  OBVIOUS
<1>2. Cardinality(left) = Len(p)
  <2>1. Len(p) \in 0 .. Len(p)
    BY <1>1
  <2> QED
    BY <2>1, CountedPlaces
<1>3. ASSUME NEW k \in 1 .. Len(p)
      PROVE  Cardinality({m \in left : m <= p[k]}) = k
  <2>1. ASSUME NEW l \in 1 .. Len(p) PROVE p[l] <= p[k] <=> l \in 1 .. k
    <3>1. l < k \/ l = k \/ k < l
      BY <1>1
    <3> QED
      BY <1>1, <3>1
  <2>2. 1 .. k \subseteq 1 .. Len(p)
    BY <1>1
  <2>3. {m \in left : m <= p[k]} = UpTo(p, k)
    BY <2>1, <2>2 DEF UpTo
  <2>4. k \in 0 .. Len(p)
    BY <1>1
  <2> QED
    BY <2>3, <2>4, CountedPlaces
<1>4. ASSUME NEW k \in 1 .. Len(p) PROVE Nth(left, k) = p[k]
  <2> DEFINE nth == Nth(left, k)
  <2>1. p[k] \in left
    BY DEF UpTo
  <2>2. nth \in left /\ Cardinality({m \in left : m <= nth}) = k
    BY <1>3, <2>1 DEF Nth
  <2> HIDE DEF nth
  <2>3. PICK l \in 1 .. Len(p) : nth = p[l]
    BY <2>2 DEF UpTo
  <2>4. l = k
    BY <1>3, <2>2, <2>3
  <2> QED
    BY <2>3, <2>4 DEF nth
<1> QED
  BY <1>2, <1>4

(***************************************************************************)
(* cleanPath returns the reference path, for every path.                   *)
(***************************************************************************)
LEMMA WhatRemains ==
  ASSUME NEW S, NEW path \in Seq(S), NEW stack, NEW p,
         CleanStack(IsAbsolute(path), stack), stack \in Seq(S),
         Places(path, stack, p, Len(path)), Open(path, p, Len(path)),
         Left(IsAbsolute(path), path, p, Len(path))
  PROVE  {n \in DOMAIN path : Remains(path, n)} = UpTo(p, Len(p))
<1> DEFINE last == Len(path)
<1>0. last \in Nat /\ DOMAIN path = 1 .. last
  OBVIOUS
<1>1. /\ p \in Seq(Nat) /\ Len(p) = Len(stack) /\ Len(p) \in Nat
      /\ \A k \in 1 .. Len(p) : /\ p[k] \in Nat /\ 1 <= p[k] /\ p[k] <= last
                                /\ path[p[k]] = stack[k] /\ stack[k] \notin Void
      /\ \A k, l \in 1 .. Len(p) : k < l => p[k] < p[l]
  BY <1>0, PlacesFacts
<1>2. ASSUME NEW n \in 1 .. last
      PROVE  Remains(path, n)
               <=> \/ /\ path[n] \notin Void \cup Up
                      /\ \A j \in 1 .. last : ~TakesBack(path, n, j)
                   \/ /\ path[n] \in Up /\ ~IsAbsolute(path)
                      /\ \A i \in 1 .. last : ~TakesBack(path, i, n)
  BY <1>0, PartKinds DEF Remains
<1>3. ASSUME NEW n \in 1 .. last, Remains(path, n)
      PROVE  \E k \in 1 .. Len(p) : p[k] = n
  BY <1>2, <1>3 DEF Left
<1>4. ASSUME NEW k \in 1 .. Len(p) PROVE Remains(path, p[k])
  <2>1. p[k] \in 1 .. last /\ path[p[k]] \notin Void
    BY <1>0, <1>1
  <2>2. CASE path[p[k]] \notin Up
    <3>1. ASSUME NEW j \in 1 .. last, TakesBack(path, p[k], j) PROVE FALSE
      <4>1. p[k] < j /\ Depth(path, j) = Depth(path, p[k] - 1)
        BY <3>1, TakesBackParts
      <4>2. j \in p[k] .. last
        BY <1>1, <4>1
      <4>3. Depth(path, j) >= Depth(path, p[k])
        BY <2>2, <4>2 DEF Open
      <4>4. p[k] - 1 \in Nat /\ (p[k] - 1) + 1 = p[k]
        BY <1>1
      <4>5. /\ Depth(path, p[k] - 1) \in Int
            /\ Depth(path, p[k]) = Depth(path, p[k] - 1) + 1
        BY <2>1, <2>2, <4>4, DepthStep
      <4> QED
        BY <4>1, <4>3, <4>5
    <3> QED
      BY <1>2, <2>1, <2>2, <3>1
  <2>3. CASE path[p[k]] \in Up
    <3>1. ~IsAbsolute(path)
      <4>1. k \in DOMAIN stack
        BY <1>1
      <4> QED
        BY <1>1, <2>3, <4>1 DEF CleanStack, Piled, Barred
    <3>2. \A i \in 1 .. last : ~TakesBack(path, i, p[k])
      BY <2>1, <2>3, <3>1 DEF Left
    <3> QED
      BY <1>2, <2>1, <2>3, <3>1, <3>2
  <2> QED
    BY <2>2, <2>3
<1>5. ASSUME NEW k \in 1 .. Len(p) PROVE p[k] \in 1 .. last
  BY <1>0, <1>1
<1> QED
  BY <1>0, <1>3, <1>4, <1>5 DEF UpTo

LEMMA CleanIsReference ==
  ASSUME NEW S, NEW path \in Seq(S)
  PROVE  cleanPath(path) = ReferencePath(path)
<1> DEFINE absolute == IsAbsolute(path)
           stack == Components(path)
           left == {n \in DOMAIN path : Remains(path, n)}
<1>1. absolute \in BOOLEAN /\ Len(path) \in 0 .. Len(path)
  BY DEF IsAbsolute
<1>2. stack \in Seq(S) /\ CleanStack(absolute, stack)
  BY <1>1, StacksClean DEF Components
<1>3. PICK p : /\ Places(path, stack, p, Len(path)) /\ Open(path, p, Len(path))
               /\ Left(absolute, path, p, Len(path))
  BY <1>1, StacksPlaced DEF Components, Placed
<1>4. /\ p \in Seq(Nat) /\ Len(p) = Len(stack)
      /\ \A k \in 1 .. Len(p) : path[p[k]] = stack[k]
      /\ \A k, l \in 1 .. Len(p) : k < l => p[k] < p[l]
  <2>1. Len(path) \in Nat
    OBVIOUS
  <2> QED
    BY <1>3, <2>1, PlacesFacts
<1>5. left = UpTo(p, Len(p))
  BY <1>2, <1>3, WhatRemains
<1> HIDE DEF left, stack
<1>6. /\ Cardinality(left) = Len(stack)
      /\ \A k \in 1 .. Len(stack) : path[Nth(left, k)] = stack[k]
  <2>1. /\ Cardinality(left) = Len(p)
        /\ \A k \in 1 .. Len(p) : Nth(left, k) = p[k]
    BY <1>4, <1>5, NthPlace
  <2> QED
    BY <1>4, <2>1
<1>7. [k \in 1 .. Len(stack) |-> path[Nth(left, k)]] = stack
  <2>1. stack = [k \in 1 .. Len(stack) |-> stack[k]]
    BY <1>2
  <2> QED
    BY <1>6, <2>1
<1>8. ReferencePath(path)
        = Joined(absolute, [k \in 1 .. Cardinality(left) |-> path[Nth(left, k)]])
  <2> DEFINE nth == [k \in 1 .. Cardinality(left) |-> Nth(left, k)]
  <2>1. ReferencePath(path)
          = Joined(absolute, [k \in DOMAIN nth |-> path[nth[k]]])
    BY DEF ReferencePath, left, Nth
  <2>2. [k \in DOMAIN nth |-> path[nth[k]]]
          = [k \in 1 .. Cardinality(left) |-> path[Nth(left, k)]]
    OBVIOUS
  <2> QED
    BY <2>1, <2>2
<1> QED
  BY <1>6, <1>7, <1>8 DEF cleanPath, stack

-----------------------------------------------------------------------------
(***************************************************************************)
(* The paths of a client: what toAbsoluteFtpPath returns is absolute and   *)
(* clean, and stays as it is when it is resolved again.                    *)
(***************************************************************************)

\* The root and the clean paths in terms of the parts.
LEMMA CleanParts ==
  ASSUME NEW path
  PROVE  IsClean(path)
           <=> /\ IsAbsolute(path)
               /\ \/ path = <<EmptyPart, EmptyPart>>
                  \/ \A i \in 2 .. Len(path) : path[i] \notin Void \cup Up
  BY DEF IsClean, Root, EmptyPart, DotPart, Void, Up

LEMMA RootParts == Root = <<EmptyPart, EmptyPart>>
  BY DEF Root, EmptyPart

LEMMA EmptyParts == Empty = <<EmptyPart>>
  BY DEF Empty, EmptyPart

\* cleanPath makes an absolute path clean.
LEMMA AbsoluteClean ==
  ASSUME NEW S, Void \subseteq S, NEW path \in Seq(S), IsAbsolute(path)
  PROVE  cleanPath(path) \in Seq(S) /\ IsClean(cleanPath(path))
<1> DEFINE c == Components(path)
           d == cleanPath(path)
           absolute == IsAbsolute(path)
<1>1. /\ d \in Seq(S) /\ (IsAbsolute(d) <=> absolute)
  BY CleanPathIdempotent
<1>2. absolute \in BOOLEAN /\ Len(path) \in 0 .. Len(path)
  <2>1. absolute \in BOOLEAN
    BY DEF IsAbsolute
  <2>2. Len(path) \in 0 .. Len(path)
    OBVIOUS
  <2> QED
    BY <2>1, <2>2
<1>3. c \in Seq(S) /\ CleanStack(absolute, c)
  BY <1>2, StacksClean DEF Components
<1>4. d = Joined(absolute, c)
  BY DEF cleanPath
<1> HIDE DEF c, d, absolute
<1>5. absolute
  BY DEF absolute
<1>6. \A i \in 1 .. Len(c) : c[i] \notin Void \cup Up
  BY <1>3, <1>5 DEF CleanStack, Piled, Barred
<1>7. CASE c = <<>>
  <2>1. d = <<EmptyPart>> \o <<EmptyPart>>
    BY <1>4, <1>5, <1>7 DEF Joined, EmptyPart
  <2> DEFINE one == <<EmptyPart>>
             two == <<EmptyPart, EmptyPart>>
  <2>2. /\ EmptyPart \in S
        /\ one \in Seq(S) /\ Len(one) = 1 /\ one[1] = EmptyPart
    BY DEF Void
  <2>3. two \in Seq(S) /\ Len(two) = 2 /\ two[1] = EmptyPart /\ two[2] = EmptyPart
    BY <2>2
  <2>4. d = one \o one
    BY <2>1
  <2> HIDE DEF one, two
  <2>5. /\ Len(d) = 2 /\ d[1] = EmptyPart /\ d[1 + 1] = EmptyPart
        /\ \A i \in 1 .. 2 : i = 1 \/ i = 2
    BY <2>2, <2>4, ConcatProperties
  <2>6. \A i \in 1 .. 2 : d[i] = two[i]
    BY <2>3, <2>5
  <2>7. d = two
    BY <1>1, <2>3, <2>5, <2>6, SeqEqual
  <2>8. d = <<EmptyPart, EmptyPart>>
    BY <2>7 DEF two
  <2> QED
    BY <1>1, <1>5, <2>8, CleanParts DEF d
<1>8. CASE c # <<>>
  <2>1. d = <<EmptyPart>> \o c
    BY <1>4, <1>5, <1>8 DEF Joined, EmptyPart
  <2>2. EmptyPart \in S
    BY DEF Void
  <2>3. /\ Len(d) = 1 + Len(c) /\ Len(c) \in Nat
        /\ \A i \in 1 .. Len(c) : d[1 + i] = c[i]
    BY <1>3, <2>1, <2>2, PartBefore
  <2>4. ASSUME NEW i \in 2 .. Len(d) PROVE d[i] \notin Void \cup Up
    <3>1. i - 1 \in 1 .. Len(c) /\ 1 + (i - 1) = i
      BY <2>3
    <3> QED
      BY <1>6, <2>3, <3>1
  <2> QED
    BY <1>1, <1>5, <2>4, CleanParts DEF d
<1> QED
  BY <1>7, <1>8

\* A path that begins like an absolute one is absolute.
LEMMA AbsoluteAppended ==
  ASSUME NEW S, NEW p \in Seq(S), NEW q \in Seq(S), IsAbsolute(p)
  PROVE  p \o q \in Seq(S) /\ IsAbsolute(p \o q)
<1>1. /\ p \o q \in Seq(S) /\ Len(p) > 1 /\ Len(q) \in Nat
      /\ Len(p \o q) = Len(p) + Len(q) /\ Len(p) \in Nat
      /\ p[1] = EmptyPart
  BY AbsolutePath
<1>2. (p \o q)[1] = p[1]
  <2>1. 1 \in 1 .. Len(p) + Len(q) /\ 1 <= Len(p)
    BY <1>1
  <2> QED
    BY <2>1, ConcatProperties
<1>3. Len(p \o q) > 1 /\ (p \o q)[1] = EmptyPart
  BY <1>1, <1>2
<1> QED
  BY <1>1, <1>3, AbsolutePath

LEMMA ClientPath ==
  ASSUME NEW S, Void \subseteq S, NEW directory \in Seq(S),
         IsAbsolute(directory), NEW path \in Seq(S)
  PROVE  LET d == toAbsoluteFtpPath(directory, path) IN
         /\ d \in Seq(S) /\ IsClean(d)
         /\ \A other : toAbsoluteFtpPath(other, d) = d
<1> DEFINE x == IF IsAbsolute(path) THEN path ELSE directory \o path
           d == toAbsoluteFtpPath(directory, path)
<1>1. x \in Seq(S) /\ IsAbsolute(x)
  <2>1. CASE IsAbsolute(path)
    BY <2>1
  <2>2. CASE ~IsAbsolute(path)
    BY <2>2, AbsoluteAppended
  <2> QED
    BY <2>1, <2>2
<1>2. d = cleanPath(x)
  BY DEF toAbsoluteFtpPath
<1> HIDE DEF x
<1>3. d \in Seq(S) /\ IsClean(d)
  BY <1>1, <1>2, AbsoluteClean
<1>4. cleanPath(d) = d
  BY <1>1, <1>2, CleanPathIdempotent
<1>5. ASSUME NEW other PROVE toAbsoluteFtpPath(other, d) = d
  <2>1. IsAbsolute(d)
    BY <1>3 DEF IsClean
  <2> QED
    BY <1>4, <2>1 DEF toAbsoluteFtpPath
<1> QED
  BY <1>3, <1>5

(***************************************************************************)
(* The place of a clean path below a root: the components of the root and  *)
(* then names only.                                                        *)
(***************************************************************************)
Below(base, components) ==
  /\ Len(base) <= Len(components)
  /\ \A i \in 1 .. Len(base) : components[i] = base[i]
  /\ \A i \in Len(base) + 1 .. Len(components) : components[i] \notin Up

\* A part without a meaning behind a path leaves its stack.
LEMMA VoidFollows ==
  ASSUME NEW S, NEW absolute \in BOOLEAN, NEW path \in Seq(S),
         NEW k \in 1 .. Len(path), path[k] \in Void
  PROVE  Stacks(absolute, path)[k] = Stacks(absolute, path)[k - 1]
<1>1. Stacks(absolute, path)[k]
        = Push(absolute, Stacks(absolute, path)[k - 1], path[k])
  BY StackRecursion
<1> DEFINE s == Stacks(absolute, path)[k - 1]
           part == path[k]
<1>2. Push(absolute, s, part) = s
  <2> HIDE DEF s
  <2> QED
    BY PushParts
<1> QED
  BY <1>1, <1>2

\* Names behind a path are pushed onto its stack.
LEMMA NamesFollow ==
  ASSUME NEW S, NEW absolute \in BOOLEAN, NEW path \in Seq(S),
         NEW k \in 0 .. Len(path),
         \A i \in k + 1 .. Len(path) : path[i] \notin Void \cup Up
  PROVE  Below(Stacks(absolute, path)[k], Stacks(absolute, path)[Len(path)])
<1> DEFINE base == Stacks(absolute, path)[k]
           top  == Stacks(absolute, path)[Len(path)]
<1>0. Len(path) \in Nat /\ k \in Nat /\ k <= Len(path)
  OBVIOUS
<1>1. base \in Seq(S) /\ base = Stacks(absolute, path)[k]
  BY StacksClean
<1> HIDE DEF base
<1>2. Len(base) \in Nat
  BY <1>1
<1>3. ASSUME NEW n \in k + 1 .. Len(path), NEW s \in Seq(S)
      PROVE  Push(absolute, s, path[n]) = Append(s, path[n])
  <2> DEFINE part == path[n]
  <2>1. part \notin Void \cup Up
    OBVIOUS
  <2> HIDE DEF part
  <2>2. Push(absolute, s, part) = Append(s, part)
    BY <2>1, PushParts
  <2> QED
    BY <2>2 DEF part
<1>4. Grown(top, base, path, k, Len(path))
  <2>1. \A n \in k + 1 .. Len(path), s \in Seq(S) :
          Grown(s, base, path, k, n - 1)
            => Push(absolute, s, path[n]) = Append(s, path[n])
    BY <1>3
  <2>2. \A n \in k .. Len(path) :
          Grown(Stacks(absolute, path)[n], base, path, k, n)
    BY <1>1, <2>1, StackGrows
  <2> QED
    BY <1>0, <2>2
<1> HIDE DEF top
<1>5. /\ Len(top) = Len(base) + (Len(path) - k)
      /\ \A i \in 1 .. Len(base) : top[i] = base[i]
      /\ \A i \in k + 1 .. Len(path) : top[Len(base) + (i - k)] = path[i]
  BY <1>4 DEF Grown
<1>6. ASSUME NEW i \in Len(base) + 1 .. Len(top) PROVE top[i] \notin Up
  <2> DEFINE j == (i - Len(base)) + k
  <2>1. j \in k + 1 .. Len(path) /\ Len(base) + (j - k) = i
    BY <1>0, <1>2, <1>5
  <2> HIDE DEF j
  <2>2. top[i] = path[j] /\ path[j] \notin Void \cup Up
    BY <1>5, <2>1
  <2> QED
    BY <2>2
<1>7. Len(base) <= Len(top)
  BY <1>0, <1>2, <1>5
<1>8. Below(base, top)
  BY <1>5, <1>6, <1>7 DEF Below
<1> QED
  BY <1>8 DEF base, top

\* A stack is below itself.
LEMMA BelowItself ==
  ASSUME NEW S, NEW s \in Seq(S)
  PROVE  Below(s, s)
BY DEF Below

\* A clean path behind a root: the root is written with or without a slash
\* at its end, it is relative or even empty.
LEMMA BelowRoot ==
  ASSUME NEW S, Void \subseteq S, NEW root \in Seq(S), root # <<>>,
         NEW d \in Seq(S), IsClean(d),
         NEW x, x = root \o d,
         NEW absolute \in BOOLEAN, absolute <=> IsAbsolute(x)
  PROVE  /\ x \in Seq(S)
         /\ absolute <=> root[1] = EmptyPart
         /\ Below(Stacks(absolute, root)[Len(root)], Components(x))
<1> DEFINE k == Len(root)
           stack == Stacks(absolute, x)
<1>1. /\ k \in Nat \ {0} /\ Len(d) > 1 /\ Len(d) \in Nat
      /\ d[1] = EmptyPart /\ EmptyPart \in Void
  <2>1. k \in Nat \ {0} /\ Len(d) \in Nat
    OBVIOUS
  <2>2. Len(d) > 1 /\ d[1] = EmptyPart
    BY CleanParts, AbsolutePath
  <2> QED
    BY <2>1, <2>2 DEF Void
<1>2. /\ x \in Seq(S) /\ Len(x) = k + Len(d)
      /\ stack[k] = Stacks(absolute, root)[k]
  BY StacksOfPrefix
<1>3. /\ \A i \in 1 .. k : x[i] = root[i]
      /\ \A i \in 1 .. Len(d) : x[k + i] = d[i]
  <2>1. \A i \in 1 .. k + Len(d) :
          x[i] = IF i <= k THEN root[i] ELSE d[i - k]
    BY ConcatProperties
  <2>2. ASSUME NEW i \in 1 .. k PROVE x[i] = root[i]
    BY <1>1, <2>1
  <2>3. ASSUME NEW i \in 1 .. Len(d) PROVE x[k + i] = d[i]
    <3>1. k + i \in 1 .. k + Len(d) /\ ~(k + i <= k) /\ (k + i) - k = i
      BY <1>1
    <3> QED
      BY <2>1, <3>1
  <2> QED
    BY <2>2, <2>3
<1>4. absolute <=> root[1] = EmptyPart
  <2>1. x[1] = root[1] /\ Len(x) > 1
    BY <1>1, <1>2, <1>3
  <2> QED
    BY <2>1, AbsolutePath
<1>5. Components(x) = stack[Len(x)]
  <2>1. IsAbsolute(x) = absolute
    BY DEF IsAbsolute
  <2> QED
    BY <2>1 DEF Components
<1>6. stack[k + 1] = stack[k]
  <2>1. /\ k + 1 \in 1 .. Len(x) /\ (k + 1) - 1 = k
        /\ 1 \in 1 .. Len(d) /\ x[k + 1] \in Void
    BY <1>1, <1>2, <1>3
  <2>2. stack[k + 1] = stack[(k + 1) - 1]
    BY <1>2, <2>1, VoidFollows
  <2> QED
    BY <2>1, <2>2
<1>7. k + 1 \in 0 .. Len(x) /\ stack[k] \in Seq(S)
  <2>1. k + 1 \in 0 .. Len(x) /\ k \in 0 .. Len(x)
    BY <1>1, <1>2
  <2> QED
    BY <1>2, <2>1, StacksClean
<1> HIDE DEF stack
<1>8. CASE \A i \in 2 .. Len(d) : d[i] \notin Void \cup Up
  <2>1. ASSUME NEW i \in (k + 1) + 1 .. Len(x) PROVE x[i] \notin Void \cup Up
    <3>1. i - k \in 2 .. Len(d) /\ i - k \in 1 .. Len(d) /\ k + (i - k) = i
      BY <1>1, <1>2
    <3> QED
      BY <1>3, <1>8, <3>1
  <2>2. Below(stack[k + 1], stack[Len(x)])
    BY <1>2, <1>7, <2>1, NamesFollow DEF stack
  <2> QED
    BY <1>2, <1>4, <1>5, <1>6, <2>2
<1>9. CASE d = <<EmptyPart, EmptyPart>>
  <2>1. Len(d) = 2 /\ d[2] = EmptyPart
    BY <1>9
  <2>2. /\ k + 2 \in 1 .. Len(x) /\ (k + 2) - 1 = k + 1 /\ Len(x) = k + 2
        /\ x[k + 2] \in Void
    BY <1>1, <1>2, <1>3, <2>1
  <2>3. stack[k + 2] = stack[(k + 2) - 1]
    BY <1>2, <2>2, VoidFollows DEF stack
  <2>4. stack[Len(x)] = stack[k]
    BY <1>6, <2>2, <2>3
  <2>5. Below(stack[k], stack[k])
    BY <1>7, BelowItself
  <2> QED
    BY <1>2, <1>4, <1>5, <2>4, <2>5
<1> QED
  BY <1>8, <1>9, CleanParts

-----------------------------------------------------------------------------
(***************************************************************************)
(* The parts of paths.  The provers do not know of the strings in this     *)
(* module that they are in STRING.                                         *)
(***************************************************************************)
Alphabet == STRING \cup Void \cup Up

LEMMA AlphabetParts == Void \subseteq Alphabet /\ <<"..">> \in Seq(Alphabet)
<1>1. Void \subseteq Alphabet
  BY DEF Alphabet
<1>2. ".." \in Alphabet
  BY DEF Alphabet, Up
<1> QED
  BY <1>1, <1>2

LEMMA PathsOfStrings == Seq(STRING) \subseteq Seq(Alphabet)
<1>1. ASSUME NEW T, STRING \subseteq T PROVE Seq(STRING) \subseteq Seq(T)
  <2> SUFFICES ASSUME NEW s \in Seq(STRING) PROVE s \in Seq(T)
    OBVIOUS
  <2>1. Len(s) \in Nat /\ s \in [1 .. Len(s) -> STRING]
    OBVIOUS
  <2>2. s \in [1 .. Len(s) -> T]
    BY <1>1, <2>1
  <2> QED
    BY <2>1, <2>2
<1> QED
  BY <1>1 DEF Alphabet

LEMMA RootClean == Root \in Seq(Alphabet) /\ IsClean(Root)
<1>1. EmptyPart \in Alphabet
  BY DEF Alphabet, Void
<1> DEFINE two == <<EmptyPart, EmptyPart>>
<1>2. two \in Seq(Alphabet) /\ Len(two) = 2 /\ two[1] = EmptyPart
  BY <1>1
<1>3. IsAbsolute(two)
  BY <1>2, AbsolutePath
<1> QED
  BY <1>2, <1>3, CleanParts, RootParts

LEMMA RootComponents == Components(Root) = <<>>
<1> DEFINE two == <<EmptyPart, EmptyPart>>
<1>1. two \in Seq(Void) /\ Len(two) = 2
  BY DEF Void
<1>2. \A i \in 1 .. 2 : two[i] \in Void
  BY <1>1
<1>3. IsAbsolute(two) \in BOOLEAN
  BY DEF IsAbsolute
<1> HIDE DEF two
<1>4. Stacks(IsAbsolute(two), two)[2] = <<>>
  BY <1>1, <1>2, <1>3, EmptyStacks
<1> QED
  BY <1>1, <1>4, RootParts DEF Components, two

\* The components of a path are parts.
LEMMA ComponentsParts ==
  ASSUME NEW S, NEW path \in Seq(S)
  PROVE  Components(path) \in Seq(S)
<1>1. IsAbsolute(path) \in BOOLEAN
  BY DEF IsAbsolute
<1>2. Len(path) \in 0 .. Len(path)
  OBVIOUS
<1> QED
  BY <1>1, <1>2, StacksClean DEF Components

\* A root that is not empty is absolute when it begins with a slash.
LEMMA AbsoluteRoot ==
  ASSUME NEW S, NEW root \in Seq(S), root # <<>>, root # Empty
  PROVE  IsAbsolute(root) <=> root[1] = EmptyPart
<1>1. Len(root) \in Nat \ {0}
  OBVIOUS
<1>2. ASSUME Len(root) = 1, root[1] = EmptyPart PROVE root = Empty
  <2> DEFINE one == <<EmptyPart>>
  <2>1. EmptyPart \in S
    BY <1>2
  <2>2. one \in Seq(S) /\ Len(one) = 1 /\ one[1] = EmptyPart
    BY <2>1
  <2> HIDE DEF one
  <2>3. \A i \in 1 .. 1 : root[i] = one[i]
    BY <1>2, <2>2
  <2>4. root = one
    BY <1>2, <2>2, <2>3, SeqEqual
  <2> QED
    BY <2>4, EmptyParts DEF one
<1>3. ASSUME root[1] = EmptyPart PROVE Len(root) > 1
  <2>1. Len(root) # 1
    BY <1>2, <1>3
  <2> QED
    BY <1>1, <2>1
<1> QED
  BY <1>3, AbsolutePath

\* What is below the root begins with its components and goes down.
LEMMA BelowPrefix ==
  ASSUME NEW S, NEW base \in Seq(S), NEW components \in Seq(S),
         Below(base, components)
  PROVE  /\ IsPrefix(base, components)
         /\ \A i \in Len(base) + 1 .. Len(components) : components[i] # ".."
<1> DEFINE n == Len(base)
<1>1. /\ n \in Nat /\ Len(components) \in Nat /\ n <= Len(components)
      /\ \A i \in 1 .. n : components[i] = base[i]
  BY DEF Below
<1>2. SubSeq(base, 1, n) = SubSeq(components, 1, n)
  BY <1>1
<1> QED
  BY <1>1, <1>2 DEF IsPrefix, Below, Up

(***************************************************************************)
(* The account of whoever is logged in: it is the one of the name that the *)
(* last USER gave, and it is in the database.                              *)
(***************************************************************************)
LoginInv ==
  /\ database \in [Slots -> Accounts \cup {NoAccount}]
  /\ username_for_login \in Names \cup {""}
  /\ LoggedIn => /\ username_for_login # ""
                 /\ logged_in_user = Slot(username_for_login)
                 /\ Account # NoAccount

(***************************************************************************)
(* Between an RNFR that succeeded and the next known command, the path     *)
(* that is kept still stands for the place that was found.                 *)
(***************************************************************************)
RenameInv ==
  last_command = "RNFR" /\ rename_from_path # Empty
    => LoggedIn /\ checked = Local(rename_from_path)

(***************************************************************************)
(* The working directory is the root while a login is still going on, and  *)
(* after that one that a CWD of this login found.  That it is clean is     *)
(* what makes it stay itself when it is resolved again.                    *)
(***************************************************************************)
DirInv ==
  /\ ftp_working_directory \in Seq(Alphabet)
  /\ IsClean(ftp_working_directory)
  /\ last_command = "USER" => ftp_working_directory = Root
  /\ WorkingDirectoryEntered

\* What the other variables hold.
RestInv ==
  /\ last_command \in {"", "USER", "RNFR", "other"}
  /\ rename_from_path \in RenameParams \cup {Empty}
  /\ shutdown_requested \in BOOLEAN

IInv == LoginInv /\ RenameInv /\ DirInv /\ RestInv

\* A name that is not empty has a slot in the database.
LEMMA SlotOfName ==
  ASSUME NEW name \in Names \cup {""}, name # ""
  PROVE  Slot(name) \in Slots
BY DEF Slots

\* Where nothing is logged in, nothing has to be in the database.
LEMMA InitIInv == Init => IInv
<1> SUFFICES ASSUME Init PROVE IInv
  OBVIOUS
<1>1. LoginInv /\ RenameInv /\ RestInv
  BY DEF Init, LoginInv, RenameInv, RestInv, LoggedIn
<1>2. DirInv
  <2>1. Root \in Seq(Alphabet) /\ IsClean(Root)
    BY RootClean
  <2> QED
    BY <2>1 DEF Init, DirInv, WorkingDirectoryEntered
<1> QED
  BY <1>1, <1>2 DEF IInv

\* What getUser returns is the slot of the name, with an account in it.
LEMMA GetUserResult ==
  ASSUME NEW name, NEW password, getUser(name, password) # Nobody
  PROVE  /\ getUser(name, password) = Slot(name)
         /\ database[Slot(name)] # NoAccount
BY DEF getUser

\* The account of the login does not change when a user is added.
LEMMA AccountStays ==
  ASSUME LoginInv, LoggedIn, NEW name \in Names, NEW account \in Accounts,
         AddUser(name, account)
  PROVE  Account' = Account
<1>1. logged_in_user \in Slots
  BY SlotOfName DEF LoginInv
<1>2. Slot(name) # logged_in_user
  BY DEF AddUser, LoginInv, Account
<1> QED BY <1>1, <1>2 DEF AddUser, LoginInv, Account, userVars

\* LoginInv is inductive.
LEMMA LoginStep == LoginInv /\ [Next]_vars => LoginInv'
<1> SUFFICES ASSUME LoginInv, [Next]_vars PROVE LoginInv'
  OBVIOUS
<1>1. ASSUME NEW name \in Names, NEW account \in Accounts,
             AddUser(name, account)
      PROVE  LoginInv'
  <2>1. database' \in [Slots -> Accounts \cup {NoAccount}]
    BY <1>1 DEF AddUser, LoginInv
  <2>2. LoggedIn => Account' = Account
    BY <1>1, AccountStays
  <2> QED BY <1>1, <2>1, <2>2 DEF AddUser, LoginInv, LoggedIn, userVars
<1>2. ASSUME NEW name \in Names, USER(name) PROVE LoginInv'
  BY <1>2 DEF USER, Handle, LoginInv, LoggedIn
<1>3. ASSUME NEW password \in Passwords, PASS(password) PROVE LoginInv'
  <2> DEFINE user == getUser(username_for_login, password)
  <2>1. CASE username_for_login # "" /\ user # Nobody /\ logged_in_user' = user
    <3>1. user = Slot(username_for_login) /\ database[user] # NoAccount
      BY <2>1, GetUserResult
    <3> QED BY <1>3, <2>1, <3>1
            DEF PASS, Handle, LoginInv, LoggedIn, Account
  <2>2. CASE logged_in_user' = logged_in_user
    BY <1>3, <2>2 DEF PASS, Handle, LoginInv, LoggedIn, Account
  <2> QED BY <1>3, <2>1, <2>2 DEF PASS
<1>4. CASE QUIT
  BY <1>4 DEF QUIT, Handle, LoginInv, LoggedIn
<1>5. ASSUME UNCHANGED <<database, userVars>> PROVE LoginInv'
  BY <1>5 DEF userVars, LoginInv, LoggedIn, Account
<1>6. ASSUME NEW path, NEW status, \/ CWD(path, status) \/ CDUP(status)
                                   \/ RNFR(path, status)
      PROVE  LoginInv'
  BY <1>5, <1>6 DEF CWD, CDUP, RNFR, Handle
<1>7. ASSUME NEW path, NEW status, NEW free, NEW done,
             RNTO(path, status, free, done)
      PROVE  LoginInv'
  BY <1>5, <1>7 DEF RNTO, Handle
<1>8. CASE OtherCommand \/ UnrecognizedCommand \/ UNCHANGED vars
  BY <1>5, <1>8 DEF OtherCommand, UnrecognizedCommand, Handle, vars
<1> QED BY <1>1, <1>2, <1>3, <1>4, <1>6, <1>7, <1>8
        DEF Next, Application, Login, Walk, Renaming

\* RenameInv is inductive beside LoginInv: only RNFR leaves its own name in
\* last_command, and what resolves the path changes under no other command.
LEMMA RenameStep == LoginInv /\ RenameInv /\ [Next]_vars => RenameInv'
<1> SUFFICES ASSUME LoginInv, RenameInv, [Next]_vars PROVE RenameInv'
  OBVIOUS
<1>1. ASSUME NEW name \in Names, NEW account \in Accounts,
             AddUser(name, account)
      PROVE  RenameInv'
  <2>1. LoggedIn => Account' = Account
    BY <1>1, AccountStays
  <2> QED BY <1>1, <2>1
          DEF AddUser, RenameInv, LoggedIn, Local, userVars, dirVars, renameVars
<1>2. ASSUME NEW path, NEW status, RNFR(path, status) PROVE RenameInv'
  BY <1>2 DEF RNFR, Handle, RenameInv, checkIfPathIsRenamable, LoggedIn, Local,
              Account, userVars, dirVars
<1>3. ASSUME last_command' \in {"USER", "other"} PROVE RenameInv'
  BY <1>3 DEF RenameInv
<1>4. ASSUME NEW name, USER(name) PROVE RenameInv'
  BY <1>3, <1>4 DEF USER, Handle
<1>5. ASSUME NEW password, PASS(password) PROVE RenameInv'
  BY <1>3, <1>5 DEF PASS, Handle
<1>6. ASSUME NEW path, NEW status, CWD(path, status) \/ CDUP(status)
      PROVE  RenameInv'
  BY <1>3, <1>6 DEF CWD, CDUP, Handle
<1>7. ASSUME NEW path, NEW status, NEW free, NEW done,
             RNTO(path, status, free, done)
      PROVE  RenameInv'
  BY <1>3, <1>7 DEF RNTO, Handle
<1>8. CASE QUIT \/ OtherCommand
  BY <1>3, <1>8 DEF QUIT, OtherCommand, Handle
<1>9. CASE UnrecognizedCommand \/ UNCHANGED vars
  BY <1>9 DEF UnrecognizedCommand, vars, RenameInv, LoggedIn, Local, Account,
              userVars, dirVars, renameVars
<1> QED BY <1>1, <1>2, <1>4, <1>5, <1>6, <1>7, <1>8, <1>9
        DEF Next, Application, Login, Walk, Renaming

\* What else is written is of the types too.
LEMMA RestStep == RestInv /\ [Next]_vars => RestInv'
<1> SUFFICES ASSUME RestInv, [Next]_vars PROVE RestInv'
  OBVIOUS
<1>1. CASE Application \/ UnrecognizedCommand \/ UNCHANGED vars
  BY <1>1 DEF Application, AddUser, UnrecognizedCommand, vars, renameVars,
              RestInv
<1>2. CASE Login
  BY <1>2 DEF Login, USER, PASS, QUIT, Handle, renameVars, RestInv
<1>3. CASE Walk \/ OtherCommand
  BY <1>3 DEF Walk, CWD, CDUP, OtherCommand, Handle, renameVars, RestInv
<1>4. CASE Renaming
  BY <1>4 DEF Renaming, RNFR, RNTO, Handle, RestInv
<1> QED
  BY <1>1, <1>2, <1>3, <1>4 DEF Next

\* The path a CWD or CDUP goes to is clean, and it stands for the same place
\* from there as from where it was given.
LEMMA EnterStep ==
  ASSUME LoginInv, DirInv, NEW path \in Seq(Alphabet), Enter(path),
         UNCHANGED <<database, userVars>>, last_command' = "other"
  PROVE  DirInv'
<1> DEFINE d == toAbsoluteFtpPath(ftp_working_directory, path)
<1>1. /\ d \in Seq(Alphabet) /\ IsClean(d)
      /\ \A other : toAbsoluteFtpPath(other, d) = d
  <2>1. /\ ftp_working_directory \in Seq(Alphabet)
        /\ IsAbsolute(ftp_working_directory)
        /\ Void \subseteq Alphabet
    BY AlphabetParts DEF DirInv, IsClean
  <2> QED
    BY <2>1, ClientPath
<1> HIDE DEF d
<1>2. ftp_working_directory' = d /\ entered' = Local(d)
  BY DEF Enter, d
<1>3. Account' = Account
  BY DEF Account, userVars
<1>4. Local(ftp_working_directory)' = entered'
  BY <1>1, <1>2, <1>3 DEF Local, toLocalPath
<1> QED
  BY <1>1, <1>2, <1>4 DEF DirInv, WorkingDirectoryEntered, IsClean

\* DirInv is inductive beside LoginInv.
LEMMA DirStep == LoginInv /\ DirInv /\ [Next]_vars => DirInv'
<1> SUFFICES ASSUME LoginInv, DirInv, [Next]_vars PROVE DirInv'
  OBVIOUS
<1>1. ASSUME UNCHANGED dirVars, LoggedIn' => LoggedIn,
             LoggedIn => Account' = Account,
             last_command' = "USER" => last_command = "USER"
      PROVE  DirInv'
  BY <1>1 DEF DirInv, WorkingDirectoryEntered, IsClean, Local, dirVars
<1>2. ASSUME UNCHANGED <<dirVars, database, userVars>>,
             last_command' \in {last_command, "RNFR", "other"}
      PROVE  DirInv'
  <2>1. last_command' = "USER" => last_command = "USER"
    BY <1>2
  <2> QED
    BY <1>1, <1>2, <2>1 DEF LoggedIn, Account, userVars
<1>3. ASSUME NEW name \in Names, NEW account \in Accounts,
             AddUser(name, account)
      PROVE  DirInv'
  <2>1. LoggedIn => Account' = Account
    BY <1>3, AccountStays
  <2> QED
    BY <1>1, <1>3, <2>1 DEF AddUser, LoggedIn, userVars
<1>4. ASSUME NEW name \in Names, USER(name) PROVE DirInv'
  BY <1>4, RootClean DEF USER, DirInv, WorkingDirectoryEntered
<1>5. ASSUME NEW password \in Passwords, PASS(password) PROVE DirInv'
  <2>1. CASE last_command = "USER"
    BY <1>5, <2>1, RootClean
       DEF PASS, DirInv, WorkingDirectoryEntered, dirVars
  <2>2. CASE last_command # "USER"
    BY <1>2, <1>5, <2>2 DEF PASS, Handle, userVars
  <2> QED
    BY <2>1, <2>2
<1>6. CASE QUIT
  <2>1. ~LoggedIn'
    BY <1>6 DEF QUIT, LoggedIn
  <2>2. last_command' = "other"
    BY <1>6 DEF QUIT, Handle
  <2> QED
    BY <1>6, <2>1, <2>2
       DEF QUIT, DirInv, WorkingDirectoryEntered, dirVars
<1>7. ASSUME NEW path \in Params, NEW status, CWD(path, status)
      PROVE  DirInv'
  <2>1. path \in Seq(Alphabet)
    BY PathsAssumption, PathsOfStrings
  <2>2. CASE Enter(path)
    BY <1>7, <2>1, <2>2, EnterStep DEF CWD, Handle
  <2>3. CASE UNCHANGED dirVars
    BY <1>2, <1>7, <2>3 DEF CWD, Handle
  <2> QED
    BY <1>7, <2>2, <2>3 DEF CWD
<1>8. ASSUME NEW status, CDUP(status) PROVE DirInv'
  <2>1. CASE Enter(<<"..">>)
    BY <1>8, <2>1, AlphabetParts, EnterStep DEF CDUP, Handle
  <2>2. CASE UNCHANGED dirVars
    BY <1>2, <1>8, <2>2 DEF CDUP, Handle
  <2> QED
    BY <1>8, <2>1, <2>2 DEF CDUP
<1>9. CASE Renaming
  BY <1>2, <1>9 DEF Renaming, RNFR, RNTO, Handle
<1>10. CASE OtherCommand \/ UnrecognizedCommand
  BY <1>2, <1>10 DEF OtherCommand, UnrecognizedCommand, Handle
<1>11. CASE UNCHANGED vars
  BY <1>2, <1>11 DEF vars
<1> QED
  BY <1>3, <1>4, <1>5, <1>6, <1>7, <1>8, <1>9, <1>10, <1>11
     DEF Next, Application, Login, Walk

\* The invariant holds of every behaviour.
THEOREM Invariance == Spec => []IInv
<1>1. Init => IInv
  BY InitIInv
<1>2. IInv /\ [Next]_vars => IInv'
  BY LoginStep, RenameStep, DirStep, RestStep DEF IInv
<1> QED BY <1>1, <1>2, PTL DEF Spec

\* Every variable has its type in every state: the working directory is
\* absolute and clean whatever paths the client went along.
THEOREM TypeCorrect == Spec => []TypeOK
<1>1. IInv => TypeOK
  <2> SUFFICES ASSUME IInv PROVE TypeOK
    OBVIOUS
  <2>1. logged_in_user \in Slots \cup {Nobody}
    BY SlotOfName DEF IInv, LoginInv, LoggedIn
  <2>2. /\ database \in [Slots -> Accounts \cup {NoAccount}]
        /\ LoggedIn => Account # NoAccount
        /\ username_for_login \in Names \cup {""}
    BY DEF IInv, LoginInv
  <2>3. IsClean(ftp_working_directory)
    BY DEF IInv, DirInv
  <2> QED
    BY <2>1, <2>2, <2>3 DEF TypeOK, IInv, RestInv
<1> QED BY <1>1, Invariance, PTL

\* Below the root of whoever is logged in, the working directory is a
\* directory that a CWD of this login found.
THEOREM DirectoryEntered == Spec => []WorkingDirectoryEntered
<1>1. IInv => WorkingDirectoryEntered
  BY DEF IInv, DirInv
<1> QED BY <1>1, Invariance, PTL

(***************************************************************************)
(* Every path of every client stands for the root of its account or for    *)
(* something below it, whatever ".." it has and whatever the root is.      *)
(***************************************************************************)
THEOREM ClientConfined == Spec => []Confined
<1>1. IInv => Confined
  <2> DEFINE given == Account.local_root_path_
             root  == IF given = Empty THEN Root ELSE cleanPath(given)
  <2> SUFFICES ASSUME IInv, LoggedIn, NEW path \in Params
               PROVE  LET local == Local(path) IN
                      /\ IsPrefix(Components(root), Components(local))
                      /\ IsAbsolute(local) <=> IsAbsolute(root)
                      /\ \A i \in Len(Components(root)) + 1
                                    .. Len(Components(local)) :
                            Components(local)[i] # ".."
    BY DEF Confined
  <2> DEFINE d == toAbsoluteFtpPath(ftp_working_directory, path)
             x == given \o d
             absolute == IsAbsolute(x)
             local == Local(path)
  <2>1. path \in Seq(Alphabet) /\ Void \subseteq Alphabet
    BY PathsAssumption, PathsOfStrings, AlphabetParts
  <2>2. given \in Seq(Alphabet) /\ given # <<>>
    <3>1. Account \in Accounts
      BY SlotOfName DEF IInv, LoginInv, Account
    <3> QED
      BY <3>1, PathsAssumption, PathsOfStrings
  <2>3. d \in Seq(Alphabet) /\ IsClean(d)
    BY <2>1, ClientPath DEF IInv, DirInv, IsClean
  <2>4. local = cleanPath(x)
    BY DEF Local, toLocalPath
  <2>5. absolute \in BOOLEAN
    BY DEF IsAbsolute
  <2> HIDE DEF given, d
  <2> DEFINE base == Stacks(absolute, given)[Len(given)]
  <2>6. /\ x \in Seq(Alphabet)
        /\ absolute <=> given[1] = EmptyPart
        /\ Below(base, Components(x))
    <3> DEFINE b == absolute
    <3>1. b \in BOOLEAN /\ (b <=> IsAbsolute(x))
      BY <2>5
    <3> HIDE DEF b
    <3>2. /\ x \in Seq(Alphabet)
          /\ b <=> given[1] = EmptyPart
          /\ Below(Stacks(b, given)[Len(given)], Components(x))
      BY <2>1, <2>2, <2>3, <3>1, BelowRoot
    <3> QED
      BY <3>2 DEF b
  <2> HIDE DEF x
  <2>7. Components(root) = base /\ (IsAbsolute(root) <=> absolute)
    <3>1. CASE given = Empty
      <4>1. root = Root
        BY <3>1
      <4>2. Len(given) = 1 /\ given[1] = EmptyPart
        BY <3>1, EmptyParts
      <4>3. absolute /\ IsAbsolute(root)
        BY <2>6, <4>1, <4>2, RootClean DEF IsClean
      <4>4. base = <<>>
        <5>1. 1 \in 0 .. Len(given) /\ \A i \in 1 .. 1 : given[i] \in Void
          BY <4>2 DEF Void
        <5> QED
          BY <2>2, <2>5, <4>2, <5>1, EmptyStacks
      <4>5. Components(Root) = <<>>
        BY RootComponents
      <4> QED
        BY <4>1, <4>3, <4>4, <4>5
    <3>2. CASE given # Empty
      <4>1. root = cleanPath(given)
        BY <3>2
      <4>2. /\ IsAbsolute(root) <=> IsAbsolute(given)
            /\ Components(root) = Components(given)
        BY <2>1, <2>2, <4>1, CleanPathIdempotent
      <4>3. IsAbsolute(given) <=> given[1] = EmptyPart
        BY <2>2, <3>2, AbsoluteRoot
      <4>4. absolute = IsAbsolute(given)
        BY <2>5, <2>6, <4>3 DEF IsAbsolute
      <4> QED
        BY <4>2, <4>4 DEF Components
    <3> QED
      BY <3>1, <3>2
  <2>8. Components(local) = Components(x) /\ (IsAbsolute(local) <=> absolute)
    BY <2>1, <2>4, <2>6, CleanPathIdempotent
  <2>9. /\ Components(root) \in Seq(Alphabet)
        /\ Components(local) \in Seq(Alphabet)
    <3>1. base \in Seq(Alphabet)
      <4>1. Len(given) \in 0 .. Len(given)
        BY <2>2
      <4> QED
        BY <2>2, <2>5, <4>1, StacksClean
    <3>2. Components(x) \in Seq(Alphabet)
      BY <2>6, ComponentsParts
    <3> QED
      BY <2>7, <2>8, <3>1, <3>2
  <2> HIDE DEF root, base, absolute, local
  <2>10. Below(Components(root), Components(local))
    BY <2>6, <2>7, <2>8
  <2>11. /\ IsPrefix(Components(root), Components(local))
         /\ \A i \in Len(Components(root)) + 1 .. Len(Components(local)) :
               Components(local)[i] # ".."
    BY <2>9, <2>10, BelowPrefix
  <2> QED
    BY <2>7, <2>8, <2>11 DEF local
<1> QED BY <1>1, Invariance, PTL

\* Every path a session cleans, of a client, of one in the working directory
\* or of one below the account's root, is cleaned to the reference path.
THEOREM CleaningCorrect == Spec => []CleanPathIsReference
<1>1. IInv => CleanPathIsReference
  <2> SUFFICES ASSUME IInv, NEW path \in Params
               PROVE  /\ cleanPath(path) = ReferencePath(path)
                      /\ cleanPath(ftp_working_directory \o path)
                           = ReferencePath(ftp_working_directory \o path)
                      /\ LoggedIn =>
                           cleanPath(Account.local_root_path_ \o path)
                             = ReferencePath(Account.local_root_path_ \o path)
    BY DEF CleanPathIsReference
  <2>1. path \in Seq(Alphabet) /\ ftp_working_directory \in Seq(Alphabet)
    BY PathsAssumption, PathsOfStrings DEF IInv, DirInv
  <2>2. LoggedIn => Account.local_root_path_ \in Seq(Alphabet)
    <3>1. LoggedIn => Account \in Accounts
      BY SlotOfName DEF IInv, LoginInv, Account
    <3> QED
      BY <3>1, PathsAssumption, PathsOfStrings
  <2>3. ASSUME NEW base \in Seq(Alphabet)
        PROVE  cleanPath(base \o path) = ReferencePath(base \o path)
    <3>1. base \o path \in Seq(Alphabet)
      BY <2>1
    <3> QED
      BY <3>1, CleanIsReference
  <2> QED
    BY <2>1, <2>2, <2>3, CleanIsReference
<1> QED BY <1>1, Invariance, PTL

\* Whoever is logged in is the user the last USER named.
THEOREM LoginCorrect == Spec => []LoggedInAsNamed
<1>1. IInv => LoggedInAsNamed
  BY DEF IInv, LoginInv, LoggedInAsNamed
<1> QED BY <1>1, Invariance, PTL

\* RNTO renames what the RNFR just before it found.
THEOREM RenameCorrect == Spec => RenameAsChecked
<1>1. IInv /\ [Next]_vars => [renamed' # Nothing => renamed' = checked]_vars
  <2> SUFFICES ASSUME IInv, Next, renamed' # Nothing PROVE renamed' = checked
    OBVIOUS
  <2>1. PICK path \in {Empty, <<"b">>}, status \in Statuses,
             free \in BOOLEAN, done \in BOOLEAN :
               RNTO(path, status, free, done)
    BY DEF Next, Application, Login, Walk, Renaming, AddUser, USER, PASS, QUIT,
           CWD, CDUP, RNFR, OtherCommand, UnrecognizedCommand
  <2> QED BY <2>1 DEF RNTO, AfterRNFR, IInv, RenameInv
<1> QED BY <1>1, Invariance, PTL DEF Spec, RenameAsChecked
=============================================================================
