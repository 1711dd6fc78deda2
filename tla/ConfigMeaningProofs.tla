------------------------- MODULE ConfigMeaningProofs -------------------------
(***************************************************************************)
(* Proofs about ConfigFile: a well-formed file gives the table its lines   *)
(* describe, and what ini_table_write writes is read back.                 *)
(***************************************************************************)
EXTENDS ConfigFileProofs

-----------------------------------------------------------------------------
(* The reader over several characters.                                     *)

Readers == {q \in Parser : Terminated(q)}
Steps(s) == [i \in 1..Len(s) |-> [q \in Readers |-> Consume(q, s[i])]]

LEMMA ConsumeReads ==
  ASSUME NEW q \in Readers, NEW c \in Char
  PROVE  Consume(q, c) \in Readers
BY ConsumeType DEF Readers

\* The states the reader goes through.
LEMMA FeedIs ==
  ASSUME NEW q \in Readers, NEW s \in Seq(Char)
  PROVE  \E f \in [0..Len(s) -> Readers] :
           Recursion(f, Len(s), q, Steps(s)) /\ Feed(q, s) = f[Len(s)]
<1> DEFINE n == Len(s)
           next(r, i) == Consume(r, s[i])
           Is(f) == f = [i \in 0..n |-> IF i = 0 THEN q ELSE next(f[i - 1], i)]
           fed == CHOOSE f : Is(f)
<1>1. n \in Nat /\ \A i \in 1..n : s[i] \in Char
  OBVIOUS
<1>2. Steps(s) \in [1..n -> [Readers -> Readers]]
  BY <1>1, ConsumeReads DEF Steps
<1>3. PICK f \in [0..n -> Readers] : Recursion(f, n, q, Steps(s))
  <2> HIDE DEF n
  <2> QED
    BY <1>1, <1>2, RecursionExists
<1>4. f[0] = q /\ \A i \in 1..n : f[i] = next(f[i - 1], i)
  <2>1. f[0] = q
    BY <1>3 DEF Recursion
  <2> SUFFICES ASSUME NEW i \in 1..n PROVE f[i] = next(f[i - 1], i)
    BY <2>1
  <2>2. f[i - 1] \in Readers
    BY <1>1, <1>3
  <2>3. f[i] = Steps(s)[i][f[i - 1]]
    BY <1>3 DEF Recursion
  <2> QED
    BY <2>2, <2>3 DEF Steps
<1>5. Is(f)
  <2> HIDE DEF next, n
  <2> QED
    BY <1>1, <1>3, <1>4
<1>6. Is(fed)
  <2> HIDE DEF Is
  <2> QED
    BY <1>5
<1>7. Feed(q, s) = fed[n]
  BY DEF Feed
<1> HIDE DEF fed
<1>8. fed \in [0..n -> Readers] /\ Recursion(fed, n, q, Steps(s))
  <2>1. fed[0] = q /\ \A i \in 1..n : fed[i] = next(fed[i - 1], i)
    <3> HIDE DEF next, n
    <3> QED
      BY <1>1, <1>6
  <2> DEFINE S == {i \in 0..n : fed[i] = f[i]}
  <2>2. 0 \in S /\ \A i \in 0..n : i < n /\ i \in S => i + 1 \in S
    <3>1. 0 \in S
      BY <2>1, <1>1, <1>4
    <3>2. ASSUME NEW i \in 0..n, i < n, i \in S PROVE i + 1 \in S
      <4>1. i + 1 \in 1..n /\ (i + 1) - 1 = i
        BY <3>2, <1>1
      <4>2. fed[i + 1] = next(fed[i], i + 1) /\ f[i + 1] = next(f[i], i + 1)
        BY <4>1, <2>1, <1>4
      <4>3. fed[i] = f[i]
        BY <3>2
      <4> HIDE DEF next
      <4> QED
        BY <4>1, <4>2, <4>3
    <3> QED
      BY <3>1, <3>2
  <2> HIDE DEF S
  <2>3. 0..n \subseteq S
    BY <2>2, <1>1, IntervalInduction
  <2>4. \A i \in 0..n : fed[i] = f[i]
    BY <2>3 DEF S
  <2>5. DOMAIN fed = 0..n /\ fed = [i \in 0..n |-> fed[i]]
    BY <1>6
  <2> HIDE DEF n
  <2>6. fed = f
    BY <2>4, <2>5, <1>3
  <2> QED
    BY <2>6, <1>3
<1> QED
  BY <1>7, <1>8

LEMMA FedAgree ==
  ASSUME NEW n \in Nat, NEW z \in Nat, n <= z, NEW f, NEW g, NEW q, NEW F, NEW G,
         Recursion(f, n, q, F), Recursion(g, z, q, G), \A i \in 1..n : F[i] = G[i]
  PROVE  g[n] = f[n]
<1>1. \A i \in 0..n : f[i] = g[i]
  BY RecursionUnique
<1> QED
  BY <1>1

LEMMA FeedReads ==
  ASSUME NEW q \in Readers, NEW s \in Seq(Char)
  PROVE  Feed(q, s) \in Readers
<1>1. PICK f \in [0..Len(s) -> Readers] : Feed(q, s) = f[Len(s)]
  BY FeedIs
<1> QED
  BY <1>1

LEMMA FeedEmpty ==
  ASSUME NEW q \in Readers
  PROVE  Feed(q, <<>>) = q
<1>1. <<>> \in Seq(Char) /\ Len(<<>>) = 0
  OBVIOUS
<1>2. PICK f \in [0..Len(<<>>) -> Readers] :
        Recursion(f, Len(<<>>), q, Steps(<<>>)) /\ Feed(q, <<>>) = f[Len(<<>>)]
  BY <1>1, FeedIs
<1>3. f[0] = q
  BY <1>2 DEF Recursion
<1> QED
  BY <1>1, <1>2, <1>3

LEMMA FeedAppend ==
  ASSUME NEW q \in Readers, NEW s \in Seq(Char), NEW c \in Char
  PROVE  Feed(q, Append(s, c)) = Consume(Feed(q, s), c)
<1> DEFINE t == Append(s, c)
           n == Len(s)
<1>1. t \in Seq(Char) /\ Len(t) = n + 1 /\ n \in Nat /\ t[n + 1] = c
      /\ \A i \in 1..n : t[i] = s[i]
  OBVIOUS
<1> HIDE DEF t, n
<1>2. PICK f \in [0..n -> Readers] : Recursion(f, n, q, Steps(s)) /\ Feed(q, s) = f[n]
  BY FeedIs DEF n
<1>3. PICK g \in [0..n + 1 -> Readers] :
        Recursion(g, n + 1, q, Steps(t)) /\ Feed(q, t) = g[n + 1]
  BY <1>1, FeedIs
<1>4. \A i \in 1..n : Steps(s)[i] = Steps(t)[i]
  BY <1>1 DEF Steps, n
<1>5. g[n] = f[n]
  BY <1>1, <1>2, <1>3, <1>4, RecursionUnique
<1>6. g[n + 1] = Steps(t)[n + 1][g[n]]
  BY <1>1, <1>3 DEF Recursion
<1>7. Steps(t)[n + 1][g[n]] = Consume(g[n], c)
  <2>1. g[n] \in Readers
    BY <1>1, <1>3
  <2> QED
    BY <2>1, <1>1 DEF Steps
<1> QED
  BY <1>2, <1>3, <1>5, <1>6, <1>7 DEF t

LEMMA FeedConcat ==
  ASSUME NEW q \in Readers, NEW s \in Seq(Char), NEW t \in Seq(Char)
  PROVE  Feed(q, s \o t) = Feed(Feed(q, s), t)
<1> DEFINE u == s \o t
           n == Len(s)
           m == Len(t)
<1>1. /\ n \in Nat /\ m \in Nat /\ u \in Seq(Char) /\ Len(u) = n + m
      /\ \A i \in 1..n : u[i] = s[i]
      /\ \A i \in 1..m : u[n + i] = t[i]
  OBVIOUS
<1> HIDE DEF u, n, m
<1>2. PICK f \in [0..n -> Readers] : Recursion(f, n, q, Steps(s)) /\ Feed(q, s) = f[n]
  BY FeedIs DEF n
<1>3. PICK g \in [0..n + m -> Readers] :
        Recursion(g, n + m, q, Steps(u)) /\ Feed(q, u) = g[n + m]
  BY <1>1, FeedIs
<1>4. PICK h \in [0..m -> Readers] :
        Recursion(h, m, Feed(q, s), Steps(t)) /\ Feed(Feed(q, s), t) = h[m]
  BY FeedIs, FeedReads DEF m
<1>5. g[n] = f[n]
  <2>1. \A i \in 1..n : Steps(s)[i] = Steps(u)[i]
    BY <1>1 DEF Steps, n
  <2>2. n + m \in Nat /\ n <= n + m
    BY <1>1
  <2>3. \A a, b : Recursion(a, n, q, Steps(s)) /\ Recursion(b, n + m, q, Steps(u)) => a[n] = b[n]
    BY <2>1, <2>2, <1>1, FedAgree
  <2> QED
    BY <2>3, <1>2, <1>3
<1> DEFINE k == [i \in 0..m |-> g[n + i]]
<1>6. Recursion(k, m, Feed(q, s), Steps(t))
  <2>1. k[0] = Feed(q, s)
    BY <1>1, <1>2, <1>5
  <2>2. ASSUME NEW i \in 1..m PROVE k[i] = Steps(t)[i][k[i - 1]]
    <3>1. n + i \in 1..n + m /\ i - 1 \in 0..m /\ n + (i - 1) = (n + i) - 1 /\ i \in 0..m
      BY <1>1
    <3>2. g[n + i] = Steps(u)[n + i][g[(n + i) - 1]]
      BY <3>1, <1>3 DEF Recursion
    <3>3. Steps(u)[n + i] = Steps(t)[i]
      BY <3>1, <1>1 DEF Steps, m
    <3>4. k[i] = g[n + i] /\ k[i - 1] = g[(n + i) - 1]
      BY <3>1
    <3> QED
      BY <3>2, <3>3, <3>4
  <2> QED
    BY <2>1, <2>2 DEF Recursion
<1>7. k[m] = g[n + m]
  BY <1>1
<1> HIDE DEF k
<1>8. k[m] = h[m]
  BY <1>1, <1>4, <1>6, RecursionUnique
<1> QED
  BY <1>3, <1>4, <1>7, <1>8 DEF u

-----------------------------------------------------------------------------
(* A line without its carriage returns.                                    *)

\* The characters a line is made of, and those that count
Letter == Char \ {"\n"}
Glyph == Letter \ {"\r"}

TextStep(t, c) == IF c = "\r" THEN t ELSE Append(t, c)

LEMMA TextStepType ==
  ASSUME NEW t \in Seq(Glyph), NEW c \in Letter
  PROVE  TextStep(t, c) \in Seq(Glyph)
BY DEF TextStep, Glyph

\* What is left of the first i characters of a line.
TextSteps(s, f) ==
  /\ f \in [0..Len(s) -> Seq(Glyph)]
  /\ f[0] = <<>>
  /\ \A i \in 1..Len(s) : f[i] = TextStep(f[i - 1], s[i])

LEMMA TextIs ==
  ASSUME NEW s \in Seq(Letter)
  PROVE  \E f : TextSteps(s, f) /\ Text(s) = f[Len(s)]
<1> DEFINE n == Len(s)
           T == Seq(Glyph)
           step == [i \in 1..n |-> [t \in T |-> TextStep(t, s[i])]]
           Is(f) == f = [i \in 0..n |-> IF i = 0 THEN <<>>
                                       ELSE IF s[i] = "\r" THEN f[i - 1] ELSE Append(f[i - 1], s[i])]
           text == CHOOSE f : Is(f)
<1>1. n \in Nat /\ \A i \in 1..n : s[i] \in Letter
  OBVIOUS
<1>2. step \in [1..n -> [T -> T]] /\ <<>> \in T
  <2>1. \A i \in 1..n, t \in T : TextStep(t, s[i]) \in T
    BY <1>1, TextStepType
  <2>2. <<>> \in T
    OBVIOUS
  <2> HIDE DEF n, T
  <2> QED
    BY <2>1, <2>2
<1>3. PICK f \in [0..n -> T] : Recursion(f, n, <<>>, step)
  <2> HIDE DEF n, T, step
  <2> QED
    BY <1>1, <1>2, RecursionExists
<1>4. f[0] = <<>> /\ \A i \in 1..n : f[i] = TextStep(f[i - 1], s[i])
  <2>1. f[0] = <<>>
    BY <1>3 DEF Recursion
  <2> SUFFICES ASSUME NEW i \in 1..n PROVE f[i] = TextStep(f[i - 1], s[i])
    BY <2>1
  <2>2. f[i - 1] \in T
    BY <1>1, <1>3
  <2>3. f[i] = step[i][f[i - 1]]
    BY <1>3 DEF Recursion
  <2> HIDE DEF T
  <2> QED
    BY <2>2, <2>3
<1>5. Is(f)
  <2> HIDE DEF n, T
  <2>1. f = [i \in 0..n |-> IF i = 0 THEN <<>> ELSE TextStep(f[i - 1], s[i])]
    BY <1>1, <1>3, <1>4
  <2> QED
    BY <2>1 DEF TextStep
<1>6. Is(text)
  <2> HIDE DEF Is
  <2> QED
    BY <1>5
<1>7. Text(s) = text[n]
  BY DEF Text
<1> HIDE DEF text
<1>8. text[0] = <<>> /\ \A i \in 1..n : text[i] = TextStep(text[i - 1], s[i])
  <2>1. text = [i \in 0..n |-> IF i = 0 THEN <<>> ELSE TextStep(text[i - 1], s[i])]
    BY <1>6 DEF TextStep
  <2> HIDE DEF n
  <2> QED
    BY <2>1, <1>1
<1> DEFINE S == {i \in 0..n : text[i] \in T}
<1>9. 0 \in S /\ \A i \in 0..n : i < n /\ i \in S => i + 1 \in S
  <2>1. 0 \in S
    <3> HIDE DEF n, T
    <3> QED
      BY <1>1, <1>2, <1>8
  <2>2. ASSUME NEW i \in 0..n, i < n, i \in S PROVE i + 1 \in S
    <3>1. i + 1 \in 1..n /\ (i + 1) - 1 = i /\ s[i + 1] \in Letter /\ i + 1 \in 0..n
      BY <2>2, <1>1
    <3>2. text[i + 1] = TextStep(text[i], s[i + 1]) /\ text[i] \in T
      BY <3>1, <2>2, <1>8
    <3>3. text[i + 1] \in T
      BY <3>1, <3>2, TextStepType
    <3> QED
      BY <3>1, <3>3
  <2> QED
    BY <2>1, <2>2
<1> HIDE DEF S
<1>10. 0..n \subseteq S
  BY <1>1, <1>9, IntervalInduction
<1>11. \A i \in 0..n : text[i] \in T
  BY <1>10 DEF S
<1>12. text \in [0..n -> T]
  <2>1. text = [i \in 0..n |-> text[i]]
    BY <1>6
  <2> HIDE DEF n, T
  <2> QED
    BY <2>1, <1>11
<1> QED
  BY <1>7, <1>8, <1>12 DEF TextSteps

\* They are determined.
LEMMA TextUnique ==
  ASSUME NEW s \in Seq(Letter), NEW t \in Seq(Letter), Len(s) <= Len(t),
         \A i \in 1..Len(s) : s[i] = t[i],
         NEW f, NEW g, TextSteps(s, f), TextSteps(t, g)
  PROVE  \A i \in 0..Len(s) : f[i] = g[i]
<1> DEFINE n == Len(s)
           S == {i \in 0..n : f[i] = g[i]}
<1>1. n \in Nat /\ Len(t) \in Nat
  OBVIOUS
<1>2. 0 \in S
  BY <1>1 DEF TextSteps
<1>3. ASSUME NEW i \in 0..n, i < n, i \in S PROVE i + 1 \in S
  <2>1. i + 1 \in 1..n /\ i + 1 \in 1..Len(t) /\ (i + 1) - 1 = i /\ s[i + 1] = t[i + 1]
    BY <1>1, <1>3
  <2>2. f[i + 1] = TextStep(f[i], s[i + 1]) /\ g[i + 1] = TextStep(g[i], t[i + 1])
    BY <2>1 DEF TextSteps
  <2> QED
    BY <2>1, <2>2, <1>1, <1>3
<1> HIDE DEF S, n
<1>4. 0..n \subseteq S
  BY <1>1, <1>2, <1>3, IntervalInduction
<1> QED
  BY <1>4 DEF S, n

LEMMA TextType ==
  ASSUME NEW s \in Seq(Letter)
  PROVE  Text(s) \in Seq(Glyph)
<1>1. PICK f : TextSteps(s, f) /\ Text(s) = f[Len(s)]
  BY TextIs
<1>2. Len(s) \in 0..Len(s)
  OBVIOUS
<1> QED
  BY <1>1, <1>2 DEF TextSteps

\* The first i members of s
Upto(s, i) == SubSeq(s, 1, i)

LEMMA UptoType ==
  ASSUME NEW S, NEW s \in Seq(S), NEW k \in 0..Len(s)
  PROVE  /\ Upto(s, k) \in Seq(S) /\ Len(Upto(s, k)) = k
         /\ \A i \in 1..k : Upto(s, k)[i] = s[i]
<1>1. \A i \in 1..k : s[i] \in S
  BY ElementOfSeq
<1>2. 1 \in Int /\ k \in Int /\ Len(s) \in Nat
  OBVIOUS
<1>3. /\ SubSeq(s, 1, k) \in Seq(S)
      /\ Len(SubSeq(s, 1, k)) = IF 1 <= k THEN k - 1 + 1 ELSE 0
      /\ \A i \in 1..k - 1 + 1 : SubSeq(s, 1, k)[i] = s[1 + i - 1]
  BY <1>1, <1>2, SubSeqProperties
<1> QED
  BY <1>2, <1>3 DEF Upto

LEMMA UptoNext ==
  ASSUME NEW S, NEW s \in Seq(S), NEW k \in 0..Len(s) - 1
  PROVE  Upto(s, k + 1) = Append(Upto(s, k), s[k + 1])
<1>1. k + 1 \in 1..Len(s) /\ k + 1 \in 0..Len(s) /\ k \in 0..Len(s) /\ k \in Nat
  OBVIOUS
<1>2. /\ Upto(s, k) \in Seq(S) /\ Len(Upto(s, k)) = k
      /\ \A i \in 1..k : Upto(s, k)[i] = s[i]
  BY <1>1, UptoType
<1>3. /\ Upto(s, k + 1) \in Seq(S) /\ Len(Upto(s, k + 1)) = k + 1
      /\ \A i \in 1..k + 1 : Upto(s, k + 1)[i] = s[i]
  BY <1>1, UptoType
<1>4. s[k + 1] \in S
  BY <1>1, ElementOfSeq
<1> DEFINE a == Upto(s, k)
           b == Upto(s, k + 1)
           c == s[k + 1]
           d == Append(a, c)
<1>5. /\ d \in Seq(S) /\ Len(d) = k + 1 /\ d[k + 1] = c
      /\ \A i \in 1..k : d[i] = a[i]
  BY <1>2, <1>4, AppendProperties
<1>6. \A i \in 1..k + 1 : b[i] = d[i]
  BY <1>1, <1>2, <1>3, <1>5
<1> HIDE DEF a, b, d
<1>7. b \in Seq(S) /\ d \in Seq(S) /\ Len(b) = Len(d) /\ \A i \in 1..Len(b) : b[i] = d[i]
  BY <1>3, <1>5, <1>6 DEF b
<1>8. b = d
  BY <1>7, SeqEqual, Zenon
<1> QED
  BY <1>8 DEF b, d, a

LEMMA UptoAll ==
  ASSUME NEW S, NEW s \in Seq(S)
  PROVE  Upto(s, Len(s)) = s
BY SubSeqFull DEF Upto

\* The first characters of a line leave the first characters of its text.
LEMMA TextUpto ==
  ASSUME NEW s \in Seq(Letter), NEW f, TextSteps(s, f), NEW k \in 0..Len(s)
  PROVE  Text(Upto(s, k)) = f[k]
<1> DEFINE u == Upto(s, k)
<1>1. u \in Seq(Letter) /\ Len(u) = k /\ \A i \in 1..k : u[i] = s[i]
  BY UptoType
<1> HIDE DEF u
<1>2. PICK g : TextSteps(u, g) /\ Text(u) = g[Len(u)]
  BY <1>1, TextIs
<1>3. k \in Nat /\ k <= Len(s) /\ k \in 0..k
  OBVIOUS
<1>4. \A i \in 0..Len(u) : g[i] = f[i]
  BY <1>1, <1>2, <1>3, TextUnique
<1> QED
  BY <1>1, <1>2, <1>3, <1>4 DEF u

Prefix(s, t) == Len(s) <= Len(t) /\ \A i \in 1..Len(s) : s[i] = t[i]

LEMMA TextGrows ==
  ASSUME NEW s \in Seq(Letter), NEW f, TextSteps(s, f), NEW k \in 0..Len(s)
  PROVE  Prefix(f[k], f[Len(s)])
<1> DEFINE n == Len(s) - k
           S == {d \in 0..n : Prefix(f[k], f[k + d])}
<1>1. n \in Nat /\ k \in Nat /\ Len(s) \in Nat /\ k + n = Len(s)
  OBVIOUS
<1>2. 0 \in S
  <2>1. f[k] \in Seq(Glyph) /\ k + 0 = k
    BY <1>1 DEF TextSteps
  <2> HIDE DEF n
  <2>2. Prefix(f[k], f[k])
    BY <2>1 DEF Prefix
  <2> QED
    BY <2>1, <2>2, <1>1
<1>3. ASSUME NEW d \in 0..n, d < n, d \in S PROVE d + 1 \in S
  <2>1. k + d \in 0..Len(s) /\ k + (d + 1) \in 1..Len(s) /\ (k + (d + 1)) - 1 = k + d
        /\ d + 1 \in 0..n
    BY <1>1, <1>3
  <2> DEFINE a == f[k]
             b == f[k + d]
             c == s[k + (d + 1)]
             e == f[k + (d + 1)]
  <2>2. a \in Seq(Glyph) /\ b \in Seq(Glyph)
    BY <2>1 DEF TextSteps
  <2>5. Prefix(a, b)
    BY <1>3
  <2>6. c \in Letter
    BY <2>1, ElementOfSeq
  <2>7. e = TextStep(b, c)
    BY <2>1 DEF TextSteps
  <2>3. e = b \/ (c \in Glyph /\ e = Append(b, c))
    BY <2>6, <2>7 DEF TextStep, Glyph
  <2> HIDE DEF a, b, c, e, n
  <2>4. Prefix(a, e)
    <3>1. CASE c \in Glyph /\ e = Append(b, c)
      <4>1. Len(e) = Len(b) + 1 /\ \A i \in 1..Len(b) : e[i] = b[i]
        BY <3>1, <2>2, AppendProperties
      <4>2. Len(a) \in Nat /\ Len(b) \in Nat
        BY <2>2
      <4> QED
        BY <4>1, <4>2, <2>5 DEF Prefix
    <3> QED
      BY <3>1, <2>3, <2>5
  <2> QED
    BY <2>1, <2>4 DEF a, e
<1> HIDE DEF S, n
<1>4. 0..n \subseteq S
  BY <1>1, <1>2, <1>3, IntervalInduction
<1>5. n \in S
  BY <1>1, <1>4
<1> QED
  BY <1>1, <1>5 DEF S

\* How far the text of a line has been read when k characters of the line have.
Shown(l, k) == Len(Text(Upto(l, k)))

LEMMA TextNext ==
  ASSUME NEW l \in Seq(Letter), NEW k \in 0..Len(l) - 1
  PROVE  /\ Shown(l, k) \in 0..Len(Text(l))
         /\ l[k + 1] = "\r" => Shown(l, k + 1) = Shown(l, k)
         /\ l[k + 1] # "\r" => /\ Shown(l, k + 1) = Shown(l, k) + 1
                               /\ Shown(l, k) < Len(Text(l))
                               /\ Text(l)[Shown(l, k) + 1] = l[k + 1]
<1>1. PICK f : TextSteps(l, f) /\ Text(l) = f[Len(l)]
  BY TextIs
<1>2. k \in 0..Len(l) /\ k + 1 \in 1..Len(l) /\ k + 1 \in 0..Len(l) /\ (k + 1) - 1 = k
      /\ Len(l) \in 0..Len(l)
  OBVIOUS
<1> DEFINE a == f[k]
           b == f[k + 1]
           t == Text(l)
           c == l[k + 1]
<1>3. a \in Seq(Glyph) /\ b \in Seq(Glyph) /\ t \in Seq(Glyph) /\ c \in Letter
  <2>1. c \in Letter
    BY <1>2, ElementOfSeq
  <2>2. a \in Seq(Glyph) /\ b \in Seq(Glyph) /\ t \in Seq(Glyph)
    BY <1>1, <1>2 DEF TextSteps
  <2> QED
    BY <2>1, <2>2
<1>4. b = TextStep(a, c)
  BY <1>1, <1>2 DEF TextSteps
<1>5. Prefix(a, t) /\ Prefix(b, t)
  BY <1>1, <1>2, TextGrows
<1>6. Shown(l, k) = Len(a) /\ Shown(l, k + 1) = Len(b)
  BY <1>1, <1>2, TextUpto DEF Shown
<1> HIDE DEF a, b, t, c
<1>7. CASE c = "\r"
  <2>1. b = a
    BY <1>4, <1>7 DEF TextStep
  <2>2. Len(a) \in 0..Len(t)
    BY <1>3, <1>5 DEF Prefix
  <2> QED
    BY <2>1, <2>2, <1>6, <1>7 DEF c, t
<1>8. CASE c # "\r"
  <2>1. b = Append(a, c)
    BY <1>4, <1>8 DEF TextStep
  <2>2. Len(b) = Len(a) + 1 /\ b[Len(a) + 1] = c
    BY <2>1, <1>3, <1>8, AppendProperties DEF Glyph
  <2>3. Len(b) <= Len(t) /\ \A i \in 1..Len(b) : b[i] = t[i]
    BY <1>5 DEF Prefix
  <2>4. Len(a) \in Nat /\ Len(t) \in Nat
    BY <1>3
  <2>5. Len(a) < Len(t) /\ Len(a) + 1 \in 1..Len(b) /\ Len(a) \in 0..Len(t)
    BY <2>2, <2>3, <2>4
  <2>6. t[Len(a) + 1] = c
    BY <2>2, <2>3, <2>5
  <2> QED
    BY <2>2, <2>5, <2>6, <1>6, <1>8 DEF c, t
<1> QED
  BY <1>7, <1>8

LEMMA TextStart ==
  ASSUME NEW l \in Seq(Letter)
  PROVE  Shown(l, 0) = 0 /\ Shown(l, Len(l)) = Len(Text(l))
<1>1. PICK f : TextSteps(l, f) /\ Text(l) = f[Len(l)]
  BY TextIs
<1>2. 0 \in 0..Len(l) /\ Len(l) \in 0..Len(l)
  OBVIOUS
<1>3. Text(Upto(l, 0)) = <<>> /\ Text(Upto(l, Len(l))) = Text(l)
  BY <1>1, <1>2, TextUpto DEF TextSteps
<1> QED
  BY <1>3 DEF Shown

-----------------------------------------------------------------------------
(* The spaces around a string.                                             *)

LEMMA PartIs ==
  ASSUME NEW t \in Seq(Char), NEW a \in 1..Len(t), NEW b \in a..Len(t),
         NEW u, u = SubSeq(t, a, b)
  PROVE  /\ u \in Seq(Char) /\ Len(u) = b - a + 1
         /\ \A i \in 1..b - a + 1 : u[i] = t[a + i - 1]
<1>1. a \in Int /\ b \in Int /\ a <= b /\ \A i \in a..b : i \in 1..Len(t)
  OBVIOUS
<1>2. \A i \in a..b : t[i] \in Char
  BY <1>1, ElementOfSeq
<1>3. /\ u \in Seq(Char) /\ Len(u) = (IF a <= b THEN b - a + 1 ELSE 0)
      /\ \A i \in 1..b - a + 1 : u[i] = t[a + i - 1]
  BY <1>1, <1>2, SubSeqProperties
<1> QED
  BY <1>1, <1>3

Gap(c) == c = " "

LEMMA SolidIs ==
  ASSUME NEW s \in Seq(Char)
  PROVE  Solid(s) = {i \in 1..Len(s) : ~Gap(s[i])}
<1>1. DOMAIN s = 1..Len(s)
  OBVIOUS
<1> QED
  BY <1>1, Zenon DEF Solid, Gap

\* Where the first and the last character of s are that are no spaces.
Ends(s, a, b) ==
  /\ a \in 1..Len(s) /\ b \in a..Len(s)
  /\ ~Gap(s[a]) /\ ~Gap(s[b])
  /\ \A i \in 1..a - 1 : Gap(s[i])
  /\ \A i \in b + 1..Len(s) : Gap(s[i])

Blank(s) == \A i \in 1..Len(s) : Gap(s[i])

LEMMA BlankTrim ==
  ASSUME NEW s \in Seq(Char), Blank(s)
  PROVE  Solid(s) = {} /\ Trim(s) = <<>> /\ Pending(s) = 0
<1>1. Solid(s) = {}
  BY SolidIs DEF Blank
<1> QED
  BY <1>1 DEF Trim, Pending

LEMMA EndsAre ==
  ASSUME NEW s \in Seq(Char), NEW a, NEW b, Ends(s, a, b)
  PROVE  /\ Solid(s) # {} /\ Min(Solid(s)) = a /\ Max(Solid(s)) = b
         /\ Trim(s) = SubSeq(s, a, b) /\ Pending(s) = Len(s) - b
<1> DEFINE I == Solid(s)
<1>1. Len(s) \in Nat /\ DOMAIN s = 1..Len(s)
  OBVIOUS
<1>2. a \in I /\ b \in I /\ \A i \in I : a <= i /\ b >= i /\ i \in Int
  BY <1>1, SolidIs DEF Ends
<1> HIDE DEF I
<1>3. Min(I) = a
  <2>1. Min(I) \in I /\ \A i \in I : Min(I) <= i
    BY <1>2 DEF Min
  <2> QED
    BY <2>1, <1>2
<1>4. Max(I) = b
  <2>1. Max(I) \in I /\ \A i \in I : Max(I) >= i
    BY <1>2 DEF Max
  <2> QED
    BY <2>1, <1>2
<1> QED
  BY <1>2, <1>3, <1>4 DEF I, Trim, Pending

LEMMA EndsExist ==
  ASSUME NEW s \in Seq(Char), ~Blank(s)
  PROVE  \E a, b : Ends(s, a, b)
<1> DEFINE I == {i \in 1..Len(s) : ~Gap(s[i])}
           J == {j \in Nat : Len(s) - j \in I}
<1>1. Len(s) \in Nat
  OBVIOUS
<1>2. PICK i \in I : TRUE
  BY DEF Blank
<1>3. Len(s) - i \in J
  BY <1>1
<1>4. PICK a \in I : \A k \in I : a <= k
  <2>1. I \in SUBSET Nat /\ I # {}
    BY <1>2
  <2> HIDE DEF I
  <2> QED
    BY <2>1, LeastNatural
<1>5. PICK j \in J : \A k \in J : j <= k
  <2>1. J \in SUBSET Nat /\ J # {}
    BY <1>3
  <2> HIDE DEF J
  <2> QED
    BY <2>1, LeastNatural
<1> DEFINE b == Len(s) - j
<1>6. b \in I /\ \A k \in I : k <= b
  <2>1. b \in I
    OBVIOUS
  <2>2. ASSUME NEW k \in I PROVE k <= b
    <3>1. Len(s) - k \in J
      BY <1>1
    <3>2. j <= Len(s) - k
      BY <3>1, <1>5
    <3> QED
      BY <3>2, <1>1
  <2> QED
    BY <2>1, <2>2
<1> HIDE DEF b
<1>7. \A k \in 1..Len(s) : ~Gap(s[k]) => a <= k /\ k <= b
  BY <1>4, <1>6
<1>8. a \in 1..Len(s) /\ b \in 1..Len(s) /\ ~Gap(s[a]) /\ ~Gap(s[b])
  BY <1>6
<1>9. a <= b
  BY <1>7, <1>8
<1> HIDE DEF I, J
<1>10. \A k \in 1..a - 1 : k \in 1..Len(s) /\ ~(a <= k)
  BY <1>1, <1>8
<1>11. \A k \in b + 1..Len(s) : k \in 1..Len(s) /\ ~(k <= b)
  BY <1>1, <1>8
<1>12. b \in a..Len(s)
  BY <1>1, <1>8, <1>9
<1>13. Ends(s, a, b)
  BY <1>7, <1>8, <1>10, <1>11, <1>12 DEF Ends
<1> QED
  BY <1>13

\* The cases of a string
LEMMA BlankOrEnds ==
  ASSUME NEW s \in Seq(Char)
  PROVE  Blank(s) \/ Ends(s, Min(Solid(s)), Max(Solid(s)))
BY EndsExist, EndsAre

LEMMA TrimEmpty == Trim(<<>>) = <<>> /\ Pending(<<>>) = 0 /\ Solid(<<>>) = {}
<1>1. <<>> \in Seq(Char) /\ Blank(<<>>)
  BY DEF Blank
<1> QED
  BY <1>1, BlankTrim

LEMMA TrimType ==
  ASSUME NEW s \in Seq(Char)
  PROVE  /\ Trim(s) \in Seq(Char) /\ Pending(s) \in Nat
         /\ Trim(s) = <<>> <=> Blank(s)
         /\ ~Blank(s) => ~Gap(Head(Trim(s)))
<1>1. CASE Blank(s)
  <2>1. Trim(s) = <<>> /\ Pending(s) = 0
    BY <1>1, BlankTrim
  <2> QED
    BY <2>1, <1>1
<1>2. CASE ~Blank(s)
  <2>1. PICK a, b : Ends(s, a, b)
    BY <1>2, EndsExist
  <2>2. Trim(s) = SubSeq(s, a, b) /\ Pending(s) = Len(s) - b
    BY <2>1, EndsAre
  <2>3. Len(s) \in Nat /\ a \in 1..Len(s) /\ b \in a..Len(s) /\ ~Gap(s[a])
    BY <2>1 DEF Ends
  <2> DEFINE t == SubSeq(s, a, b)
  <2>5. /\ t \in Seq(Char) /\ Len(t) = b - a + 1
        /\ \A i \in 1..b - a + 1 : t[i] = s[a + i - 1]
    BY <2>3, PartIs
  <2>6. t[1] = s[a] /\ Len(t) # 0 /\ t \in Seq(Char)
    BY <2>3, <2>5
  <2> HIDE DEF t
  <2>7. t # <<>> /\ Head(t) = t[1]
    BY <2>6
  <2>8. Pending(s) \in Nat
    BY <2>2, <2>3
  <2> QED
    BY <2>2, <2>3, <2>6, <2>7, <2>8, <1>2 DEF t
<1> QED
  BY <1>1, <1>2

LEMMA Appended ==
  ASSUME NEW s \in Seq(Char), NEW c \in Char, NEW t, t = Append(s, c)
  PROVE  /\ t \in Seq(Char) /\ Len(t) = Len(s) + 1 /\ Len(s) \in Nat
         /\ t[Len(s) + 1] = c /\ \A i \in 1..Len(s) : t[i] = s[i]
BY AppendProperties

\* A part of a sequence is the same in one that begins alike.
LEMMA SamePart ==
  ASSUME NEW s \in Seq(Char), NEW t \in Seq(Char), NEW a \in 1..Len(s), NEW b \in a..Len(s),
         Len(s) <= Len(t), \A i \in 1..Len(s) : t[i] = s[i]
  PROVE  SubSeq(t, a, b) = SubSeq(s, a, b)
<1>1. a \in Int /\ b \in Int /\ Len(s) \in Nat /\ Len(t) \in Nat
      /\ a \in 1..Len(t) /\ b \in a..Len(t)
  OBVIOUS
<1>2. \A i \in a..b : t[i] = s[i]
  BY <1>1
<1> DEFINE u == SubSeq(s, a, b)
           v == SubSeq(t, a, b)
<1>3. /\ u \in Seq(Char) /\ Len(u) = b - a + 1
      /\ \A i \in 1..b - a + 1 : u[i] = s[a + i - 1]
  BY PartIs
<1>4. /\ v \in Seq(Char) /\ Len(v) = b - a + 1
      /\ \A i \in 1..b - a + 1 : v[i] = t[a + i - 1]
  BY <1>1, PartIs
<1> HIDE DEF u, v
<1>5. \A i \in 1..Len(u) : u[i] = v[i]
  <2> SUFFICES ASSUME NEW i \in 1..Len(u) PROVE u[i] = v[i]
    OBVIOUS
  <2>1. Len(u) = b - a + 1 /\ i \in 1..b - a + 1 /\ a + i - 1 \in a..b
    BY <1>1, <1>3
  <2> QED
    BY <2>1, <1>2, <1>3, <1>4
<1>6. Len(u) = Len(v)
  BY <1>3, <1>4
<1>7. u = v
  BY <1>3, <1>4, <1>5, <1>6, SeqEqual, Zenon
<1> QED
  BY <1>7 DEF u, v

\* A space behind a string is not part of what is left of it.
LEMMA TrimSpace ==
  ASSUME NEW s \in Seq(Char), NEW c \in Char, Gap(c), NEW t, t = Append(s, c)
  PROVE  /\ Trim(t) = Trim(s)
         /\ Pending(t) = IF Trim(s) = <<>> THEN Pending(s) ELSE Pending(s) + 1
<1>1. /\ t \in Seq(Char) /\ Len(t) = Len(s) + 1 /\ Len(s) \in Nat
      /\ t[Len(s) + 1] = c /\ \A i \in 1..Len(s) : t[i] = s[i]
  BY Appended
<1>2. CASE Blank(s)
  <2>1. \A i \in 1..Len(s) + 1 : i \in 1..Len(s) \/ i = Len(s) + 1
    BY <1>1
  <2>2. Blank(t)
    BY <1>1, <1>2, <2>1 DEF Blank
  <2>3. Trim(t) = <<>> /\ Pending(t) = 0 /\ Trim(s) = <<>> /\ Pending(s) = 0
    BY <1>1, <1>2, <2>2, BlankTrim
  <2> QED
    BY <2>3
<1>3. CASE ~Blank(s)
  <2>1. PICK a, b : Ends(s, a, b)
    BY <1>3, EndsExist
  <2>2. a \in 1..Len(s) /\ b \in a..Len(s)
    BY <2>1 DEF Ends
  <2>3. \A i \in b + 1..Len(t) : i \in b + 1..Len(s) \/ i = Len(s) + 1
    BY <1>1, <2>2
  <2>4. a \in 1..Len(t) /\ b \in a..Len(t) /\ b \in 1..Len(s)
        /\ \A i \in 1..a - 1 : i \in 1..Len(s)
    BY <1>1, <2>2
  <2>7. \A i \in b + 1..Len(s) : i \in 1..Len(s)
    BY <1>1, <2>2
  <2>5. Ends(t, a, b)
    BY <1>1, <2>1, <2>2, <2>3, <2>4, <2>7 DEF Ends
  <2>6. SubSeq(t, a, b) = SubSeq(s, a, b)
    <3>1. Len(s) <= Len(t)
      BY <1>1
    <3> QED
      BY <3>1, <1>1, <2>2, SamePart
  <2>8. /\ Trim(s) = SubSeq(s, a, b) /\ Pending(s) = Len(s) - b
        /\ Trim(t) = SubSeq(t, a, b) /\ Pending(t) = Len(t) - b
    BY <1>1, <2>1, <2>5, EndsAre
  <2>9. Pending(t) = Pending(s) + 1
    BY <2>8, <2>2, <1>1
  <2>10. Trim(s) # <<>>
    BY <1>3, TrimType
  <2> QED
    BY <2>6, <2>8, <2>9, <2>10
<1> QED
  BY <1>2, <1>3

LEMMA SpacedIs ==
  ASSUME NEW n \in Nat, NEW c \in Char
  PROVE  /\ Spaced(n, c) \in Seq(Char) /\ Len(Spaced(n, c)) = n + 1
         /\ Spaced(n, c)[n + 1] = c
         /\ \A i \in 1..n : Gap(Spaced(n, c)[i])
<1> DEFINE blank == [i \in 1..n |-> " "]
           one == <<c>>
           u == blank \o one
<1>1. \A i \in 1..n : Gap(blank[i])
  BY Zenon DEF Gap
<1>2. blank \in Seq(Char) /\ Len(blank) = n
  <2>1. " " \in Char
    BY DEF Char
  <2>2. blank \in [1..n -> Char] /\ DOMAIN blank = 1..n
    BY <2>1, Zenon
  <2> HIDE DEF blank
  <2>3. blank \in Seq(Char)
    BY <2>2, SeqDef
  <2>4. DOMAIN blank = 1..Len(blank) /\ Len(blank) \in Nat
    BY <2>3
  <2>5. Len(blank) \in Nat
    BY <2>4
  <2>6. Len(blank) <= n
    BY <2>2, <2>4
  <2>7. n <= Len(blank)
    BY <2>2, <2>4
  <2>8. Len(blank) = n
    BY <2>5, <2>6, <2>7
  <2> QED
    BY <2>3, <2>8
<1>3. one \in Seq(Char) /\ Len(one) = 1 /\ one[1] = c
  OBVIOUS
<1>4. u = Spaced(n, c)
  BY DEF Spaced
<1> HIDE DEF blank, one
<1>5. /\ u \in Seq(Char) /\ Len(u) = n + 1
      /\ \A i \in 1..n + 1 : u[i] = IF i <= n THEN blank[i] ELSE one[i - n]
  <2>1. /\ u \in Seq(Char) /\ Len(u) = Len(blank) + Len(one)
        /\ \A i \in 1..Len(blank) + Len(one) :
             u[i] = IF i <= Len(blank) THEN blank[i] ELSE one[i - Len(blank)]
    BY <1>2, <1>3, ConcatProperties, Zenon
  <2> HIDE DEF u
  <2> QED
    BY <2>1, <1>2, <1>3
<1> HIDE DEF u
<1>6. u[n + 1] = c
  <2>1. n + 1 \in 1..n + 1 /\ ~(n + 1 <= n) /\ (n + 1) - n = 1
    OBVIOUS
  <2> QED
    BY <2>1, <1>3, <1>5
<1>7. \A i \in 1..n : Gap(u[i])
  BY <1>1, <1>5
<1> QED
  BY <1>4, <1>5, <1>6, <1>7

LEMMA GapIsOne ==
  ASSUME NEW c, NEW d, Gap(c), Gap(d)
  PROVE  c = d
BY Zenon DEF Gap

\* A character behind a string brings in the spaces before it.
LEMMA TrimSolid ==
  ASSUME NEW s \in Seq(Char), NEW c \in Char, ~Gap(c), NEW t, t = Append(s, c)
  PROVE  Trim(t) = Trim(s) \o Spaced(Pending(s), c) /\ Pending(t) = 0
<1> DEFINE n == Len(s)
           x == Trim(s)
           y == Spaced(Pending(s), c)
           u == Trim(t)
           v == x \o y
<1>1. /\ t \in Seq(Char) /\ Len(t) = n + 1 /\ n \in Nat
      /\ t[n + 1] = c /\ \A i \in 1..n : t[i] = s[i]
  BY Appended
<1>2. x \in Seq(Char) /\ Pending(s) \in Nat
  BY TrimType
<1>3. y \in Seq(Char) /\ Len(y) = Pending(s) + 1 /\ y[Pending(s) + 1] = c
      /\ \A i \in 1..Pending(s) : Gap(y[i])
  BY <1>2, SpacedIs
<1>4. /\ v \in Seq(Char) /\ Len(v) = Len(x) + Len(y)
      /\ \A i \in 1..Len(x) + Len(y) : v[i] = IF i <= Len(x) THEN x[i] ELSE y[i - Len(x)]
  <2> HIDE DEF x, y
  <2> QED
    BY <1>2, <1>3, ConcatProperties, Zenon
<1> HIDE DEF n, v, x, y, u
<1>5. CASE Blank(s)
  <2>1. x = <<>> /\ Pending(s) = 0 /\ Len(x) = 0
    BY <1>5, BlankTrim DEF x
  <2>2. Ends(t, n + 1, n + 1)
    <3>1. /\ n + 1 \in 1..Len(t) /\ n + 1 \in n + 1..Len(t)
          /\ \A i \in 1..(n + 1) - 1 : i \in 1..n
          /\ \A i \in (n + 1) + 1..Len(t) : FALSE
      BY <1>1
    <3> QED
      BY <3>1, <1>1, <1>5 DEF Ends, Blank, n
  <2>3. u = SubSeq(t, n + 1, n + 1) /\ Pending(t) = Len(t) - (n + 1)
    BY <2>2, <1>1, EndsAre DEF u
  <2>4. u \in Seq(Char) /\ Len(u) = 1 /\ u[1] = c
    <3>1. n + 1 \in 1..Len(t) /\ n + 1 \in n + 1..Len(t) /\ (n + 1) - (n + 1) + 1 = 1
          /\ (n + 1) + 1 - 1 = n + 1 /\ 1 \in 1..1
      BY <1>1
    <3>2. /\ u \in Seq(Char) /\ Len(u) = (n + 1) - (n + 1) + 1
          /\ \A i \in 1..(n + 1) - (n + 1) + 1 : u[i] = t[(n + 1) + i - 1]
      BY <3>1, <2>3, <1>1, PartIs
    <3> QED
      BY <3>1, <3>2, <1>1
  <2>5. Len(v) = 1 /\ v[1] = c
    <3>1. Len(y) = 1 /\ y[1] = c
      BY <1>3, <2>1
    <3>2. 1 \in 1..Len(x) + Len(y) /\ ~(1 <= Len(x)) /\ 1 - Len(x) = 1
      BY <2>1, <3>1
    <3> QED
      BY <3>1, <3>2, <2>1, <1>4
  <2>6. \A i \in 1..Len(u) : u[i] = v[i]
    BY <2>4, <2>5
  <2>7. u = v
    BY <1>4, <2>4, <2>5, <2>6, SeqEqual, Zenon
  <2>8. Pending(t) = 0
    BY <2>3, <1>1
  <2> QED
    BY <2>7, <2>8 DEF u, v, x, y
<1>6. CASE ~Blank(s)
  <2>1. PICK a, b : Ends(s, a, b)
    BY <1>6, EndsExist
  <2>2. a \in 1..n /\ b \in a..n /\ ~Gap(s[a]) /\ (\A i \in 1..a - 1 : Gap(s[i]))
        /\ \A i \in b + 1..n : Gap(s[i])
    BY <2>1 DEF Ends, n
  <2>3. Ends(t, a, n + 1)
    <3>1. /\ a \in 1..Len(t) /\ n + 1 \in a..Len(t) /\ a \in 1..n
          /\ \A i \in 1..a - 1 : i \in 1..n
          /\ \A i \in (n + 1) + 1..Len(t) : FALSE
      BY <1>1, <2>2
    <3> QED
      BY <3>1, <2>2, <1>1 DEF Ends
  <2>4. /\ u = SubSeq(t, a, n + 1) /\ Pending(t) = Len(t) - (n + 1)
        /\ x = SubSeq(s, a, b) /\ Pending(s) = n - b
    BY <2>1, <2>3, <1>1, EndsAre DEF u, x, n
  <2>5. /\ x \in Seq(Char) /\ Len(x) = b - a + 1
        /\ \A i \in 1..b - a + 1 : x[i] = s[a + i - 1]
    BY <2>2, <2>4, PartIs DEF n
  <2>6. /\ u \in Seq(Char) /\ Len(u) = (n + 1) - a + 1
        /\ \A i \in 1..(n + 1) - a + 1 : u[i] = t[a + i - 1]
    <3>1. a \in 1..Len(t) /\ n + 1 \in a..Len(t)
      BY <2>2, <1>1
    <3> QED
      BY <3>1, <2>4, <1>1, PartIs
  <2>7. Len(v) = Len(u)
    BY <2>2, <2>4, <2>5, <2>6, <1>1, <1>3, <1>4
  <2>8. ASSUME NEW i \in 1..Len(u) PROVE u[i] = v[i]
    <3>1. /\ i \in 1..(n + 1) - a + 1 /\ i \in 1..Len(x) + Len(y) /\ a + i - 1 \in 1..n + 1
          /\ u[i] = t[a + i - 1]
      <4>1. i \in 1..(n + 1) - a + 1
        BY <2>6
      <4>2. i \in 1..Len(x) + Len(y)
        BY <2>7, <1>4
      <4>3. a + i - 1 \in 1..n + 1
        BY <4>1, <2>2, <1>1
      <4> QED
        BY <4>1, <4>2, <4>3, <2>6
    <3>2. CASE i <= b - a + 1
      <4>1. a + i - 1 \in 1..n /\ i \in 1..b - a + 1
        BY <3>1, <3>2, <2>2, <1>1
      <4>2. v[i] = x[i]
        BY <3>1, <3>2, <2>5, <1>4
      <4> QED
        BY <4>1, <4>2, <3>1, <2>5, <1>1
    <3>3. CASE ~(i <= b - a + 1)
      <4>1. v[i] = y[i - (b - a + 1)]
        BY <3>1, <3>3, <2>5, <1>4
      <4>2. CASE a + i - 1 = n + 1
        <5>1. i - (b - a + 1) = (n - b) + 1
          BY <4>2, <2>2, <1>1
        <5> QED
          BY <5>1, <4>1, <4>2, <3>1, <2>4, <1>1, <1>3
      <4>3. CASE a + i - 1 # n + 1
        <5>1. a + i - 1 \in b + 1..n /\ a + i - 1 \in 1..n
              /\ i - (b - a + 1) \in 1..n - b
          BY <4>3, <3>1, <3>3, <2>2, <1>1
        <5>2. Gap(u[i]) /\ Gap(v[i])
          BY <5>1, <4>1, <3>1, <2>2, <2>4, <1>1, <1>3
        <5> QED
          BY <5>2, GapIsOne
      <4> QED
        BY <4>2, <4>3
    <3> QED
      BY <3>2, <3>3
  <2>9. u = v
    BY <1>4, <2>6, <2>7, <2>8, SeqEqual, Zenon
  <2>10. Pending(t) = 0
    BY <2>4, <1>1
  <2> QED
    BY <2>9, <2>10 DEF u, v, x, y
<1> QED
  BY <1>5, <1>6

-----------------------------------------------------------------------------
(* What each character does to the reader.                                 *)

Usual(c) == c \in Digit \cup Other
Mark(c) == c \in {";", "#"}
Sep(c) == c \in {"=", ":"}
Open(c) == c = "["
Close(c) == c = "]"
Return(c) == c = "\r"
Newline(c) == c = "\n"

\* The table and what goes with it are the same.
SameTable(q, r) ==
  /\ r.table = q.table /\ r.current = q.current /\ r.errors = q.errors
  /\ q.skipping <=> r.skipping

\* So is the place, but for the buffer's size.
Alike(q, r) ==
  /\ r.state = q.state /\ r.buf = q.buf /\ r.value = q.value /\ r.spaces = q.spaces
  /\ SameTable(q, r)

LEMMA GrowAlike ==
  ASSUME NEW q \in Parser
  PROVE  Grow(q) \in Parser /\ Alike(q, Grow(q))
<1>1. Grow(q) \in Parser
  BY GrowType
<1>2. CASE Len(q.buf) > q.size - 2
  <2>1. Grow(q) = [q EXCEPT !.size = q.size + Chunk]
    BY <1>2 DEF Grow
  <2> QED
    BY <1>1, <2>1 DEF Parser, Alike, SameTable
<1>3. CASE ~(Len(q.buf) > q.size - 2)
  <2>1. Grow(q) = q
    BY <1>3 DEF Grow
  <2> QED
    BY <2>1 DEF Alike, SameTable
<1> QED
  BY <1>1, <1>2, <1>3

LEMMA WriteSame ==
  ASSUME NEW q \in Parser, NEW s \in Seq(Char \cup {NUL}), NEW r, r = Bounded(Put(q, s))
  PROVE  /\ r.buf = q.buf \o s /\ r.state = q.state /\ r.value = q.value
         /\ r.spaces = q.spaces /\ SameTable(q, r)
<1> DEFINE t == [q EXCEPT !.buf = q.buf \o s]
<1>1. q.buf \o s \in Seq(Char \cup {NUL})
  BY ParserFields
<1>2. /\ t.buf = q.buf \o s /\ t.state = q.state /\ t.value = q.value
      /\ t.spaces = q.spaces /\ SameTable(q, t) /\ t \in Parser
  BY <1>1 DEF Parser, SameTable
<1>3. Put(q, s) = t
  BY DEF Put
<1> HIDE DEF t
<1>4. r = [t EXCEPT !.overflow = t.overflow \/ Len(t.buf) > t.size]
  BY <1>3 DEF Bounded
<1>5. /\ r.buf = t.buf /\ r.state = t.state /\ r.value = t.value
      /\ r.spaces = t.spaces /\ SameTable(t, r)
  BY <1>2, <1>4 DEF Parser, SameTable
<1> QED
  BY <1>2, <1>5 DEF SameTable

\* The cases of a round
LEMMA RoundIs ==
  ASSUME NEW q, NEW c
  PROVE  /\ Gap(c) => Round(q, c) = Space(q)
         /\ Mark(c) /\ q.state = "Value" => Round(q, c) = Bounded(Put(q, <<c>>))
         /\ Return(c) => Round(q, c) = q
         /\ Newline(c) => Round(q, c) = EndLine(q)
         /\ Open(c) => Round(q, c) = [q EXCEPT !.state = "Section"]
         /\ Close(c) => Round(q, c) = Reset(SectionCreate(q, BufString(q)))
<1>1. ASSUME Gap(c) PROVE Round(q, c) = Space(q)
  BY <1>1 DEF Round, Gap
<1>2. ASSUME Mark(c), q.state = "Value" PROVE Round(q, c) = Bounded(Put(q, <<c>>))
  BY <1>2 DEF Round, Mark
<1>3. ASSUME Return(c) PROVE Round(q, c) = q
  BY <1>3 DEF Round, Return
<1>4. ASSUME Newline(c) PROVE Round(q, c) = EndLine(q)
  BY <1>4 DEF Round, Newline
<1>5. ASSUME Open(c) PROVE Round(q, c) = [q EXCEPT !.state = "Section"]
  BY <1>5 DEF Round, Open
<1>6. ASSUME Close(c) PROVE Round(q, c) = Reset(SectionCreate(q, BufString(q)))
  BY <1>6 DEF Round, Close
<1> QED
  BY <1>1, <1>2, <1>3, <1>4, <1>5, <1>6

LEMMA RoundSeparates ==
  ASSUME NEW q, NEW c, Sep(c), q.state = "Key"
  PROVE  Round(q, c) =
           Bounded(Put([q EXCEPT !.state = "Value", !.value = Len(q.buf) + 2, !.spaces = 0],
                       <<NUL>>))
BY DEF Round, Sep

LEMMA RoundWrites ==
  ASSUME NEW q, NEW c, Usual(c) \/ (Sep(c) /\ q.state # "Key")
  PROVE  Round(q, c) = Ordinary(q, c)
<1>1. c \notin {" ", ";", "#", "\r", "\n", "[", "]"}
  BY DEF Usual, Sep, Digit, Other
<1>2. ~(c \in {"=", ":"} /\ q.state = "Key")
  BY DEF Usual, Sep, Digit, Other
<1> QED
  BY <1>1, <1>2 DEF Round

\* Whether a space is inside a key, a name or a value, or in front of one
Started(q) ==
  IF q.state = "Value" THEN Len(q.buf) >= q.value ELSE q.buf # <<>> /\ Head(q.buf) # NUL

LEMMA ConsumeSpace ==
  ASSUME NEW q \in Parser, ~q.skipping, NEW c, Gap(c), NEW r, r = Consume(q, c)
  PROVE  /\ r.state = q.state /\ r.buf = q.buf /\ r.value = q.value /\ SameTable(q, r)
         /\ Started(q) => r.spaces = q.spaces + 1
         /\ ~Started(q) => r.spaces = q.spaces
<1> DEFINE g == Grow(q)
<1>1. g \in Parser /\ Alike(q, g)
  BY GrowAlike
<1>2. r = Space(g)
  BY RoundIs DEF Consume
<1> HIDE DEF g
<1>3. Started(g) <=> Started(q)
  BY <1>1 DEF Alike, Started
<1>4. r = IF Started(g) THEN [g EXCEPT !.spaces = g.spaces + 1] ELSE g
  BY <1>2 DEF Space, Started
<1>5. /\ r.state = g.state /\ r.buf = g.buf /\ r.value = g.value /\ SameTable(g, r)
      /\ Started(g) => r.spaces = g.spaces + 1
      /\ ~Started(g) => r.spaces = g.spaces
  BY <1>1, <1>4 DEF Parser, SameTable
<1> QED
  BY <1>1, <1>3, <1>5 DEF Alike, SameTable

LEMMA ConsumeReturn ==
  ASSUME NEW q \in Parser, ~q.skipping, NEW c, Return(c), NEW r, r = Consume(q, c)
  PROVE  Alike(q, r)
<1>1. r = Grow(q)
  BY RoundIs DEF Consume
<1> QED
  BY <1>1, GrowAlike

\* An ordinary character, and a `;' or `#' in a value
LEMMA ConsumeUsual ==
  ASSUME NEW q \in Parser, ~q.skipping, NEW c \in Char,
         Usual(c) \/ (Sep(c) /\ q.state # "Key"), NEW r, r = Consume(q, c)
  PROVE  /\ r.state = q.state /\ r.buf = q.buf \o Spaced(q.spaces, c) /\ r.value = q.value
         /\ r.spaces = 0 /\ SameTable(q, r)
<1> DEFINE g == Grow(q)
           t == [g EXCEPT !.spaces = 0]
           s == Spaced(q.spaces, c)
<1>1. g \in Parser /\ Alike(q, g)
  BY GrowAlike
<1>2. r = Ordinary(g, c)
  BY <1>1, RoundWrites DEF Consume, Alike
<1> HIDE DEF g
<1>3. q.spaces \in Nat
  BY ParserFields
<1>4. s \in Seq(Char \cup {NUL})
  <2>1. s \in Seq(Char)
    BY <1>3, SpacedIs
  <2> QED
    BY <2>1
<1>5. /\ t \in Parser /\ t.state = q.state /\ t.buf = q.buf /\ t.value = q.value
      /\ t.spaces = 0 /\ SameTable(q, t)
  BY <1>1 DEF Parser, Alike, SameTable
<1>6. r = Bounded(Put(t, s))
  BY <1>1, <1>2 DEF Ordinary, Spaced, Alike
<1> HIDE DEF t, s
<1>7. /\ r.buf = t.buf \o s /\ r.state = t.state /\ r.value = t.value
      /\ r.spaces = t.spaces /\ SameTable(t, r)
  BY <1>4, <1>5, <1>6, WriteSame
<1> QED
  BY <1>5, <1>7 DEF s, SameTable

LEMMA ConsumeMark ==
  ASSUME NEW q \in Parser, ~q.skipping, NEW c \in Char, Mark(c), q.state = "Value",
         NEW r, r = Consume(q, c)
  PROVE  /\ r.state = q.state /\ r.buf = q.buf \o <<c>> /\ r.value = q.value
         /\ r.spaces = q.spaces /\ SameTable(q, r)
<1> DEFINE g == Grow(q)
<1>1. g \in Parser /\ Alike(q, g)
  BY GrowAlike
<1>2. r = Bounded(Put(g, <<c>>))
  BY <1>1, RoundIs DEF Consume, Alike
<1> HIDE DEF g
<1>3. <<c>> \in Seq(Char \cup {NUL})
  OBVIOUS
<1>4. /\ r.buf = g.buf \o <<c>> /\ r.state = g.state /\ r.value = g.value
      /\ r.spaces = g.spaces /\ SameTable(g, r)
  BY <1>1, <1>2, <1>3, WriteSame
<1> QED
  BY <1>1, <1>4 DEF Alike, SameTable

LEMMA ConsumeSeparator ==
  ASSUME NEW q \in Parser, ~q.skipping, NEW c, Sep(c), q.state = "Key",
         NEW r, r = Consume(q, c)
  PROVE  /\ r.state = "Value" /\ r.buf = q.buf \o <<NUL>> /\ r.value = Len(q.buf) + 2
         /\ r.spaces = 0 /\ SameTable(q, r)
<1> DEFINE g == Grow(q)
           t == [g EXCEPT !.state = "Value", !.value = Len(q.buf) + 2, !.spaces = 0]
<1>1. g \in Parser /\ Alike(q, g)
  BY GrowAlike
<1>2. r = Bounded(Put(t, <<NUL>>))
  BY <1>1, RoundSeparates DEF Consume, Alike
<1> HIDE DEF g
<1>3. <<NUL>> \in Seq(Char \cup {NUL}) /\ Len(q.buf) + 2 \in Nat
  BY ParserFields
<1>4. /\ t \in Parser /\ t.state = "Value" /\ t.buf = q.buf /\ t.value = Len(q.buf) + 2
      /\ t.spaces = 0 /\ SameTable(q, t)
  BY <1>1, <1>3 DEF Parser, Alike, SameTable
<1> HIDE DEF t
<1>5. /\ r.buf = t.buf \o <<NUL>> /\ r.state = t.state /\ r.value = t.value
      /\ r.spaces = t.spaces /\ SameTable(t, r)
  BY <1>2, <1>3, <1>4, WriteSame
<1> QED
  BY <1>4, <1>5 DEF SameTable

LEMMA ConsumeOpen ==
  ASSUME NEW q \in Parser, ~q.skipping, NEW c, Open(c), NEW r, r = Consume(q, c)
  PROVE  r.state = "Section" /\ r.buf = q.buf /\ r.spaces = q.spaces /\ SameTable(q, r)
<1> DEFINE g == Grow(q)
<1>1. g \in Parser /\ Alike(q, g)
  BY GrowAlike
<1>2. r = [g EXCEPT !.state = "Section"]
  BY RoundIs DEF Consume
<1> HIDE DEF g
<1>3. r.state = "Section" /\ r.buf = g.buf /\ r.spaces = g.spaces /\ SameTable(g, r)
  BY <1>1, <1>2 DEF Parser, SameTable
<1> QED
  BY <1>1, <1>3 DEF Alike, SameTable

\* Nothing is in the buffer, and a key is next.
Fresh(r) == r.state = "Key" /\ r.buf = <<>> /\ r.spaces = 0

LEMMA ResetIs ==
  ASSUME NEW q \in Parser
  PROVE  Fresh(Reset(q)) /\ SameTable(q, Reset(q))
BY DEF Reset, Fresh, SameTable, Parser

LEMMA ConsumeClose ==
  ASSUME NEW q \in Parser, ~q.skipping, NEW c, Close(c), ~Callback, NEW r, r = Consume(q, c)
  PROVE  /\ Fresh(r)
         /\ r.table = Append(q.table, NewSection(BufString(q)))
         /\ r.current = Len(q.table) + 1
         /\ r.errors = q.errors /\ ~r.skipping
<1> DEFINE g == Grow(q)
           name == BufString(q)
           t == SectionCreate(g, name)
           table == Append(g.table, NewSection(name))
<1>1. g \in Parser /\ Alike(q, g)
  BY GrowAlike
<1>2. name \in Seq(Char) /\ BufString(g) = name
  BY <1>1, BufStringType DEF Alike, BufString
<1>3. r = Reset(t)
  BY <1>2, RoundIs DEF Consume
<1> HIDE DEF g, name
<1>4. t \in Parser
  BY <1>1, <1>2, SectionCreateType
<1>5. t = [g EXCEPT !.table = table, !.current = Len(g.table) + 1]
  BY DEF SectionCreate
<1> HIDE DEF table
<1>6. t.table = table /\ t.current = Len(g.table) + 1 /\ t.errors = g.errors
      /\ (t.skipping <=> g.skipping)
  BY <1>1, <1>5 DEF Parser
<1>7. Fresh(r) /\ SameTable(t, r)
  BY <1>3, <1>4, ResetIs
<1> QED
  BY <1>1, <1>6, <1>7 DEF Alike, SameTable, table, name

LEMMA EndOfNothing ==
  ASSUME NEW q \in Parser, ~q.skipping, NEW c, Newline(c), q.state = "Key", q.buf = <<>>,
         NEW r, r = Consume(q, c)
  PROVE  Fresh(r) /\ SameTable(q, r)
<1> DEFINE g == Grow(q)
<1>1. g \in Parser /\ Alike(q, g)
  BY GrowAlike
<1>2. r = EndLine(g)
  BY RoundIs DEF Consume
<1> HIDE DEF g
<1>3. EndLine(g) = Reset(g)
  BY <1>1 DEF EndLine, Alike
<1>4. Fresh(r) /\ SameTable(g, r)
  BY <1>1, <1>2, <1>3, ResetIs
<1> QED
  BY <1>1, <1>4 DEF Alike, SameTable

LEMMA EndOfPair ==
  ASSUME NEW q \in Readers, ~q.skipping, NEW c, Newline(c), q.state = "Value",
         q.current # 0, ~Callback, NEW r, r = Consume(q, c)
  PROVE  /\ Fresh(r)
         /\ r.table = AddEntry(q.table, q.current, BufString(q), ValueString(q))
         /\ r.current = q.current /\ r.errors = q.errors /\ ~r.skipping
<1> DEFINE g == Grow(q)
           key == BufString(q)
           value == ValueString(q)
           t == EntryCreate(g, key, value)
           table == AddEntry(g.table, g.current, key, value)
<1>0. q \in Parser /\ Terminated(q)
  BY DEF Readers
<1>1. g \in Parser /\ Alike(q, g)
  BY <1>0, GrowAlike
<1>2. /\ key \in Seq(Char) /\ value \in Seq(Char)
      /\ BufString(g) = key /\ ValueString(g) = value
  BY <1>0, <1>1, BufStringType, ValueStringType DEF Alike, BufString, ValueString
<1>3. r = EndLine(g)
  BY RoundIs DEF Consume
<1> HIDE DEF g, key, value
<1>4. Sectioned(g) = g
  BY <1>1 DEF Sectioned, Alike, SameTable
<1>5. r = Reset([t EXCEPT !.value = 0])
  BY <1>1, <1>2, <1>3, <1>4 DEF EndLine, Alike
<1>6. t \in Parser
  BY <1>1, <1>2, EntryCreateType
<1>7. t = [g EXCEPT !.table = table]
  BY DEF EntryCreate
<1> HIDE DEF table
<1>8. t.table = table /\ t.current = g.current /\ t.errors = g.errors
      /\ (t.skipping <=> g.skipping)
  BY <1>1, <1>7 DEF Parser
<1> DEFINE u == [t EXCEPT !.value = 0]
<1> HIDE DEF t
<1>9. u \in Parser /\ SameTable(t, u)
  BY <1>6 DEF Parser, SameTable
<1>10. Fresh(r) /\ SameTable(u, r)
  BY <1>5, <1>9, ResetIs
<1> HIDE DEF u
<1> QED
  BY <1>1, <1>8, <1>9, <1>10 DEF Alike, SameTable, table, key, value

-----------------------------------------------------------------------------
(* What is in the buffer is what Trim leaves.                              *)

Buffer == Char \cup {NUL}

\* What is written is behind what was there: the NUL of a key, or nothing.
Behind(q, before) ==
  IF q.state = "Value" THEN q.value = Len(before) + 1 ELSE before = <<>>

LEMMA InBuffer ==
  ASSUME NEW s \in Seq(Char)
  PROVE  s \in Seq(Buffer)
BY DEF Buffer

LEMMA StartedBehind ==
  ASSUME NEW q \in Parser, NEW before \in Seq(Buffer), NEW s \in Seq(Char),
         Holds(q, before, s), Behind(q, before)
  PROVE  Started(q) <=> Trim(s) # <<>>
<1> DEFINE x == Trim(s)
<1>1. x \in Seq(Char) /\ x \in Seq(Buffer)
  BY TrimType, InBuffer
<1>2. q.buf = before \o x
  BY DEF Holds
<1> HIDE DEF x
<1>3. CASE q.state = "Value"
  <2>1. Len(before \o x) = Len(before) + Len(x) /\ Len(before) \in Nat /\ Len(x) \in Nat
    BY <1>1, ConcatProperties
  <2>2. x # <<>> <=> Len(x) >= 1
    BY <1>1
  <2>3. Len(before) + Len(x) >= Len(before) + 1 <=> Len(x) >= 1
    BY <2>1
  <2> QED
    BY <1>2, <1>3, <2>1, <2>2, <2>3 DEF Started, Behind, x
<1>4. CASE q.state # "Value"
  <2>1. q.buf = x
    BY <1>1, <1>2, <1>4, ConcatEmptySeq DEF Behind
  <2>2. x # <<>> => Head(x) \in Char
    BY <1>1
  <2>3. NUL \notin Char
    BY DEF NUL, Char, Digit, Other
  <2> QED
    BY <1>4, <2>1, <2>2, <2>3 DEF Started, x
<1> QED
  BY <1>3, <1>4

\* One more character of the part s is read.
Carried(q, before, s, c) ==
  LET r == Consume(q, c) IN
  Holds(r, before, Append(s, c)) /\ r.state = q.state /\ r.value = q.value /\ SameTable(q, r)

LEMMA HoldsSpace ==
  ASSUME NEW q \in Parser, ~q.skipping, NEW before \in Seq(Buffer), NEW s \in Seq(Char),
         Holds(q, before, s), Behind(q, before),
         NEW c \in Char, Gap(c)
  PROVE  Carried(q, before, s, c)
<1> DEFINE r == Consume(q, c)
           t == Append(s, c)
<1>0. r = Consume(q, c) /\ t = Append(s, c)
  OBVIOUS
<1> HIDE DEF r, t
<1>1. /\ r.state = q.state /\ r.buf = q.buf /\ r.value = q.value /\ SameTable(q, r)
      /\ Started(q) => r.spaces = q.spaces + 1
      /\ ~Started(q) => r.spaces = q.spaces
  BY <1>0, ConsumeSpace
<1>2. Trim(t) = Trim(s) /\ Pending(t) = IF Trim(s) = <<>> THEN Pending(s) ELSE Pending(s) + 1
  BY <1>0, TrimSpace
<1>3. Started(q) <=> Trim(s) # <<>>
  BY StartedBehind
<1> QED
  BY <1>1, <1>2, <1>3 DEF Holds, Carried, r, t

LEMMA NoGap ==
  ASSUME NEW c, Usual(c) \/ Sep(c) \/ Mark(c)
  PROVE  ~Gap(c)
BY DEF Usual, Sep, Mark, Gap, Digit, Other

LEMMA HoldsMore ==
  ASSUME NEW before \in Seq(Buffer), NEW s \in Seq(Char), NEW c \in Char, ~Gap(c),
         NEW b, b = before \o Trim(s)
  PROVE  b \o Spaced(Pending(s), c) = before \o Trim(Append(s, c))
<1> DEFINE x == Trim(s)
           y == Spaced(Pending(s), c)
<1>1. x \in Seq(Char) /\ Pending(s) \in Nat
  BY TrimType
<1>2. y \in Seq(Char)
  BY <1>1, SpacedIs
<1>3. x \in Seq(Buffer) /\ y \in Seq(Buffer)
  BY <1>1, <1>2, InBuffer
<1> HIDE DEF x, y
<1>4. Trim(Append(s, c)) = x \o y
  <2> DEFINE t == Append(s, c)
  <2>1. t = Append(s, c)
    OBVIOUS
  <2> HIDE DEF t
  <2>2. Trim(t) = Trim(s) \o Spaced(Pending(s), c)
    BY <2>1, TrimSolid
  <2> QED
    BY <2>1, <2>2 DEF x, y
<1>5. (before \o x) \o y = before \o (x \o y)
  BY <1>3, ConcatAssociative
<1> QED
  BY <1>4, <1>5 DEF x, y

LEMMA HoldsUsual ==
  ASSUME NEW q \in Parser, ~q.skipping, NEW before \in Seq(Buffer), NEW s \in Seq(Char),
         Holds(q, before, s),
         NEW c \in Char, Usual(c) \/ (Sep(c) /\ q.state # "Key")
  PROVE  Carried(q, before, s, c)
<1> DEFINE r == Consume(q, c)
           t == Append(s, c)
<1>0. r = Consume(q, c) /\ t = Append(s, c)
  OBVIOUS
<1> HIDE DEF r, t
<1>1. ~Gap(c)
  BY NoGap
<1>2. /\ r.state = q.state /\ r.buf = q.buf \o Spaced(q.spaces, c) /\ r.value = q.value
      /\ r.spaces = 0 /\ SameTable(q, r)
  BY <1>0, ConsumeUsual
<1>3. Pending(t) = 0
  BY <1>0, <1>1, TrimSolid
<1>4. r.buf = before \o Trim(t)
  <2>1. q.buf = before \o Trim(s) /\ q.spaces = Pending(s)
    BY DEF Holds
  <2> QED
    BY <2>1, <1>0, <1>1, <1>2, HoldsMore
<1> QED
  BY <1>2, <1>3, <1>4 DEF Holds, Carried, r, t

LEMMA SpacedOne ==
  ASSUME NEW c \in Char
  PROVE  Spaced(0, c) = <<c>>
<1> DEFINE y == Spaced(0, c)
           z == <<c>>
<1>1. y \in Seq(Char) /\ Len(y) = 1 /\ y[1] = c
  <2>1. 0 \in Nat /\ 0 + 1 = 1
    OBVIOUS
  <2> QED
    BY <2>1, SpacedIs
<1>2. z \in Seq(Char) /\ Len(z) = 1 /\ z[1] = c
  OBVIOUS
<1> HIDE DEF y, z
<1>3. y = z
  BY <1>1, <1>2, SeqEqual
<1> QED
  BY <1>3 DEF y, z

LEMMA HoldsMark ==
  ASSUME NEW q \in Parser, ~q.skipping, NEW before \in Seq(Buffer), NEW s \in Seq(Char),
         Holds(q, before, s), Pending(s) = 0, q.state = "Value",
         NEW c \in Char, Mark(c)
  PROVE  Carried(q, before, s, c)
<1> DEFINE r == Consume(q, c)
           t == Append(s, c)
<1>0. r = Consume(q, c) /\ t = Append(s, c)
  OBVIOUS
<1> HIDE DEF r, t
<1>1. ~Gap(c)
  BY NoGap
<1>2. /\ r.state = q.state /\ r.buf = q.buf \o <<c>> /\ r.value = q.value
      /\ r.spaces = q.spaces /\ SameTable(q, r)
  BY <1>0, ConsumeMark
<1>3. Pending(t) = 0
  BY <1>0, <1>1, TrimSolid
<1>4. q.buf = before \o Trim(s) /\ q.spaces = 0
  BY DEF Holds
<1>5. Spaced(Pending(s), c) = <<c>>
  BY SpacedOne
<1>6. r.buf = before \o Trim(t)
  BY <1>0, <1>1, <1>2, <1>4, <1>5, HoldsMore
<1> QED
  BY <1>2, <1>3, <1>4, <1>6 DEF Holds, Carried, r, t

\* A character that is written as it is, or is a space between two that are.
Writes(q, before, s, c) ==
  \/ Gap(c) /\ Behind(q, before)
  \/ Usual(c)
  \/ Sep(c) /\ q.state # "Key"
  \/ Mark(c) /\ Pending(s) = 0 /\ q.state = "Value"

LEMMA Carries ==
  ASSUME NEW q \in Parser, ~q.skipping, NEW before \in Seq(Buffer), NEW s \in Seq(Char),
         Holds(q, before, s), NEW c \in Char, Writes(q, before, s, c)
  PROVE  Carried(q, before, s, c)
<1>1. CASE Gap(c) /\ Behind(q, before)
  BY <1>1, HoldsSpace
<1>2. CASE Usual(c) \/ (Sep(c) /\ q.state # "Key")
  BY <1>2, HoldsUsual
<1>3. CASE Mark(c) /\ Pending(s) = 0 /\ q.state = "Value"
  BY <1>3, HoldsMark
<1> QED
  BY <1>1, <1>2, <1>3 DEF Writes


-----------------------------------------------------------------------------
(* What the lines of a file look like.                                     *)

LEMMA SubStringIs ==
  ASSUME NEW t \in Seq(Char), NEW a \in 1..Len(t) + 1, NEW b \in a - 1..Len(t),
         NEW u, u = SubSeq(t, a, b)
  PROVE  /\ u \in Seq(Char) /\ Len(u) = b - a + 1
         /\ \A i \in 1..Len(u) : u[i] = t[a + i - 1]
<1>1. CASE b >= a
  <2>1. a \in 1..Len(t) /\ b \in a..Len(t)
    BY <1>1
  <2>2. /\ u \in Seq(Char) /\ Len(u) = b - a + 1
        /\ \A i \in 1..b - a + 1 : u[i] = t[a + i - 1]
    BY <2>1, PartIs
  <2> QED
    BY <2>2
<1>2. CASE b = a - 1
  <2>1. a \in Int /\ b \in Int /\ b < a /\ b - a + 1 = 0
    BY <1>2
  <2>2. u = <<>>
    BY <2>1, SubSeqEmpty
  <2> QED
    BY <2>1, <2>2
<1> QED
  BY <1>1, <1>2

LEMMA SubStringNext ==
  ASSUME NEW t \in Seq(Char), NEW a \in 1..Len(t), NEW b \in a - 1..Len(t) - 1
  PROVE  SubSeq(t, a, b + 1) = Append(SubSeq(t, a, b), t[b + 1])
<1> DEFINE u == SubSeq(t, a, b)
           v == SubSeq(t, a, b + 1)
           w == Append(u, t[b + 1])
<1>1. a \in 1..Len(t) + 1 /\ b \in a - 1..Len(t) /\ b + 1 \in a - 1..Len(t) /\ b + 1 \in 1..Len(t)
  OBVIOUS
<1>2. u \in Seq(Char) /\ Len(u) = b - a + 1 /\ \A i \in 1..Len(u) : u[i] = t[a + i - 1]
  BY <1>1, SubStringIs
<1>3. v \in Seq(Char) /\ Len(v) = (b + 1) - a + 1 /\ \A i \in 1..Len(v) : v[i] = t[a + i - 1]
  BY <1>1, SubStringIs
<1>4. t[b + 1] \in Char
  BY <1>1, ElementOfSeq
<1>5. /\ w \in Seq(Char) /\ Len(w) = Len(u) + 1 /\ w[Len(u) + 1] = t[b + 1]
      /\ \A i \in 1..Len(u) : w[i] = u[i]
  BY <1>2, <1>4, AppendProperties
<1> HIDE DEF u, v, w
<1>6. Len(v) = Len(w) /\ Len(v) = Len(u) + 1
  BY <1>1, <1>2, <1>3, <1>5
<1>7. ASSUME NEW i \in 1..Len(v) PROVE v[i] = w[i]
  <2>1. CASE i = Len(u) + 1
    <3>1. a + i - 1 = b + 1
      BY <2>1, <1>1, <1>2
    <3> QED
      BY <3>1, <2>1, <1>3, <1>5
  <2>2. CASE i # Len(u) + 1
    <3>1. i \in 1..Len(u)
      BY <2>2, <1>2, <1>6
    <3> QED
      BY <3>1, <1>2, <1>3, <1>5
  <2> QED
    BY <2>1, <2>2
<1>8. v = w
  BY <1>3, <1>5, <1>6, <1>7, SeqEqual
<1> QED
  BY <1>8 DEF u, v, w

\* The characters of a line.
LEMMA GlyphKinds ==
  ASSUME NEW c \in Glyph
  PROVE  Usual(c) \/ Gap(c) \/ Mark(c) \/ Sep(c) \/ Open(c) \/ Close(c)
BY DEF Glyph, Letter, Char, Usual, Gap, Mark, Sep, Open, Close

LEMMA GlyphsDiffer ==
  ASSUME NEW c
  PROVE  /\ Open(c) => ~Usual(c) /\ ~Gap(c) /\ ~Sep(c) /\ ~Close(c)
         /\ Close(c) => ~Usual(c) /\ ~Gap(c) /\ ~Sep(c)
         /\ Sep(c) => ~Usual(c) /\ ~Gap(c)
         /\ Usual(c) => ~Gap(c)
BY DEF Usual, Gap, Sep, Open, Close, Digit, Other

LEMMA GlyphIsChar ==
  ASSUME NEW w \in Seq(Glyph)
  PROVE  w \in Seq(Char) /\ \A i \in 1..Len(w) : w[i] \in Glyph
BY DEF Glyph, Letter

PlainChar(c) == Usual(c) \/ Gap(c)

LEMMA PlainIs ==
  ASSUME NEW s \in Seq(Char)
  PROVE  Plain(s) <=> \A i \in 1..Len(s) : PlainChar(s[i])
<1>1. DOMAIN s = 1..Len(s)
  OBVIOUS
<1> QED
  BY <1>1, Zenon DEF Plain, Chars, PlainChar, Usual, Gap

\* A section: a is where it begins and b where it ends.
HeaderAt(w, a, b) ==
  /\ Ends(w, a, b) /\ a < b
  /\ Open(w[a]) /\ Close(w[b])
  /\ \A i \in a + 1..b - 1 : PlainChar(w[i])

LEMMA HeaderIs ==
  ASSUME NEW w \in Seq(Char), NEW a, NEW b, Ends(w, a, b), IsHeader(w)
  PROVE  HeaderAt(w, a, b) /\ Inner(w) = SubSeq(w, a + 1, b - 1)
<1> DEFINE t == Trim(w)
           u == SubSeq(t, 2, Len(t) - 1)
<1>1. Len(t) >= 2 /\ Head(t) = "[" /\ Last(t) = "]" /\ Plain(u)
  BY DEF IsHeader
<1>3. a \in 1..Len(w) /\ b \in a..Len(w) /\ Len(w) \in Nat
  BY DEF Ends
<1>4. t = SubSeq(w, a, b)
  BY EndsAre
<1> HIDE DEF t
<1>5. t \in Seq(Char) /\ Len(t) = b - a + 1 /\ \A i \in 1..b - a + 1 : t[i] = w[a + i - 1]
  BY <1>3, <1>4, PartIs
<1>6. a < b
  BY <1>1, <1>3, <1>5
<1>7. t[1] = w[a] /\ t[Len(t)] = w[b]
  <2>1. 1 \in 1..b - a + 1 /\ b - a + 1 \in 1..b - a + 1 /\ a + 1 - 1 = a /\ a + (b - a + 1) - 1 = b
    BY <1>3, <1>6
  <2> QED
    BY <2>1, <1>5
<1>8. Open(w[a]) /\ Close(w[b])
  <2>1. Head(t) = t[1] /\ Last(t) = t[Len(t)]
    BY <1>1, <1>5 DEF Last
  <2> QED
    BY <2>1, <1>1, <1>7 DEF Open, Close
<1>9. 2 \in 1..Len(t) + 1 /\ Len(t) - 1 \in 2 - 1..Len(t)
  BY <1>1, <1>3, <1>5
<1>10. /\ u \in Seq(Char) /\ Len(u) = Len(t) - 1 - 2 + 1
       /\ \A i \in 1..Len(u) : u[i] = t[2 + i - 1]
  BY <1>5, <1>9, SubStringIs
<1> DEFINE v == SubSeq(w, a + 1, b - 1)
<1>11. a + 1 \in 1..Len(w) + 1 /\ b - 1 \in a + 1 - 1..Len(w)
  BY <1>3, <1>6
<1>12. /\ v \in Seq(Char) /\ Len(v) = b - 1 - (a + 1) + 1
       /\ \A i \in 1..Len(v) : v[i] = w[a + 1 + i - 1]
  <2> DEFINE x == a + 1
             y == b - 1
  <2>0. x \in 1..Len(w) + 1 /\ y \in x - 1..Len(w)
    BY <1>3, <1>6
  <2>1. v = SubSeq(w, x, y)
    OBVIOUS
  <2> HIDE DEF x, y, v
  <2>2. v \in Seq(Char) /\ Len(v) = y - x + 1 /\ \A i \in 1..Len(v) : v[i] = w[x + i - 1]
    BY <2>0, <2>1, SubStringIs
  <2> QED
    BY <2>2 DEF x, y
<1> HIDE DEF u, v
<1>18. /\ a \in Nat /\ b \in Nat /\ a < b /\ Len(t) = b - a + 1
       /\ Len(u) = Len(t) - 1 - 2 + 1 /\ Len(v) = b - 1 - (a + 1) + 1
  <2>1. a \in Nat /\ b \in Nat /\ a < b
    BY <1>3, <1>6
  <2>2. Len(t) = b - a + 1
    BY <1>5
  <2>3. Len(u) = Len(t) - 1 - 2 + 1
    BY <1>10
  <2>4. Len(v) = b - 1 - (a + 1) + 1
    BY <1>12
  <2> QED
    BY <2>1, <2>2, <2>3, <2>4
<1>13. Len(u) = Len(v) /\ Len(v) = b - a - 1
  BY <1>18
<1>14. ASSUME NEW i \in 1..Len(u) PROVE u[i] = v[i]
  <2>1. i + 1 \in 1..b - a + 1 /\ 2 + i - 1 = i + 1 /\ a + (i + 1) - 1 = a + 1 + i - 1
        /\ i \in 1..Len(v)
    BY <1>13, <1>18
  <2> QED
    BY <2>1, <1>5, <1>10, <1>12
<1>15. u = v
  BY <1>10, <1>12, <1>13, <1>14, SeqEqual
<1>16. \A i \in 1..Len(v) : PlainChar(v[i])
  BY <1>1, <1>12, <1>15, PlainIs
<1>17. ASSUME NEW i \in a + 1..b - 1 PROVE PlainChar(w[i])
  <2>1. i - a \in 1..Len(v) /\ a + 1 + (i - a) - 1 = i
    BY <1>13, <1>18
  <2> QED
    BY <2>1, <1>12, <1>16
<1> QED
  BY <1>6, <1>8, <1>15, <1>17 DEF HeaderAt, Inner, u, v, t

\* A pair: m is where its separator is.
PairAt(w, m) ==
  /\ m \in 1..Len(w)
  /\ Sep(w[m])
  /\ \A i \in 1..m - 1 : PlainChar(w[i])
  /\ \A i \in m + 1..Len(w) : ~Open(w[i]) /\ ~Close(w[i])

LEMMA NoBrackets ==
  ASSUME NEW s \in Seq(Char)
  PROVE  Chars(s) \cap {"[", "]"} = {} <=> \A i \in 1..Len(s) : ~Open(s[i]) /\ ~Close(s[i])
<1>1. DOMAIN s = 1..Len(s)
  OBVIOUS
<1> QED
  BY <1>1, Zenon DEF Chars, Open, Close

LEMMA SeparatorIs ==
  ASSUME NEW w \in Seq(Char), Separator(w) # 0
  PROVE  Separator(w) \in 1..Len(w) /\ Sep(w[Separator(w)])
<1> DEFINE I == {i \in 1..Len(w) : Sep(w[i])}
<1>1. Separator(w) = IF I # {} THEN Min(I) ELSE 0
  BY DEF Separator, SelectInSeq, Sep
<1>2. I \in SUBSET Nat
  OBVIOUS
<1>3. I # {} => Min(I) \in I
  <2> SUFFICES ASSUME I # {} PROVE Min(I) \in I
    OBVIOUS
  <2> HIDE DEF I
  <2>1. \E m \in I : \A n \in I : m <= n
    BY <1>2, LeastNatural
  <2> QED
    BY <2>1 DEF Min
<1> HIDE DEF I
<1>4. Separator(w) \in I
  BY <1>1, <1>3
<1> QED
  BY <1>4 DEF I

LEMMA PairIs ==
  ASSUME NEW w \in Seq(Char), IsPair(w)
  PROVE  PairAt(w, Separator(w))
<1> DEFINE m == Separator(w)
           k == KeyPart(w)
           v == ValuePart(w)
<1>1. m \in 1..Len(w) /\ Sep(w[m]) /\ Len(w) \in Nat
  BY SeparatorIs DEF IsPair
<1>2. /\ k = SubSeq(w, 1, m - 1) /\ v = SubSeq(w, m + 1, Len(w))
      /\ Plain(k) /\ Chars(v) \cap {"[", "]"} = {}
  BY DEF IsPair, KeyPart, ValuePart
<1> HIDE DEF m, k, v
<1>3. k \in Seq(Char) /\ Len(k) = m - 1 - 1 + 1 /\ \A i \in 1..Len(k) : k[i] = w[1 + i - 1]
  <2>1. 1 \in 1..Len(w) + 1 /\ m - 1 \in 1 - 1..Len(w)
    BY <1>1
  <2> QED
    BY <2>1, <1>2, SubStringIs
<1>4. v \in Seq(Char) /\ Len(v) = Len(w) - (m + 1) + 1
      /\ \A i \in 1..Len(v) : v[i] = w[m + 1 + i - 1]
  <2> DEFINE x == m + 1
  <2>1. x \in 1..Len(w) + 1 /\ Len(w) \in x - 1..Len(w) /\ v = SubSeq(w, x, Len(w))
    BY <1>1, <1>2
  <2> HIDE DEF x
  <2>2. v \in Seq(Char) /\ Len(v) = Len(w) - x + 1 /\ \A i \in 1..Len(v) : v[i] = w[x + i - 1]
    BY <2>1, SubStringIs
  <2> QED
    BY <2>2 DEF x
<1>5. ASSUME NEW i \in 1..m - 1 PROVE PlainChar(w[i])
  <2>1. i \in 1..Len(k) /\ 1 + i - 1 = i
    BY <1>1, <1>3
  <2>2. PlainChar(k[i])
    BY <2>1, <1>2, <1>3, PlainIs
  <2> QED
    BY <2>1, <2>2, <1>3
<1>6. ASSUME NEW i \in m + 1..Len(w) PROVE ~Open(w[i]) /\ ~Close(w[i])
  <2>1. i - m \in 1..Len(v) /\ m + 1 + (i - m) - 1 = i
    BY <1>1, <1>4
  <2>2. ~Open(v[i - m]) /\ ~Close(v[i - m])
    BY <2>1, <1>2, <1>4, NoBrackets
  <2> QED
    BY <2>1, <2>2, <1>4
<1> QED
  BY <1>1, <1>5, <1>6 DEF PairAt, m

\* No line has two meanings.
LEMMA OneMeaning ==
  ASSUME NEW w \in Seq(Char)
  PROVE  /\ ~(IsPair(w) /\ IsHeader(w))
         /\ IsBlank(w) <=> Blank(w)
         /\ IsBlank(w) => ~IsPair(w) /\ ~IsHeader(w)
<1>1. IsBlank(w) <=> Blank(w)
  BY TrimType DEF IsBlank
<1>2. ASSUME IsPair(w) PROVE ~Blank(w)
  BY <1>2, PairIs, GlyphsDiffer DEF PairAt, Blank
<1>3. ASSUME IsHeader(w) PROVE ~Blank(w)
  <2>1. Len(Trim(w)) >= 2
    BY <1>3 DEF IsHeader
  <2> QED
    BY <2>1, BlankTrim
<1>4. ASSUME IsPair(w), IsHeader(w) PROVE FALSE
  <2>1. PICK a, b : Ends(w, a, b)
    BY <1>3, <1>4, EndsExist
  <2>2. a \in 1..Len(w) /\ Open(w[a])
    BY <2>1, <1>4, HeaderIs DEF HeaderAt, Ends
  <2> DEFINE m == Separator(w)
  <2>3. PairAt(w, m)
    BY <1>4, PairIs
  <2> HIDE DEF m
  <2>4. ~PlainChar(w[a]) /\ ~Sep(w[a])
    BY <2>2, GlyphsDiffer DEF PlainChar
  <2>5. a \in 1..m - 1 \/ a = m \/ a \in m + 1..Len(w)
    BY <2>2, <2>3 DEF PairAt
  <2> QED
    BY <2>2, <2>3, <2>4, <2>5 DEF PairAt
<1> QED
  BY <1>1, <1>2, <1>3, <1>4

-----------------------------------------------------------------------------
(* The strings the reader makes of its buffer.                             *)

LEMMA NoTerminator ==
  ASSUME NEW c \in Char
  PROVE  c # NUL
BY DEF NUL, Char, Digit, Other

LEMMA BufStringIs ==
  ASSUME NEW q, q.buf \in Seq(Buffer), NEW n, First(q.buf, {NUL}, n)
  PROVE  BufString(q) = IF n = 0 THEN q.buf ELSE SubSeq(q.buf, 1, n - 1)
<1> DEFINE s == q.buf
           m == SelectInSeq(s, LAMBDA c : c = NUL)
           I == {i \in 1..Len(s) : s[i] = NUL}
<1>1. Len(s) \in Nat
  OBVIOUS
<1>2. I = Matches(s, {NUL})
  BY DEF Matches
<1>3. m = IF I # {} THEN Min(I) ELSE 0
  BY DEF SelectInSeq
<1> HIDE DEF I
<1>4. First(s, {NUL}, m)
  BY <1>1, <1>2, <1>3, FirstOfSet
<1>5. BufString(q) = IF m = 0 THEN s ELSE SubSeq(s, 1, m - 1)
  BY DEF BufString
<1> HIDE DEF m
<1>6. m = n
  BY <1>1, <1>4, FirstIsUnique
<1> QED
  BY <1>5, <1>6

LEMMA WholeBuffer ==
  ASSUME NEW q, NEW s \in Seq(Char), q.buf = s
  PROVE  BufString(q) = s
<1>1. s \in Seq(Buffer) /\ Len(s) \in Nat /\ \A i \in 1..Len(s) : s[i] # NUL
  BY InBuffer, NoTerminator
<1>2. First(s, {NUL}, 0)
  BY <1>1 DEF First
<1>3. BufString(q) = IF 0 = 0 THEN q.buf ELSE SubSeq(q.buf, 1, 0 - 1)
  BY <1>1, <1>2, BufStringIs
<1> QED
  BY <1>3

\* A key, its NUL and a value
LEMMA KeyAndValue ==
  ASSUME NEW q, NEW k \in Seq(Char), NEW v \in Seq(Char),
         q.buf = (k \o <<NUL>>) \o v, q.value = Len(k) + 2
  PROVE  BufString(q) = k /\ ValueString(q) = v
<1> DEFINE one == <<NUL>>
           x == k \o one
           s == x \o v
           n == Len(k) + 1
<1>1. k \in Seq(Buffer) /\ v \in Seq(Buffer) /\ one \in Seq(Buffer) /\ Len(one) = 1 /\ one[1] = NUL
  BY InBuffer DEF Buffer
<1>2. Len(k) \in Nat /\ Len(v) \in Nat /\ \A i \in 1..Len(k) : k[i] # NUL
  BY NoTerminator
<1> HIDE DEF one
<1>3. /\ x \in Seq(Buffer) /\ Len(x) = Len(k) + Len(one)
      /\ \A i \in 1..Len(k) + Len(one) : x[i] = IF i <= Len(k) THEN k[i] ELSE one[i - Len(k)]
  BY <1>1, ConcatProperties
<1> HIDE DEF x
<1>4. /\ s \in Seq(Buffer) /\ Len(s) = Len(x) + Len(v)
      /\ \A i \in 1..Len(x) + Len(v) : s[i] = IF i <= Len(x) THEN x[i] ELSE v[i - Len(x)]
  <2>1. x \in Seq(Buffer) /\ v \in Seq(Buffer)
    BY <1>1, <1>3
  <2> QED
    BY <2>1, ConcatProperties
<1>5. q.buf = s
  BY DEF x, one
<1> HIDE DEF s
<1>6. Len(x) = n /\ Len(s) = n + Len(v) /\ n \in 1..Len(s) /\ n \in Nat
  BY <1>1, <1>2, <1>3, <1>4
<1>7. \A i \in 1..Len(k) : x[i] = k[i] /\ s[i] = k[i]
  BY <1>1, <1>2, <1>3, <1>4, <1>6
<1>8. s[n] = NUL
  <2>1. n \in 1..Len(k) + Len(one) /\ ~(n <= Len(k)) /\ n - Len(k) = 1 /\ n <= Len(x)
        /\ n \in 1..Len(x) + Len(v)
    BY <1>1, <1>2, <1>6
  <2> QED
    BY <2>1, <1>1, <1>3, <1>4
<1>9. \A i \in 1..Len(v) : s[n + i] = v[i]
  <2> SUFFICES ASSUME NEW i \in 1..Len(v) PROVE s[n + i] = v[i]
    OBVIOUS
  <2>1. n + i \in 1..Len(x) + Len(v) /\ ~(n + i <= Len(x)) /\ n + i - Len(x) = i
    BY <1>2, <1>6
  <2> QED
    BY <2>1, <1>4
<1>10. BufString(q) = k
  <2>1. \A j \in 1..Len(s) : j < n => j \in 1..Len(k)
    BY <1>6
  <2>2. First(s, {NUL}, n)
    <3>1. \A j \in 1..Len(s) : j < n => s[j] # NUL
      BY <2>1, <1>2, <1>7
    <3> QED
      BY <3>1, <1>6, <1>8 DEF First
  <2>3. BufString(q) = SubSeq(s, 1, n - 1)
    <3>1. q.buf \in Seq(Buffer) /\ First(q.buf, {NUL}, n)
      BY <2>2, <1>4, <1>5
    <3>2. BufString(q) = IF n = 0 THEN q.buf ELSE SubSeq(q.buf, 1, n - 1)
      BY <3>1, BufStringIs, Zenon
    <3>3. n # 0
      BY <1>2
    <3> QED
      BY <3>2, <3>3, <1>5
  <2>4. SubSeq(s, 1, n - 1) = Upto(s, Len(k))
    BY <1>2 DEF Upto
  <2> DEFINE u == Upto(s, Len(k))
  <2>5. Len(k) \in 0..Len(s)
    BY <1>2, <1>6
  <2>6. u \in Seq(Buffer) /\ Len(u) = Len(k) /\ \A i \in 1..Len(k) : u[i] = s[i]
    BY <2>5, <1>4, UptoType
  <2> HIDE DEF u
  <2>7. \A i \in 1..Len(u) : u[i] = k[i]
    BY <2>6, <1>7
  <2>8. u = k
    BY <2>6, <2>7, <1>1, SeqEqual
  <2> QED
    BY <2>3, <2>4, <2>8 DEF u
<1>11. ValueString(q) = v
  <2> DEFINE y == n + 1
             u == SubSeq(s, y, Len(s))
  <2>1. ValueString(q) = u
    <3>1. q.value = y
      BY <1>2
    <3> QED
      BY <3>1, <1>5 DEF ValueString
  <2>2. y \in Int /\ Len(s) \in Int /\ \A i \in y..Len(s) : i \in 1..Len(s)
    BY <1>6, <1>2
  <2>9. \A i \in y..Len(s) : s[i] \in Buffer
    BY <2>2, <1>4, ElementOfSeq
  <2> HIDE DEF y
  <2>3. /\ u \in Seq(Buffer) /\ Len(u) = (IF y <= Len(s) THEN Len(s) - y + 1 ELSE 0)
        /\ \A i \in 1..Len(s) - y + 1 : u[i] = s[y + i - 1]
    BY <2>2, <2>9, SubSeqProperties
  <2> HIDE DEF u
  <2>4. Len(u) = Len(v) /\ Len(s) - y + 1 = Len(v)
    BY <2>3, <1>2, <1>6 DEF y
  <2>5. \A i \in 1..Len(u) : y + i - 1 = n + i
    BY <1>6, <2>4 DEF y
  <2>6. \A i \in 1..Len(u) : u[i] = v[i]
    BY <2>3, <2>4, <2>5, <1>9
  <2>7. u = v
    BY <2>3, <2>4, <2>6, <1>1, SeqEqual
  <2> QED
    BY <2>1, <2>7
<1> QED
  BY <1>10, <1>11

-----------------------------------------------------------------------------
(* One character of a line.                                                *)

LEMMA SoundKept ==
  ASSUME NEW q, NEW r, Sound(q), SameTable(q, r)
  PROVE  Sound(r)
BY DEF Sound, SameTable

LEMMA WaitsIs ==
  ASSUME NEW q, NEW t
  PROVE  Waits(q, t) <=> /\ q.state = (IF t = <<>> THEN "Section" ELSE "Key")
                         /\ q.buf = <<>> /\ q.spaces = 0 /\ q.table = t
<1>1. <<>> \o Trim(<<>>) = <<>>
  <2>1. <<>> \in Seq(Char)
    OBVIOUS
  <2> QED
    BY <2>1, TrimEmpty, ConcatEmptySeq, Zenon
<1> QED
  BY <1>1, TrimEmpty DEF Waits, Holds

LEMMA WaitsSpace ==
  ASSUME NEW q \in Parser, ~q.skipping, NEW t, Waits(q, t), NEW c, Gap(c),
         NEW r, r = Consume(q, c)
  PROVE  Waits(r, t) /\ SameTable(q, r)
<1>1. q.state # "Value" /\ q.buf = <<>>
  BY WaitsIs
<1>2. ~Started(q)
  BY <1>1 DEF Started
<1>3. r.state = q.state /\ r.buf = q.buf /\ r.spaces = q.spaces /\ SameTable(q, r)
  BY <1>2, ConsumeSpace
<1> QED
  BY <1>3, WaitsIs DEF SameTable

LEMMA WaitsReturn ==
  ASSUME NEW q, NEW r, NEW t, Alike(q, r), Waits(q, t)
  PROVE  Waits(r, t)
BY DEF Waits, Holds, Alike, SameTable

InHeaderAt(q, t, w, a, b, n) ==
  /\ n < a => Waits(q, t)
  /\ n \in a..b - 1 => q.state = "Section" /\ Holds(q, <<>>, SubSeq(w, a + 1, n)) /\ q.table = t
  /\ n >= b => Waits(q, Said(t, w))

LEMMA InHeaderIs ==
  ASSUME NEW q, NEW t, NEW w \in Seq(Char), NEW a, NEW b, Ends(w, a, b), NEW n
  PROVE  InHeader(q, t, w, n) <=> InHeaderAt(q, t, w, a, b, n)
<1>1. Min(Solid(w)) = a /\ Max(Solid(w)) = b
  BY EndsAre
<1> QED
  BY <1>1, Zenon DEF InHeader, InHeaderAt

\* The opening bracket.
LEMMA HeaderOpens ==
  ASSUME NEW q \in Parser, Sound(q), NEW t, Waits(q, t), NEW w \in Seq(Char),
         NEW a \in 1..Len(w), NEW c, Open(c), NEW r, r = Consume(q, c)
  PROVE  /\ r.state = "Section" /\ Holds(r, <<>>, SubSeq(w, a + 1, a)) /\ r.table = t
         /\ Sound(r)
<1>1. ~q.skipping
  BY DEF Sound
<1>2. r.state = "Section" /\ r.buf = q.buf /\ r.spaces = q.spaces /\ SameTable(q, r)
  BY <1>1, ConsumeOpen
<1>3. SubSeq(w, a + 1, a) = <<>>
  BY SubSeqEmpty
<1>4. Holds(q, <<>>, <<>>) /\ q.table = t
  BY DEF Waits
<1>5. Sound(r)
  BY <1>2, SoundKept
<1> QED
  BY <1>2, <1>3, <1>4, <1>5 DEF Holds, SameTable

\* Of a name or of a key the part s has been read.
Reads(q, state, t, s) ==
  q.state = state /\ Holds(q, <<>>, s) /\ q.table = t /\ Sound(q)

LEMMA NameGoesOn ==
  ASSUME NEW q \in Parser, NEW t, NEW s \in Seq(Char), NEW state, state # "Value",
         Reads(q, state, t, s), NEW c \in Char, PlainChar(c)
  PROVE  Reads(Consume(q, c), state, t, Append(s, c))
<1>1. ~q.skipping /\ Holds(q, <<>>, s)
  BY DEF Sound, Reads
<1>2. <<>> \in Seq(Buffer)
  OBVIOUS
<1>3. Behind(q, <<>>)
  BY DEF Behind, Reads
<1>4. Writes(q, <<>>, s, c)
  BY <1>3 DEF Writes, PlainChar
<1>5. Carried(q, <<>>, s, c)
  BY <1>1, <1>2, <1>4, Carries
<1> QED
  BY <1>5, SoundKept DEF Carried, SameTable, Reads

\* The closing bracket.
LEMMA HeaderCloses ==
  ASSUME ~Callback, NEW q \in Parser, Sound(q), NEW s \in Seq(Char), Holds(q, <<>>, s),
         NEW c, Close(c), NEW r, r = Consume(q, c)
  PROVE  Waits(r, Append(q.table, NewSection(Trim(s)))) /\ Sound(r)
<1> DEFINE x == NewSection(Trim(s))
           u == Append(q.table, x)
<1>1. ~q.skipping /\ q.errors = 0
  BY DEF Sound
<1>2. Trim(s) \in Seq(Char)
  BY TrimType
<1>3. q.buf = Trim(s)
  BY <1>2, ConcatEmptySeq DEF Holds
<1>4. BufString(q) = Trim(s)
  BY <1>2, <1>3, WholeBuffer
<1>5. /\ Fresh(r) /\ r.table = u /\ r.current = Len(q.table) + 1
      /\ r.errors = q.errors /\ ~r.skipping
  BY <1>1, <1>4, ConsumeClose
<1>6. q.table \in Tables
  BY DEF Parser, Tables, Section, Entry
<1> HIDE DEF x
<1>7. u # <<>> /\ Len(u) = Len(q.table) + 1
  BY <1>6 DEF Tables
<1> HIDE DEF u
<1>8. Waits(r, u)
  BY <1>5, <1>7, WaitsIs DEF Fresh
<1> QED
  BY <1>1, <1>5, <1>7, <1>8 DEF Sound, u, x

LEMMA HeaderStep ==
  ASSUME ~Callback, NEW q \in Parser, Sound(q), NEW t, NEW w \in Seq(Glyph),
         NEW a, NEW b, Ends(w, a, b), IsHeader(w), NEW n \in 0..Len(w) - 1,
         InHeaderAt(q, t, w, a, b, n), NEW m, m = n + 1, NEW r, r = Consume(q, w[m])
  PROVE  InHeaderAt(r, t, w, a, b, m) /\ Sound(r)
<1> DEFINE c == w[m]
<1>1. w \in Seq(Char) /\ m \in 1..Len(w) /\ c \in Char /\ Len(w) \in Nat
  BY GlyphIsChar DEF Glyph, Letter
<1>2. HeaderAt(w, a, b) /\ Inner(w) = SubSeq(w, a + 1, b - 1)
  BY <1>1, HeaderIs
<1>3. /\ a \in 1..Len(w) /\ b \in 1..Len(w) /\ a < b /\ Open(w[a]) /\ Close(w[b])
      /\ \A i \in 1..a - 1 : Gap(w[i])
      /\ \A i \in b + 1..Len(w) : Gap(w[i])
      /\ \A i \in a + 1..b - 1 : PlainChar(w[i])
  BY <1>2 DEF HeaderAt, Ends
<1>4. ~q.skipping
  BY DEF Sound
<1>5. CASE m < a
  <2>1. n < a /\ m \in 1..a - 1
    BY <1>1, <1>3, <1>5
  <2>2. Gap(c) /\ Waits(q, t)
    BY <2>1, <1>3 DEF InHeaderAt
  <2>3. Waits(r, t) /\ SameTable(q, r)
    BY <2>2, <1>4, WaitsSpace
  <2>4. m \notin a..b - 1 /\ ~(m >= b)
    BY <1>1, <1>3, <1>5
  <2> QED
    BY <2>3, <2>4, SoundKept DEF InHeaderAt
<1>6. CASE m = a
  <2>1. n < a
    BY <1>3, <1>6
  <2>2. Waits(q, t) /\ Open(c)
    BY <2>1, <1>3, <1>6 DEF InHeaderAt
  <2>3. /\ r.state = "Section" /\ Holds(r, <<>>, SubSeq(w, a + 1, m)) /\ r.table = t
        /\ Sound(r)
    BY <2>2, <1>1, <1>3, <1>6, HeaderOpens
  <2>4. ~(m < a) /\ ~(m >= b)
    BY <1>3, <1>6
  <2> QED
    BY <2>3, <2>4 DEF InHeaderAt
<1>7. CASE a < m /\ m < b
  <2> DEFINE s == SubSeq(w, a + 1, n)
             u == SubSeq(w, a + 1, m)
  <2>1. n \in a..b - 1 /\ m \in a + 1..b - 1 /\ ~(m < a) /\ ~(m >= b)
    BY <1>1, <1>3, <1>7
  <2>2. q.state = "Section" /\ Holds(q, <<>>, s) /\ q.table = t /\ PlainChar(c)
    BY <2>1, <1>3 DEF InHeaderAt
  <2>3. a + 1 \in 1..Len(w) /\ n \in (a + 1) - 1..Len(w) - 1 /\ n \in (a + 1) - 1..Len(w)
        /\ a + 1 \in 1..Len(w) + 1
    BY <1>1, <1>3, <2>1
  <2>4. u = Append(s, c)
    BY <2>3, <1>1, SubStringNext
  <2>5. s \in Seq(Char)
    BY <2>3, <1>1, SubStringIs
  <2> HIDE DEF s, u, c
  <2>6. r = Consume(q, c)
    BY DEF c
  <2>7. Reads(r, "Section", t, u)
    <3>1. Reads(q, "Section", t, s) /\ "Section" # "Value"
      BY <2>2 DEF Reads
    <3> QED
      BY <3>1, <2>2, <2>4, <2>5, <2>6, <1>1, NameGoesOn
  <2> QED
    BY <2>1, <2>7 DEF InHeaderAt, Reads, u
<1>8. CASE m = b
  <2> DEFINE s == SubSeq(w, a + 1, b - 1)
  <2>1. n \in a..b - 1 /\ n = b - 1 /\ ~(m < a) /\ m \notin a..b - 1
    BY <1>1, <1>3, <1>8
  <2>2. Holds(q, <<>>, s) /\ q.table = t
    BY <2>1 DEF InHeaderAt
  <2>3. Close(c)
    BY <1>3, <1>8
  <2>4. a + 1 \in 1..Len(w) + 1 /\ b - 1 \in (a + 1) - 1..Len(w)
    BY <1>1, <1>3
  <2>5. s \in Seq(Char)
    BY <2>4, <1>1, SubStringIs
  <2>6. Inner(w) = s
    BY <1>2
  <2> HIDE DEF s
  <2>7. Said(t, w) = Append(q.table, NewSection(Trim(s)))
    BY <2>2, <2>6 DEF Said
  <2>8. Waits(r, Said(t, w)) /\ Sound(r)
    BY <2>2, <2>3, <2>5, <2>7, HeaderCloses
  <2> QED
    BY <2>1, <2>8 DEF InHeaderAt
<1>9. CASE m > b
  <2>1. n >= b /\ m \in b + 1..Len(w) /\ ~(m < a) /\ m \notin a..b - 1
    BY <1>1, <1>3, <1>9
  <2>2. Gap(c) /\ Waits(q, Said(t, w))
    BY <2>1, <1>3 DEF InHeaderAt
  <2>3. Waits(r, Said(t, w)) /\ SameTable(q, r)
    BY <2>2, <1>4, WaitsSpace
  <2> QED
    BY <2>1, <2>3, SoundKept DEF InHeaderAt
<1> QED
  BY <1>1, <1>3, <1>5, <1>6, <1>7, <1>8, <1>9

\* The separator of a pair.
LEMMA PairSeparates ==
  ASSUME NEW q \in Parser, Sound(q), NEW s \in Seq(Char), q.state = "Key", Holds(q, <<>>, s),
         NEW c, Sep(c), NEW r, r = Consume(q, c)
  PROVE  /\ r.state = "Value" /\ r.value = Len(Trim(s)) + 2 /\ r.table = q.table
         /\ Holds(r, Trim(s) \o <<NUL>>, <<>>) /\ Sound(r)
<1> DEFINE x == Trim(s)
           y == x \o <<NUL>>
<1>1. ~q.skipping
  BY DEF Sound
<1>2. x \in Seq(Char)
  BY TrimType
<1>3. q.buf = x
  BY <1>2, ConcatEmptySeq DEF Holds
<1>4. /\ r.state = "Value" /\ r.buf = q.buf \o <<NUL>> /\ r.value = Len(q.buf) + 2
      /\ r.spaces = 0 /\ SameTable(q, r)
  BY <1>1, ConsumeSeparator
<1>5. y \in Seq(Buffer)
  <2>1. x \in Seq(Buffer) /\ <<NUL>> \in Seq(Buffer)
    BY <1>2, InBuffer DEF Buffer
  <2> QED
    BY <2>1, ConcatProperties
<1>6. y \o <<>> = y
  BY <1>5, ConcatEmptySeq, Zenon
<1>7. Holds(r, y, <<>>)
  BY <1>3, <1>4, <1>6, TrimEmpty DEF Holds
<1> QED
  BY <1>3, <1>4, <1>7, SoundKept DEF SameTable

\* Of a value behind a key and its NUL the part s has been read.
ReadsValue(q, t, before, s) ==
  /\ q.state = "Value" /\ q.value = Len(before) + 1 /\ Holds(q, before, s)
  /\ q.table = t /\ Sound(q)

LEMMA ValueGoesOn ==
  ASSUME NEW q \in Parser, NEW t, NEW before \in Seq(Buffer), NEW s \in Seq(Char),
         ReadsValue(q, t, before, s),
         NEW c \in Glyph, ~Open(c), ~Close(c), Mark(c) => Pending(s) = 0
  PROVE  ReadsValue(Consume(q, c), t, before, Append(s, c))
<1>1. ~q.skipping /\ q.state = "Value" /\ q.value = Len(before) + 1 /\ Holds(q, before, s)
  BY DEF Sound, ReadsValue
<1>2. c \in Char
  BY DEF Glyph, Letter
<1>3. Writes(q, before, s, c)
  BY <1>1, GlyphKinds DEF Writes, Behind
<1>4. Carried(q, before, s, c)
  BY <1>1, <1>2, <1>3, Carries
<1> QED
  BY <1>4, SoundKept DEF Carried, SameTable, ReadsValue

LEMMA NothingPending ==
  ASSUME NEW s \in Seq(Char), Len(s) > 0 => ~Gap(s[Len(s)])
  PROVE  Pending(s) = 0
<1>1. Len(s) \in Nat
  OBVIOUS
<1>2. CASE Blank(s)
  BY <1>2, BlankTrim
<1>3. CASE ~Blank(s)
  <2>1. PICK a, b : Ends(s, a, b)
    BY <1>3, EndsExist
  <2>2. Pending(s) = Len(s) - b
    BY <2>1, EndsAre
  <2>3. b \in 1..Len(s) /\ \A i \in b + 1..Len(s) : Gap(s[i])
    BY <2>1, <1>1 DEF Ends
  <2>4. b # Len(s) => Len(s) \in b + 1..Len(s) /\ Len(s) > 0
    BY <2>3, <1>1
  <2>5. b = Len(s)
    BY <2>3, <2>4
  <2> QED
    BY <2>2, <2>5, <1>1
<1> QED
  BY <1>2, <1>3

LEMMA MarkAfterNoGap ==
  ASSUME NEW w \in Seq(Char), IsPair(w), ~Shuffled(w), NEW k \in 2..Len(w), Mark(w[k])
  PROVE  ~Gap(w[k - 1])
<1>1. k \in DOMAIN w /\ k > 1
  OBVIOUS
<1> QED
  BY <1>1 DEF Shuffled, Mark, Gap

LEMMA PairStep ==
  ASSUME NEW q \in Parser, Sound(q), NEW t, NEW w \in Seq(Glyph), IsPair(w), ~Shuffled(w),
         NEW n \in 0..Len(w) - 1, InPair(q, t, w, n),
         NEW k, k = n + 1, NEW r, r = Consume(q, w[k])
  PROVE  InPair(r, t, w, k) /\ Sound(r)
<1> DEFINE c == w[k]
           m == Separator(w)
           x == Trim(KeyPart(w))
           before == x \o <<NUL>>
<1>1. w \in Seq(Char) /\ k \in 1..Len(w) /\ c \in Glyph /\ c \in Char /\ Len(w) \in Nat
  BY GlyphIsChar DEF Glyph, Letter
<1>2. PairAt(w, m)
  BY <1>1, PairIs
<1> HIDE DEF m
<1>3. /\ m \in 1..Len(w) /\ Sep(w[m])
      /\ \A i \in 1..m - 1 : PlainChar(w[i])
      /\ \A i \in m + 1..Len(w) : ~Open(w[i]) /\ ~Close(w[i])
  BY <1>2 DEF PairAt
<1>4. /\ q.table = t
      /\ n < m => q.state = "Key" /\ Holds(q, <<>>, SubSeq(w, 1, n))
      /\ n >= m => /\ q.state = "Value" /\ q.value = Len(x) + 2
                   /\ Holds(q, before, SubSeq(w, m + 1, n))
  BY DEF InPair, m
<1>5. KeyPart(w) = SubSeq(w, 1, m - 1)
  BY DEF KeyPart, m
<1>6. m - 1 \in 1 - 1..Len(w) /\ 1 \in 1..Len(w) + 1
  BY <1>1, <1>3
<1>7. KeyPart(w) \in Seq(Char)
  BY <1>1, <1>5, <1>6, SubStringIs
<1>8. x \in Seq(Char)
  BY <1>7, TrimType
<1> HIDE DEF x
<1>9. before \in Seq(Buffer) /\ Len(before) = Len(x) + 1 /\ Len(x) \in Nat
  <2> DEFINE one == <<NUL>>
  <2>1. x \in Seq(Buffer) /\ one \in Seq(Buffer) /\ Len(one) = 1
    BY <1>8, InBuffer DEF Buffer
  <2> HIDE DEF one
  <2>2. x \o one \in Seq(Buffer) /\ Len(x \o one) = Len(x) + Len(one)
    BY <2>1, ConcatProperties
  <2> QED
    BY <2>1, <2>2, <1>8 DEF one
<1> HIDE DEF before, c
<1>10. r = Consume(q, c)
  BY DEF c
<1>11. CASE k < m
  <2> DEFINE s == SubSeq(w, 1, n)
             u == SubSeq(w, 1, k)
  <2>1. n < m /\ k \in 1..m - 1 /\ n \in 1 - 1..Len(w) - 1 /\ n \in 1 - 1..Len(w)
        /\ ~(k >= m) /\ 1 \in 1..Len(w) /\ 1 \in 1..Len(w) + 1
    BY <1>1, <1>3, <1>11
  <2>2. u = Append(s, c)
    BY <2>1, <1>1, SubStringNext DEF c
  <2>3. s \in Seq(Char)
    BY <2>1, <1>1, SubStringIs
  <2>4. PlainChar(c)
    BY <2>1, <1>3 DEF c
  <2>5. Reads(q, "Key", t, s) /\ "Key" # "Value"
    BY <2>1, <1>4 DEF Reads
  <2> HIDE DEF s, u
  <2>6. Reads(r, "Key", t, u)
    BY <2>2, <2>3, <2>4, <2>5, <1>1, <1>10, NameGoesOn
  <2> QED
    BY <2>1, <2>6, <1>11 DEF InPair, Reads, u, m
<1>12. CASE k = m
  <2> DEFINE s == SubSeq(w, 1, n)
  <2>1. n < m /\ ~(k < m) /\ n = m - 1
    BY <1>1, <1>3, <1>12
  <2>2. s = KeyPart(w)
    BY <2>1, <1>5
  <2>3. q.state = "Key" /\ Holds(q, <<>>, KeyPart(w))
    BY <2>1, <2>2, <1>4
  <2>4. Sep(c)
    BY <1>3, <1>12 DEF c
  <2>5. /\ r.state = "Value" /\ r.value = Len(x) + 2 /\ r.table = q.table
        /\ Holds(r, before, <<>>) /\ Sound(r)
    BY <2>3, <2>4, <1>7, <1>10, PairSeparates DEF x, before
  <2>6. SubSeq(w, m + 1, k) = <<>>
    BY <1>3, <1>12, SubSeqEmpty
  <2> QED
    BY <2>1, <2>5, <2>6, <1>4, <1>12 DEF InPair, x, before, m
<1>13. CASE k > m
  <2> DEFINE s == SubSeq(w, m + 1, n)
             u == SubSeq(w, m + 1, k)
             y == m + 1
  <2>1. n >= m /\ k \in m + 1..Len(w) /\ ~(k < m)
    BY <1>1, <1>3, <1>13
  <2>2. y \in 1..Len(w) /\ n \in y - 1..Len(w) - 1 /\ n \in y - 1..Len(w) /\ y \in 1..Len(w) + 1
    BY <1>1, <1>3, <2>1
  <2> HIDE DEF y
  <2>3. SubSeq(w, y, n + 1) = Append(SubSeq(w, y, n), w[n + 1])
    BY <2>2, <1>1, SubStringNext
  <2>4. u = Append(s, c)
    BY <2>3 DEF c, y
  <2>5. /\ SubSeq(w, y, n) \in Seq(Char) /\ Len(SubSeq(w, y, n)) = n - y + 1
        /\ \A i \in 1..Len(SubSeq(w, y, n)) : SubSeq(w, y, n)[i] = w[y + i - 1]
    BY <2>2, <1>1, SubStringIs
  <2>6. ReadsValue(q, t, before, s)
    <3>1. Len(before) + 1 = Len(x) + 2
      BY <1>9
    <3> QED
      BY <3>1, <2>1, <1>4 DEF ReadsValue
  <2>7. Mark(c) => Pending(s) = 0
    <3> SUFFICES ASSUME Mark(c) PROVE Pending(s) = 0
      OBVIOUS
    <3>1. k \in 2..Len(w) /\ k - 1 = n
      BY <2>1, <1>1, <1>3
    <3>2. ~Gap(w[n])
      BY <3>1, <1>1, MarkAfterNoGap DEF c
    <3> DEFINE z == SubSeq(w, y, n)
    <3>3. z \in Seq(Char) /\ Len(z) = n - y + 1
      BY <2>5
    <3>4. \A i \in 1..Len(z) : z[i] = w[y + i - 1]
      BY <2>5
    <3> HIDE DEF z
    <3>5. Len(z) > 0 => Len(z) \in 1..Len(z) /\ y + Len(z) - 1 = n
      BY <3>3, <2>2
    <3>6. Len(z) > 0 => ~Gap(z[Len(z)])
      BY <3>2, <3>4, <3>5
    <3>7. Pending(z) = 0
      BY <3>3, <3>6, NothingPending
    <3> QED
      BY <3>7 DEF z, y
  <2>8. s \in Seq(Char)
    BY <2>5 DEF y
  <2>9. ~Open(c) /\ ~Close(c)
    BY <2>1, <1>3 DEF c
  <2> HIDE DEF s, u
  <2>10. ReadsValue(r, t, before, u)
    BY <2>4, <2>6, <2>7, <2>8, <2>9, <1>1, <1>9, <1>10, ValueGoesOn
  <2>11. r.value = Len(x) + 2
    BY <2>10, <1>9 DEF ReadsValue
  <2> QED
    BY <2>1, <2>10, <2>11 DEF InPair, ReadsValue, u, x, before, m
<1> QED
  BY <1>1, <1>3, <1>11, <1>12, <1>13

\* The characters of a line
LEMMA LineStep ==
  ASSUME ~Callback, NEW q \in Parser, Sound(q), NEW t, NEW w \in Seq(Glyph),
         IsPlainLine(w), ~Shuffled(w), NEW n \in 0..Len(w) - 1, InLine(q, t, w, n),
         NEW k, k = n + 1, NEW r, r = Consume(q, w[k])
  PROVE  InLine(r, t, w, k) /\ Sound(r)
<1>1. w \in Seq(Char) /\ k \in 1..Len(w)
  BY GlyphIsChar
<1>2. /\ ~(IsPair(w) /\ IsHeader(w))
      /\ IsBlank(w) <=> Blank(w)
      /\ IsBlank(w) => ~IsPair(w) /\ ~IsHeader(w)
  BY <1>1, OneMeaning
<1>3. CASE IsHeader(w)
  <2>1. ~Blank(w)
    BY <1>2, <1>3
  <2>2. PICK a, b : Ends(w, a, b)
    BY <1>1, <2>1, EndsExist
  <2>3. InHeaderAt(q, t, w, a, b, n)
    BY <1>1, <1>3, <2>2, InHeaderIs DEF InLine
  <2>4. InHeaderAt(r, t, w, a, b, k) /\ Sound(r)
    BY <1>3, <2>2, <2>3, HeaderStep
  <2>5. InHeader(r, t, w, k)
    BY <1>1, <2>2, <2>4, InHeaderIs
  <2> QED
    BY <1>2, <1>3, <2>4, <2>5 DEF InLine
<1>4. CASE IsPair(w)
  <2>1. InPair(r, t, w, k) /\ Sound(r)
    BY <1>4, PairStep DEF InLine
  <2> QED
    BY <1>2, <1>4, <2>1 DEF InLine
<1>5. CASE IsBlank(w)
  <2>1. Gap(w[k]) /\ Waits(q, t) /\ ~q.skipping
    BY <1>1, <1>2, <1>5 DEF InLine, Blank, Sound
  <2>2. Waits(r, t) /\ SameTable(q, r)
    BY <2>1, WaitsSpace
  <2> QED
    BY <1>2, <1>5, <2>2, SoundKept DEF InLine
<1> QED
  BY <1>3, <1>4, <1>5 DEF IsPlainLine

\* A carriage return changes nothing.
LEMMA ReturnStep ==
  ASSUME NEW q \in Parser, Sound(q), NEW t, NEW w, NEW n, InLine(q, t, w, n),
         NEW c, Return(c), NEW r, r = Consume(q, c)
  PROVE  InLine(r, t, w, n) /\ Sound(r)
<1>1. Alike(q, r)
  BY ConsumeReturn DEF Sound
<1> QED
  BY <1>1, SoundKept DEF Alike, SameTable, InLine, InHeader, InPair, Waits, Holds

-----------------------------------------------------------------------------
(* The end of a line, and the next one.                                    *)

LEMMA PartsOfPair ==
  ASSUME NEW w \in Seq(Char), IsPair(w)
  PROVE  /\ KeyPart(w) \in Seq(Char) /\ ValuePart(w) \in Seq(Char)
         /\ Split(w).key = Trim(KeyPart(w)) /\ Split(w).value = Trim(ValuePart(w))
         /\ Trim(KeyPart(w)) \in Seq(Char) /\ Trim(ValuePart(w)) \in Seq(Char)
<1> DEFINE m == Separator(w)
           y == m + 1
<1>1. m \in 1..Len(w) /\ Len(w) \in Nat
  BY PairIs DEF PairAt
<1>2. KeyPart(w) = SubSeq(w, 1, m - 1) /\ ValuePart(w) = SubSeq(w, y, Len(w))
  BY DEF KeyPart, ValuePart
<1> HIDE DEF m
<1>3. /\ m - 1 \in 1 - 1..Len(w) /\ 1 \in 1..Len(w) + 1
      /\ Len(w) \in y - 1..Len(w) /\ y \in 1..Len(w) + 1
  BY <1>1
<1> HIDE DEF y
<1>4. KeyPart(w) \in Seq(Char) /\ ValuePart(w) \in Seq(Char)
  BY <1>2, <1>3, SubStringIs
<1>5. Trim(KeyPart(w)) \in Seq(Char) /\ Trim(ValuePart(w)) \in Seq(Char)
  BY <1>4, TrimType
<1> QED
  BY <1>4, <1>5 DEF Split, NewEntry

LEMMA InnerType ==
  ASSUME NEW w \in Seq(Char), IsHeader(w)
  PROVE  Trim(Inner(w)) \in Seq(Char)
<1>1. ~Blank(w)
  BY OneMeaning
<1>2. PICK a, b : Ends(w, a, b)
  BY <1>1, EndsExist
<1>3. Inner(w) = SubSeq(w, a + 1, b - 1) /\ a < b /\ a \in 1..Len(w) /\ b \in 1..Len(w)
  <2>1. HeaderAt(w, a, b) /\ Inner(w) = SubSeq(w, a + 1, b - 1)
    BY <1>2, HeaderIs
  <2> QED
    BY <2>1 DEF HeaderAt, Ends
<1>4. a + 1 \in 1..Len(w) + 1 /\ b - 1 \in (a + 1) - 1..Len(w)
  BY <1>3
<1>5. Inner(w) \in Seq(Char)
  BY <1>3, <1>4, SubStringIs
<1> QED
  BY <1>5, TrimType

\* What a line says.
LEMMA SaidIs ==
  ASSUME NEW t \in Tables, NEW w \in Seq(Char)
  PROVE  /\ Said(t, w) \in Tables
         /\ IsHeader(w) => Said(t, w) # <<>>
         /\ t # <<>> => Said(t, w) # <<>>
         /\ t # <<>> /\ IsPair(w) => Len(Said(t, w)) = Len(t)
<1>1. CASE IsHeader(w)
  <2>1. Said(t, w) = Append(t, NewSection(Trim(Inner(w)))) /\ ~IsPair(w)
    BY <1>1, OneMeaning DEF Said
  <2>2. Extended(t, Said(t, w), NewSection(Trim(Inner(w))))
    BY <2>1, <1>1, InnerType, SectionAppended
  <2>3. Said(t, w) \in Tables /\ Len(Said(t, w)) # 0
    BY <2>2 DEF Extended
  <2> QED
    BY <2>1, <2>3 DEF Tables
<1>2. CASE IsPair(w)
  <2> DEFINE u == AddEntry(t, Len(t), Trim(KeyPart(w)), Trim(ValuePart(w)))
  <2>1. Said(t, w) = u /\ ~IsHeader(w)
    BY <1>2, OneMeaning, PartsOfPair DEF Said
  <2>2. Trim(KeyPart(w)) \in Seq(Char) /\ Trim(ValuePart(w)) \in Seq(Char)
    BY <1>2, PartsOfPair
  <2>3. Len(t) \in Nat
    BY DEF Tables
  <2>4. u \in Tables
    BY <2>2, <2>3, AddEntryType
  <2>5. ASSUME t # <<>> PROVE Len(u) = Len(t) /\ Len(t) # 0
    <3>1. Len(t) \in 1..Len(t)
      BY <2>3, <2>5 DEF Tables
    <3>2. Grown(t, u, Len(t), NewEntry(Trim(KeyPart(w)), Trim(ValuePart(w))))
      BY <3>1, <2>2, AddEntryAppends
    <3> QED
      BY <3>1, <3>2 DEF Grown, SameBut
  <2> HIDE DEF u
  <2>6. t # <<>> => u # <<>>
    BY <2>4, <2>5 DEF Tables
  <2> QED
    BY <2>1, <2>4, <2>5, <2>6
<1>3. CASE ~IsHeader(w) /\ ~IsPair(w)
  BY <1>3 DEF Said
<1> QED
  BY <1>1, <1>2, <1>3

LEMMA WaitsEnd ==
  ASSUME NEW q \in Parser, Sound(q), NEW t, t # <<>>, Waits(q, t), NEW c, Newline(c),
         NEW r, r = Consume(q, c)
  PROVE  Waits(r, t) /\ Sound(r)
<1>1. q.state = "Key" /\ q.buf = <<>> /\ q.table = t /\ ~q.skipping
  BY WaitsIs DEF Sound
<1>2. Fresh(r) /\ SameTable(q, r)
  BY <1>1, EndOfNothing
<1> QED
  BY <1>1, <1>2, WaitsIs, SoundKept DEF Fresh, SameTable

LEMMA LineEnds ==
  ASSUME ~Callback, NEW q \in Readers, Sound(q), NEW t \in Tables, NEW w \in Seq(Glyph),
         IsPlainLine(w), t = <<>> => IsHeader(w), InLine(q, t, w, Len(w)),
         NEW c, Newline(c), NEW r, r = Consume(q, c)
  PROVE  Waits(r, Said(t, w)) /\ Sound(r)
<1>1. w \in Seq(Char) /\ Len(w) \in Nat /\ q \in Parser
  BY GlyphIsChar DEF Readers
<1>2. /\ ~(IsPair(w) /\ IsHeader(w))
      /\ IsBlank(w) <=> Blank(w)
      /\ IsBlank(w) => ~IsPair(w) /\ ~IsHeader(w)
  BY <1>1, OneMeaning
<1>3. CASE IsHeader(w)
  <2>1. ~Blank(w)
    BY <1>2, <1>3
  <2>2. PICK a, b : Ends(w, a, b)
    BY <1>1, <2>1, EndsExist
  <2>3. InHeaderAt(q, t, w, a, b, Len(w)) /\ Len(w) >= b
    BY <1>1, <1>3, <2>2, InHeaderIs DEF InLine, Ends
  <2>4. Waits(q, Said(t, w))
    BY <2>3 DEF InHeaderAt
  <2>5. Said(t, w) # <<>>
    BY <1>1, <1>3, SaidIs
  <2> QED
    BY <1>1, <2>4, <2>5, WaitsEnd
<1>4. CASE IsBlank(w)
  <2>1. Said(t, w) = t /\ t # <<>> /\ Waits(q, t)
    BY <1>2, <1>4 DEF Said, InLine
  <2> QED
    BY <2>1, <1>1, WaitsEnd
<1>5. CASE IsPair(w)
  <2> DEFINE k == Trim(KeyPart(w))
             v == Trim(ValuePart(w))
  <2>1. k \in Seq(Char) /\ v \in Seq(Char) /\ Split(w).key = k /\ Split(w).value = v
    BY <1>1, <1>5, PartsOfPair
  <2>2. t # <<>> /\ ~IsHeader(w)
    BY <1>2, <1>5
  <2>3. Len(w) >= Separator(w)
    BY <1>1, <1>5, PairIs DEF PairAt
  <2>4. /\ q.table = t /\ q.state = "Value" /\ q.value = Len(k) + 2
        /\ Holds(q, k \o <<NUL>>, ValuePart(w))
    BY <2>3, <1>5 DEF InLine, InPair, ValuePart
  <2>5. q.buf = (k \o <<NUL>>) \o v
    BY <2>4 DEF Holds
  <2>6. Said(t, w) = AddEntry(t, Len(t), k, v)
    BY <2>1, <2>2, <1>5 DEF Said
  <2> HIDE DEF k, v
  <2>7. BufString(q) = k /\ ValueString(q) = v
    BY <2>1, <2>4, <2>5, KeyAndValue
  <2>8. ~q.skipping /\ q.errors = 0 /\ q.current = Len(t)
    BY <2>4 DEF Sound
  <2>9. Len(t) # 0
    BY <2>2 DEF Tables
  <2>10. /\ Fresh(r) /\ r.table = AddEntry(t, Len(t), k, v)
         /\ r.current = q.current /\ r.errors = q.errors /\ ~r.skipping
    BY <2>4, <2>7, <2>8, <2>9, EndOfPair
  <2>11. Said(t, w) # <<>> /\ Len(Said(t, w)) = Len(t)
    BY <1>1, <1>5, <2>2, SaidIs
  <2> QED
    BY <2>6, <2>8, <2>10, <2>11, WaitsIs DEF Fresh, Sound
<1> QED
  BY <1>3, <1>4, <1>5 DEF IsPlainLine

\* Before its first character a line holds nothing that counts.
LEMMA LineBegins ==
  ASSUME NEW q, NEW t \in Tables, NEW w \in Seq(Glyph), IsPlainLine(w),
         t = <<>> => IsHeader(w), Waits(q, t)
  PROVE  InLine(q, t, w, 0)
<1>1. w \in Seq(Char) /\ Len(w) \in Nat
  BY GlyphIsChar
<1>2. /\ ~(IsPair(w) /\ IsHeader(w))
      /\ IsBlank(w) <=> Blank(w)
      /\ IsBlank(w) => ~IsPair(w) /\ ~IsHeader(w)
  BY <1>1, OneMeaning
<1>3. CASE IsHeader(w)
  <2>1. ~Blank(w)
    BY <1>2, <1>3
  <2>2. PICK a, b : Ends(w, a, b)
    BY <1>1, <2>1, EndsExist
  <2>3. a \in 1..Len(w) /\ b \in a..Len(w)
    BY <2>2 DEF Ends
  <2>4. 0 < a /\ 0 \notin a..b - 1 /\ ~(0 >= b)
    BY <2>3, <1>1
  <2>5. InHeaderAt(q, t, w, a, b, 0)
    BY <2>4 DEF InHeaderAt
  <2>6. InHeader(q, t, w, 0)
    BY <1>1, <2>2, <2>5, InHeaderIs
  <2> QED
    BY <1>2, <1>3, <2>6 DEF InLine
<1>4. CASE IsBlank(w)
  BY <1>2, <1>4 DEF InLine
<1>5. CASE IsPair(w)
  <2>1. t # <<>>
    BY <1>2, <1>5
  <2>2. Separator(w) \in 1..Len(w)
    BY <1>1, <1>5, PairIs DEF PairAt
  <2>3. 0 < Separator(w) /\ ~(0 >= Separator(w))
    BY <2>2, <1>1
  <2>4. SubSeq(w, 1, 0) = <<>>
    BY <1>1, SubSeqEmpty
  <2>5. q.state = "Key" /\ Holds(q, <<>>, <<>>) /\ q.table = t
    BY <2>1 DEF Waits
  <2> QED
    BY <1>2, <1>5, <2>3, <2>4, <2>5 DEF InLine, InPair
<1> QED
  BY <1>3, <1>4, <1>5 DEF IsPlainLine

-----------------------------------------------------------------------------
(* What the lines of a file say, one line after another.                   *)

Lines == Seq(Letter)
Sayings(file) == [i \in 1..Len(file) |-> [t \in Tables |-> Said(t, Text(file[i]))]]

LEMMA SaidType ==
  ASSUME NEW t \in Tables, NEW l \in Lines
  PROVE  Said(t, Text(l)) \in Tables /\ Text(l) \in Seq(Glyph) /\ Text(l) \in Seq(Char)
<1>1. Text(l) \in Seq(Glyph)
  BY TextType DEF Lines
<1>2. Text(l) \in Seq(Char)
  BY <1>1, GlyphIsChar
<1> QED
  BY <1>1, <1>2, SaidIs

LEMMA MeaningIs ==
  ASSUME NEW file \in Seq(Lines)
  PROVE  \E f \in [0..Len(file) -> Tables] :
           Recursion(f, Len(file), <<>>, Sayings(file)) /\ MeaningOf(file) = f[Len(file)]
<1> DEFINE n == Len(file)
           next(t, i) == Said(t, Text(file[i]))
           Is(f) == f = [i \in 0..n |-> IF i = 0 THEN <<>> ELSE next(f[i - 1], i)]
           said == CHOOSE f : Is(f)
<1>1. n \in Nat /\ \A i \in 1..n : file[i] \in Lines
  OBVIOUS
<1>2. Sayings(file) \in [1..n -> [Tables -> Tables]]
  BY <1>1, SaidType DEF Sayings
<1>0. <<>> \in Tables
  BY DEF Tables
<1>3. PICK f \in [0..n -> Tables] : Recursion(f, n, <<>>, Sayings(file))
  <2> HIDE DEF n
  <2> QED
    BY <1>0, <1>1, <1>2, RecursionExists
<1>4. f[0] = <<>> /\ \A i \in 1..n : f[i] = next(f[i - 1], i)
  <2>1. f[0] = <<>>
    BY <1>3 DEF Recursion
  <2> SUFFICES ASSUME NEW i \in 1..n PROVE f[i] = next(f[i - 1], i)
    BY <2>1
  <2>2. f[i - 1] \in Tables
    BY <1>1, <1>3
  <2>3. f[i] = Sayings(file)[i][f[i - 1]]
    BY <1>3 DEF Recursion
  <2> QED
    BY <2>2, <2>3 DEF Sayings
<1>5. Is(f)
  <2> HIDE DEF next, n
  <2> QED
    BY <1>1, <1>3, <1>4
<1>6. Is(said)
  <2> HIDE DEF Is
  <2> QED
    BY <1>5
<1>7. MeaningOf(file) = said[n]
  BY DEF MeaningOf
<1> HIDE DEF said
<1>8. said[0] = <<>> /\ \A i \in 1..n : said[i] = next(said[i - 1], i)
  <2> HIDE DEF next, n
  <2> QED
    BY <1>1, <1>6
<1> DEFINE S == {i \in 0..n : said[i] = f[i]}
<1>9. 0 \in S /\ \A i \in 0..n : i < n /\ i \in S => i + 1 \in S
  <2>1. 0 \in S
    BY <1>1, <1>4, <1>8
  <2>2. ASSUME NEW i \in 0..n, i < n, i \in S PROVE i + 1 \in S
    <3>1. i + 1 \in 1..n /\ (i + 1) - 1 = i
      BY <2>2, <1>1
    <3>2. said[i + 1] = next(said[i], i + 1) /\ f[i + 1] = next(f[i], i + 1)
      BY <3>1, <1>4, <1>8
    <3>3. said[i] = f[i]
      BY <2>2
    <3> HIDE DEF next
    <3> QED
      BY <3>1, <3>2, <3>3
  <2> QED
    BY <2>1, <2>2
<1> HIDE DEF S
<1>10. 0..n \subseteq S
  BY <1>1, <1>9, IntervalInduction
<1>11. \A i \in 0..n : said[i] = f[i]
  BY <1>10 DEF S
<1>12. said[n] = f[n]
  <2>1. n \in 0..n
    BY <1>1
  <2> QED
    BY <2>1, <1>11
<1> QED
  BY <1>3, <1>7, <1>12

LEMMA MeaningEmpty == MeaningOf(<<>>) = <<>>
<1>1. <<>> \in Seq(Lines) /\ Len(<<>>) = 0
  OBVIOUS
<1>2. PICK f \in [0..Len(<<>>) -> Tables] :
        /\ Recursion(f, Len(<<>>), <<>>, Sayings(<<>>)) /\ MeaningOf(<<>>) = f[Len(<<>>)]
  BY <1>1, MeaningIs
<1>3. f[0] = <<>>
  BY <1>2 DEF Recursion
<1> QED
  BY <1>1, <1>2, <1>3

LEMMA MeaningAppend ==
  ASSUME NEW file \in Seq(Lines), NEW l \in Lines
  PROVE  MeaningOf(file) \in Tables /\ MeaningOf(Append(file, l)) = Said(MeaningOf(file), Text(l))
<1> DEFINE u == Append(file, l)
           n == Len(file)
<1>1. u \in Seq(Lines) /\ Len(u) = n + 1 /\ n \in Nat /\ u[n + 1] = l
      /\ \A i \in 1..n : u[i] = file[i]
  OBVIOUS
<1> HIDE DEF u, n
<1>2. PICK f \in [0..n -> Tables] : Recursion(f, n, <<>>, Sayings(file)) /\ MeaningOf(file) = f[n]
  BY MeaningIs DEF n
<1>3. PICK g \in [0..n + 1 -> Tables] :
        Recursion(g, n + 1, <<>>, Sayings(u)) /\ MeaningOf(u) = g[n + 1]
  BY <1>1, MeaningIs
<1>4. \A i \in 1..n : Sayings(file)[i] = Sayings(u)[i]
  BY <1>1 DEF Sayings, n
<1>5. g[n] = f[n]
  <2> DEFINE z == n + 1
             F == Sayings(file)
             G == Sayings(u)
  <2>1. n \in Nat /\ z \in Nat /\ n <= z
    BY <1>1
  <2>2. Recursion(f, n, <<>>, F) /\ Recursion(g, z, <<>>, G) /\ \A i \in 1..n : F[i] = G[i]
    BY <1>2, <1>3, <1>4
  <2> HIDE DEF z, F, G
  <2> QED
    BY <2>1, <2>2, FedAgree
<1>6. g[n + 1] = Sayings(u)[n + 1][g[n]]
  BY <1>1, <1>3 DEF Recursion
<1>7. Sayings(u)[n + 1][g[n]] = Said(g[n], Text(l))
  <2>1. g[n] \in Tables
    BY <1>1, <1>3
  <2> QED
    BY <2>1, <1>1 DEF Sayings
<1>8. f[n] \in Tables
  BY <1>1, <1>2
<1> QED
  BY <1>2, <1>3, <1>5, <1>6, <1>7, <1>8 DEF u

-----------------------------------------------------------------------------
(* The files that say what they mean.                                      *)

PlainFile(file) ==
  /\ file # <<>> => IsHeader(Text(file[1]))
  /\ \A i \in DOMAIN file : IsPlainLine(Text(file[i])) /\ ~Shuffled(Text(file[i]))

LEMMA PlainFileIs == WellFormed /\ Unshuffled <=> PlainFile(lines)
BY DEF PlainFile, WellFormed, Unshuffled

LEMMA FrontIs ==
  ASSUME NEW S, NEW s \in Seq(S), s # <<>>
  PROVE  /\ Front(s) \in Seq(S) /\ Len(Front(s)) = Len(s) - 1 /\ Last(s) \in S
         /\ Len(s) \in 1..Len(s) /\ s = Append(Front(s), Last(s)) /\ Last(s) = s[Len(s)]
         /\ \A i \in 1..Len(s) - 1 : Front(s)[i] = s[i]
<1> DEFINE k == Len(s) - 1
<1>1. Len(s) \in Nat /\ Len(s) # 0
  OBVIOUS
<1>2. k \in 0..Len(s) - 1 /\ k \in 0..Len(s) /\ k + 1 = Len(s) /\ Len(s) \in 1..Len(s)
  BY <1>1
<1>3. Front(s) = Upto(s, k) /\ Last(s) = s[Len(s)]
  BY DEF Front, Last, Upto
<1>4. Last(s) \in S
  BY <1>2, <1>3, ElementOfSeq
<1> HIDE DEF k
<1>5. Upto(s, k) \in Seq(S) /\ Len(Upto(s, k)) = k /\ \A i \in 1..k : Upto(s, k)[i] = s[i]
  BY <1>2, UptoType
<1>6. Upto(s, k + 1) = Append(Upto(s, k), s[k + 1])
  BY <1>2, UptoNext
<1>7. Upto(s, Len(s)) = s
  BY UptoAll
<1> QED
  BY <1>2, <1>3, <1>4, <1>5, <1>6, <1>7 DEF k

LEMMA FrontAppend ==
  ASSUME NEW S, NEW s \in Seq(S), NEW x \in S
  PROVE  /\ Append(s, x) \in Seq(S) /\ Append(s, x) # <<>>
         /\ Front(Append(s, x)) = s /\ Last(Append(s, x)) = x
<1> DEFINE t == Append(s, x)
<1>1. t \in Seq(S) /\ t # <<>> /\ Len(t) = Len(s) + 1 /\ t[Len(t)] = x /\ Len(s) \in Nat
      /\ \A i \in 1..Len(s) : t[i] = s[i]
  OBVIOUS
<1> HIDE DEF t
<1>2. /\ Front(t) \in Seq(S) /\ Len(Front(t)) = Len(t) - 1 /\ Last(t) = t[Len(t)]
      /\ \A i \in 1..Len(t) - 1 : Front(t)[i] = t[i]
  BY <1>1, FrontIs
<1>3. Len(t) - 1 = Len(s)
  BY <1>1
<1>4. Len(Front(t)) = Len(s) /\ \A i \in 1..Len(Front(t)) : Front(t)[i] = s[i]
  BY <1>1, <1>2, <1>3
<1>5. Front(t) = s
  BY <1>2, <1>4, SeqEqual
<1> QED
  BY <1>1, <1>2, <1>5 DEF t

\* The section of the first line stays.
LEMMA MeaningStarts ==
  ASSUME NEW file \in Seq(Lines), file # <<>>, IsHeader(Text(file[1]))
  PROVE  MeaningOf(file) # <<>>
<1> DEFINE n == Len(file)
<1>1. n \in Nat /\ n # 0 /\ \A i \in 1..n : file[i] \in Lines
  OBVIOUS
<1>2. PICK f \in [0..n -> Tables] : Recursion(f, n, <<>>, Sayings(file)) /\ MeaningOf(file) = f[n]
  BY MeaningIs
<1>3. \A i \in 1..n : f[i] = Said(f[i - 1], Text(file[i])) /\ f[i - 1] \in Tables
  <2> SUFFICES ASSUME NEW i \in 1..n
               PROVE  f[i] = Said(f[i - 1], Text(file[i])) /\ f[i - 1] \in Tables
    OBVIOUS
  <2>1. i - 1 \in 0..n
    BY <1>1
  <2>2. f[i - 1] \in Tables
    BY <2>1, <1>2
  <2>3. f[i] = Sayings(file)[i][f[i - 1]]
    BY <1>2 DEF Recursion
  <2> QED
    BY <2>2, <2>3 DEF Sayings
<1> DEFINE S == {i \in 0..n : i > 0 => f[i] # <<>>}
<1>4. 0 \in S
  BY <1>1
<1>5. ASSUME NEW i \in 0..n, i < n, i \in S PROVE i + 1 \in S
  <2>1. i + 1 \in 1..n /\ (i + 1) - 1 = i /\ i + 1 \in 0..n
    BY <1>5, <1>1
  <2>2. f[i + 1] = Said(f[i], Text(file[i + 1])) /\ f[i] \in Tables
    BY <2>1, <1>3
  <2>3. Text(file[i + 1]) \in Seq(Char)
    BY <2>1, <2>2, <1>1, SaidType
  <2>4. i > 0 => f[i] # <<>>
    BY <1>5
  <2>5. i = 0 => IsHeader(Text(file[i + 1]))
    BY <1>1
  <2>6. f[i + 1] # <<>>
    BY <2>2, <2>3, <2>4, <2>5, <1>5, SaidIs
  <2> QED
    BY <2>1, <2>6
<1> HIDE DEF S
<1>6. 0..n \subseteq S
  BY <1>1, <1>4, <1>5, IntervalInduction
<1>7. n \in S /\ n > 0
  BY <1>1, <1>6
<1> QED
  BY <1>2, <1>7 DEF S

LEMMA LastLine ==
  ASSUME NEW file \in Seq(Lines), file # <<>>, PlainFile(file),
         NEW t, t = MeaningOf(Front(file)), NEW w, w = Text(Last(file))
  PROVE  /\ w \in Seq(Glyph) /\ IsPlainLine(w) /\ ~Shuffled(w)
         /\ t \in Tables /\ (t = <<>> => IsHeader(w))
         /\ MeaningOf(file) = Said(t, w)
         /\ Last(file) \in Lines
<1> DEFINE s == Front(file)
           l == Last(file)
<1>1. /\ s \in Seq(Lines) /\ Len(s) = Len(file) - 1 /\ l \in Lines
      /\ Len(file) \in 1..Len(file) /\ file = Append(s, l) /\ l = file[Len(file)]
      /\ \A i \in 1..Len(file) - 1 : s[i] = file[i]
  BY FrontIs
<1>2. Len(file) \in DOMAIN file
  BY <1>1
<1>3. IsPlainLine(w) /\ ~Shuffled(w) /\ IsHeader(Text(file[1]))
  BY <1>1, <1>2 DEF PlainFile
<1> HIDE DEF s, l
<1>4. t \in Tables /\ MeaningOf(file) = Said(t, w)
  BY <1>1, MeaningAppend DEF s, l
<1>5. w \in Seq(Glyph)
  BY <1>1, <1>4, SaidType DEF l
<1>6. CASE s = <<>>
  <2>1. Len(file) = 1
    BY <1>1, <1>6
  <2> QED
    BY <2>1, <1>1, <1>3, <1>4, <1>5 DEF l
<1>7. CASE s # <<>>
  <2>1. Len(s) # 0 /\ Len(s) \in Nat
    BY <1>1, <1>7
  <2>2. 1 \in 1..Len(file) - 1
    BY <2>1, <1>1
  <2>3. s[1] = file[1]
    BY <2>2, <1>1
  <2>4. MeaningOf(s) # <<>>
    BY <2>3, <1>1, <1>3, <1>7, MeaningStarts
  <2> QED
    BY <2>4, <1>1, <1>3, <1>4, <1>5 DEF s, l
<1> QED
  BY <1>6, <1>7

\* A character of a line, or the newline behind it.
LEMMA ReadsOn ==
  ASSUME ~Callback, NEW q \in Readers, Sound(q), NEW l \in Lines, NEW t \in Tables,
         NEW w, w = Text(l), IsPlainLine(w), ~Shuffled(w), t = <<>> => IsHeader(w),
         NEW k \in 0..Len(l), InLine(q, t, w, Shown(l, k)),
         NEW c, k = Len(l) => Newline(c), k < Len(l) => c = l[k + 1],
         NEW r, r = Consume(q, c)
  PROVE  /\ Sound(r)
         /\ k < Len(l) => InLine(r, t, w, Shown(l, k + 1))
         /\ k = Len(l) => Waits(r, Said(t, w))
<1>1. l \in Seq(Letter) /\ w \in Seq(Glyph) /\ q \in Parser /\ Len(l) \in Nat /\ Len(w) \in Nat
  BY TextType DEF Lines, Readers
<1>2. CASE k = Len(l)
  <2>1. Shown(l, k) = Len(w)
    BY <1>1, <1>2, TextStart
  <2>2. Waits(r, Said(t, w)) /\ Sound(r)
    BY <2>1, <1>1, <1>2, LineEnds
  <2> QED
    BY <2>2, <1>2
<1>3. CASE k < Len(l)
  <2> DEFINE n == Shown(l, k)
  <2>1. k \in 0..Len(l) - 1 /\ c = l[k + 1] /\ k # Len(l)
    BY <1>1, <1>3
  <2>2. /\ n \in 0..Len(w)
        /\ l[k + 1] = "\r" => Shown(l, k + 1) = n
        /\ l[k + 1] # "\r" => /\ Shown(l, k + 1) = n + 1
                              /\ n < Len(w)
                              /\ w[n + 1] = l[k + 1]
    BY <2>1, <1>1, TextNext
  <2> HIDE DEF n
  <2>3. InLine(q, t, w, n)
    BY DEF n
  <2>4. CASE Return(c)
    <3>1. InLine(r, t, w, n) /\ Sound(r)
      BY <2>3, <2>4, <1>1, ReturnStep
    <3>2. Shown(l, k + 1) = n
      BY <2>1, <2>2, <2>4 DEF Return
    <3> QED
      BY <3>1, <3>2, <2>1
  <2>5. CASE ~Return(c)
    <3> DEFINE z == n + 1
    <3>1. Shown(l, k + 1) = z /\ n < Len(w) /\ w[z] = c
      BY <2>1, <2>2, <2>5 DEF Return
    <3>2. n \in 0..Len(w) - 1 /\ z = n + 1
      BY <3>1, <2>2, <1>1
    <3> HIDE DEF z
    <3>3. InLine(r, t, w, z) /\ Sound(r)
      BY <3>1, <3>2, <2>3, <1>1, LineStep
    <3> QED
      BY <3>1, <3>3, <2>1
  <2> QED
    BY <2>4, <2>5
<1> QED
  BY <1>1, <1>2, <1>3

\* Where the reader is in a file of which r is still to be read.
Follow(q, r, file) ==
  /\ Sound(q)
  /\ IF r = <<>> THEN Waits(q, MeaningOf(file))
     ELSE InLine(q, MeaningOf(Front(file)), Text(Last(file)),
                 Shown(Last(file), Len(Last(file)) + 1 - Len(r)))

LEMMA FollowsIs == Follows <=> (~Callback /\ edits = 0 /\ PlainFile(lines) => Follow(p, rest, lines))
BY PlainFileIs DEF Follows, Follow, Shown, Upto, Taken, Meaning

LEMMA FollowsNext ==
  Follows' <=> (~Callback /\ edits' = 0 /\ PlainFile(lines') => Follow(p', rest', lines'))
<1>1. (WellFormed /\ Unshuffled)' <=> PlainFile(lines')
  BY DEF PlainFile, WellFormed, Unshuffled
<1> QED
  BY <1>1 DEF Follows, Follow, Shown, Upto, Taken, Meaning

LEMMA FileType ==
  ASSUME Buffered
  PROVE  lines \in Seq(Lines) /\ Line \subseteq Lines /\ p \in Readers
<1>1. Line \subseteq Lines
  BY ConfigFileAssumption DEF Lines, Letter
<1>2. lines \in Seq(Line) /\ p \in Readers
  BY DEF Buffered, TypeOK, Readers
<1> QED
  BY <1>1, <1>2

LEMMA FollowsStart == Init => Follows
<1> SUFFICES ASSUME Init PROVE Follows
  OBVIOUS
<1>1. p = ParserInit /\ rest = <<>> /\ lines = <<>>
  BY DEF Init
<1>2. p.state = "Section" /\ p.buf = <<>> /\ p.spaces = 0 /\ p.table = <<>>
  BY <1>1 DEF ParserInit
<1>3. ~p.skipping /\ p.errors = 0 /\ p.current = 0
  BY <1>1 DEF ParserInit
<1>4. Waits(p, MeaningOf(lines))
  BY <1>1, <1>2, MeaningEmpty, WaitsIs
<1>5. Sound(p)
  BY <1>2, <1>3 DEF Sound
<1> QED
  BY <1>1, <1>4, <1>5, FollowsIs DEF Follow

LEMMA FollowsGetc == Buffered /\ Follows /\ Getc => Follows'
<1> SUFFICES ASSUME Buffered, Follows, Getc, ~Callback, edits' = 0, PlainFile(lines')
             PROVE  Follow(p', rest', lines')
  BY FollowsNext DEF AddLine, Getc
<1> DEFINE l == Last(lines)
           f == Whole(l)
           k == Taken
           c == Head(rest)
           t == MeaningOf(Front(lines))
           w == Text(l)
<1>0. rest # <<>> /\ p' = Consume(p, c) /\ rest' = Tail(rest) /\ lines' = lines /\ edits' = edits
  BY DEF Getc
<1>1. /\ l \in Line /\ Len(l) \in Nat /\ k \in 0..Len(l) /\ c = f[k + 1]
      /\ Len(rest') = Len(l) - k /\ rest' \in Seq(Char)
  BY <1>0, NextCharacter
<1>2. lines \in Seq(Lines) /\ p \in Readers /\ lines # <<>> /\ PlainFile(lines)
  BY <1>0, FileType DEF Buffered, RestOfLine
<1>3. /\ w \in Seq(Glyph) /\ IsPlainLine(w) /\ ~Shuffled(w)
      /\ t \in Tables /\ (t = <<>> => IsHeader(w))
      /\ MeaningOf(lines) = Said(t, w) /\ l \in Lines
  BY <1>2, LastLine
<1>4. k = Len(l) => Newline(c)
  BY <1>1, LineType DEF Newline
<1>5. k < Len(l) => c = l[k + 1]
  BY <1>1, LineType
<1>6. Sound(p) /\ InLine(p, t, w, Shown(l, k))
  BY <1>0, <1>2, FollowsIs DEF Follow, Taken
<1>7. Len(l) + 1 - Len(rest') = k + 1 /\ (rest' = <<>> <=> k = Len(l))
  BY <1>1
<1>8. lines' = lines /\ w = Text(l)
  BY <1>0
<1> HIDE DEF k, c, f, w
<1>9. /\ Sound(p')
      /\ k < Len(l) => InLine(p', t, w, Shown(l, k + 1))
      /\ k = Len(l) => Waits(p', Said(t, w))
  BY <1>0, <1>1, <1>2, <1>3, <1>4, <1>5, <1>6, <1>8, ReadsOn
<1>10. k # Len(l) => k < Len(l)
  BY <1>1
<1> QED
  BY <1>3, <1>7, <1>8, <1>9, <1>10 DEF Follow, w

LEMMA FollowsAddLine ==
  ASSUME NEW l \in Line
  PROVE  Buffered /\ Follows /\ AddLine(l) => Follows'
<1> SUFFICES ASSUME Buffered, Follows, AddLine(l), ~Callback, PlainFile(lines')
             PROVE  Follow(p', rest', lines')
  BY FollowsNext DEF AddLine, Getc
<1>1. /\ rest = <<>> /\ edits = 0 /\ rest' = Whole(l) /\ lines' = Append(lines, l) /\ p' = p
  BY DEF AddLine, Whole
<1>2. lines \in Seq(Lines) /\ l \in Lines
  BY FileType
<1>3. /\ lines' \in Seq(Lines) /\ lines' # <<>> /\ Front(lines') = lines /\ Last(lines') = l
  BY <1>1, <1>2, FrontAppend
<1>4. PlainFile(lines)
  <2>1. \A i \in DOMAIN lines : i \in DOMAIN lines' /\ lines'[i] = lines[i]
    BY <1>1, <1>2
  <2>2. lines # <<>> => 1 \in DOMAIN lines
    BY <1>2
  <2> QED
    BY <2>1, <2>2, <1>3 DEF PlainFile
<1> DEFINE t == MeaningOf(lines)
           w == Text(l)
<1>5. Sound(p) /\ Waits(p, t)
  BY <1>1, <1>4, FollowsIs DEF Follow
<1>6. w \in Seq(Glyph) /\ IsPlainLine(w) /\ t \in Tables /\ (t = <<>> => IsHeader(w))
  <2>1. t = MeaningOf(Front(lines')) /\ w = Text(Last(lines'))
    BY <1>3
  <2> QED
    BY <2>1, <1>3, LastLine
<1> HIDE DEF t, w
<1>7. InLine(p, t, w, 0)
  BY <1>5, <1>6, LineBegins
<1>8. Len(rest') = Len(l) + 1 /\ Len(l) \in Nat
  BY <1>1, LineType
<1>9. rest' # <<>> /\ Len(l) + 1 - Len(rest') = 0
  BY <1>8
<1>10. Shown(l, 0) = 0
  BY <1>2, TextStart DEF Lines
<1> QED
  BY <1>1, <1>3, <1>5, <1>7, <1>9, <1>10 DEF Follow, t, w

LEMMA FollowsEdit ==
  ASSUME NEW name, NEW key, NEW value
  PROVE  Buffered /\ Edit(name, key, value) => Follows'
<1> SUFFICES ASSUME Buffered, Edit(name, key, value) PROVE edits' # 0
  BY DEF Follows
<1>1. edits \in Nat /\ edits' = edits + 1
  BY ConfigFileAssumption DEF Buffered, TypeOK, Edit
<1> QED
  BY <1>1

\* The invariant: the buffer, and how far the reader has come in a file that
\* says what it means.
THEOREM Invariance == Spec => []IInv
<1>1. Follows /\ UNCHANGED vars => Follows'
  <2> SUFFICES ASSUME Follows, UNCHANGED vars PROVE Follows'
    OBVIOUS
  <2>1. p' = p /\ rest' = rest /\ lines' = lines /\ edits' = edits
    BY DEF vars
  <2> QED
    BY <2>1, FollowsIs, FollowsNext
<1>2. Buffered /\ Follows /\ [Next]_vars => Follows'
  BY <1>1, FollowsGetc, FollowsAddLine, FollowsEdit DEF Next
<1> QED
  BY <1>2, FollowsStart, BufferInvariance, PTL DEF Spec, IInv

\* A file of sections, pairs and blank lines gives the table its lines describe,
\* without an error: whatever spaces and carriage returns it has, no character
\* of a name, a key or a value is lost or kept too much.
THEOREM KeepsMeaning == Spec => []MeaningKept
<1>1. IInv => MeaningKept
  BY WaitsIs DEF IInv, Follows, MeaningKept, LineRead, Meaning, Sound
<1> QED
  BY <1>1, Invariance, PTL

-----------------------------------------------------------------------------
(* Reading a line as a whole.                                              *)

Ready(q, t) == q \in Readers /\ Sound(q) /\ Waits(q, t)

LEMMA FeedOne ==
  ASSUME NEW q \in Readers, NEW c \in Char
  PROVE  Feed(q, <<c>>) = Consume(q, c)
<1>1. <<>> \in Seq(Char) /\ <<c>> = Append(<<>>, c)
  OBVIOUS
<1>2. Feed(q, Append(<<>>, c)) = Consume(Feed(q, <<>>), c)
  BY <1>1, FeedAppend
<1> QED
  BY <1>1, <1>2, FeedEmpty

LEMMA LineSaid ==
  ASSUME ~Callback, NEW q, NEW t \in Tables, Ready(q, t), NEW w \in Seq(Glyph),
         IsPlainLine(w), ~Shuffled(w), t = <<>> => IsHeader(w)
  PROVE  Ready(Feed(q, Whole(w)), Said(t, w))
<1> DEFINE n == Len(w)
           at(k) == Feed(q, Upto(w, k))
           S == {k \in 0..n : at(k) \in Readers /\ Sound(at(k)) /\ InLine(at(k), t, w, k)}
<1>0. q \in Readers /\ Sound(q) /\ Waits(q, t)
  BY DEF Ready
<1>1. n \in Nat /\ w \in Seq(Char) /\ \A i \in 1..n : w[i] \in Char
  BY GlyphIsChar
<1>2. 0 \in S
  <2>1. Upto(w, 0) = <<>>
    BY <1>1, SubSeqEmpty DEF Upto
  <2>2. at(0) = q
    BY <2>1, <1>0, FeedEmpty
  <2>3. InLine(q, t, w, 0)
    BY <1>0, LineBegins
  <2> HIDE DEF at
  <2> QED
    BY <2>2, <2>3, <1>0, <1>1
<1>3. ASSUME NEW k \in 0..n, k < n, k \in S PROVE k + 1 \in S
  <2> DEFINE z == k + 1
             x == at(k)
             y == at(z)
  <2>1. k \in 0..n - 1 /\ z \in 1..n /\ z \in 0..n /\ z = k + 1
    BY <1>1, <1>3
  <2>2. x \in Readers /\ Sound(x) /\ InLine(x, t, w, k) /\ x \in Parser
    BY <1>3 DEF Readers
  <2>3. Upto(w, z) = Append(Upto(w, k), w[z])
    BY <2>1, <1>1, UptoNext
  <2>4. Upto(w, k) \in Seq(Char) /\ w[z] \in Char
    BY <2>1, <1>1, UptoType
  <2>5. y = Consume(x, w[z])
    BY <2>3, <2>4, <1>0, FeedAppend
  <2> HIDE DEF z, x, y, at
  <2>6. InLine(y, t, w, z) /\ Sound(y)
    BY <2>1, <2>2, <2>5, LineStep
  <2>7. y \in Readers
    BY <2>2, <2>4, <2>5, ConsumeReads
  <2> QED
    BY <2>1, <2>6, <2>7 DEF y, z
<1> HIDE DEF S, at
<1>4. 0..n \subseteq S
  BY <1>1, <1>2, <1>3, IntervalInduction
<1>5. n \in S
  BY <1>1, <1>4
<1> DEFINE x == at(n)
           c == "\n"
           r == Consume(x, c)
<1>6. x \in Readers /\ Sound(x) /\ InLine(x, t, w, n)
  BY <1>5 DEF S
<1>7. c \in Char /\ Newline(c)
  BY DEF Char, Newline
<1>8. x = Feed(q, w)
  BY <1>1, UptoAll DEF at
<1>9. Feed(q, Whole(w)) = r
  <2>1. <<c>> \in Seq(Char) /\ Whole(w) = w \o <<c>>
    BY <1>7 DEF Whole
  <2>2. Feed(q, w \o <<c>>) = Feed(x, <<c>>)
    BY <2>1, <1>0, <1>1, <1>8, FeedConcat
  <2>3. Feed(x, <<c>>) = Consume(x, c)
    BY <1>6, <1>7, FeedOne
  <2> QED
    BY <2>1, <2>2, <2>3
<1> HIDE DEF x, c
<1>10. Waits(r, Said(t, w)) /\ Sound(r)
  BY <1>6, <1>7, LineEnds
<1>11. r \in Readers
  BY <1>6, <1>7, ConsumeReads
<1> QED
  BY <1>9, <1>10, <1>11 DEF Ready

-----------------------------------------------------------------------------
(* The lines ini_table_write writes.                                       *)

LEMMA Joined ==
  ASSUME NEW S, NEW a \in Seq(S), NEW b \in Seq(S), NEW w, w = a \o b
  PROVE  /\ w \in Seq(S) /\ Len(w) = Len(a) + Len(b) /\ Len(a) \in Nat /\ Len(b) \in Nat
         /\ \A i \in 1..Len(a) : w[i] = a[i]
         /\ \A i \in 1..Len(b) : w[Len(a) + i] = b[i]
<1>1. Len(a) \in Nat /\ Len(b) \in Nat
  OBVIOUS
<1>2. /\ w \in Seq(S) /\ Len(w) = Len(a) + Len(b)
      /\ \A i \in 1..Len(a) + Len(b) : w[i] = IF i <= Len(a) THEN a[i] ELSE b[i - Len(a)]
  BY ConcatProperties
<1>3. ASSUME NEW i \in 1..Len(a) PROVE w[i] = a[i]
  <2>1. i \in 1..Len(a) + Len(b) /\ i <= Len(a)
    BY <1>1
  <2> QED
    BY <2>1, <1>2
<1>4. ASSUME NEW i \in 1..Len(b) PROVE w[Len(a) + i] = b[i]
  <2> DEFINE j == Len(a) + i
  <2>1. j \in 1..Len(a) + Len(b) /\ ~(j <= Len(a)) /\ j - Len(a) = i
    BY <1>1
  <2> HIDE DEF j
  <2>2. w[j] = b[i]
    BY <2>1, <1>2
  <2> QED
    BY <2>2 DEF j
<1> QED
  BY <1>1, <1>2, <1>3, <1>4

LEMMA SimpleIs ==
  ASSUME NEW s \in Seq(Char), Simple(s)
  PROVE  /\ Trim(s) = s /\ Plain(s) /\ Len(s) \in Nat
         /\ \A i \in 1..Len(s) : PlainChar(s[i])
BY PlainIs DEF Simple

LEMMA PlainIsGlyph ==
  ASSUME NEW c, PlainChar(c)
  PROVE  c \in Glyph /\ ~Open(c) /\ ~Close(c) /\ ~Mark(c) /\ ~Sep(c)
<1>1. c \in Glyph
  BY Zenon DEF PlainChar, Usual, Gap, Digit, Other, Glyph, Letter, Char
<1>2. ~Mark(c)
  BY Zenon DEF PlainChar, Usual, Gap, Digit, Other, Mark
<1> QED
  BY <1>1, <1>2, GlyphsDiffer DEF PlainChar

LEMMA OfGlyphs ==
  ASSUME NEW s \in Seq(Char), \A i \in 1..Len(s) : s[i] \in Glyph
  PROVE  s \in Seq(Glyph)
OBVIOUS

\* The line of a section.
LEMMA HeaderLine ==
  ASSUME NEW name \in Seq(Char), Simple(name), NEW o, Open(o), NEW c, Close(c),
         NEW w, w = (<<o>> \o name) \o <<c>>
  PROVE  w \in Seq(Glyph) /\ IsHeader(w) /\ ~Shuffled(w) /\ Trim(Inner(w)) = name
<1> DEFINE a == <<o>>
           b == <<c>>
           x == a \o name
           n == Len(name)
           z == n + 2
<1>0. o \in Char /\ c \in Char /\ o \in Glyph /\ c \in Glyph
  BY Zenon DEF Open, Close, Glyph, Letter, Char
<1>1. a \in Seq(Char) /\ b \in Seq(Char) /\ Len(a) = 1 /\ Len(b) = 1 /\ a[1] = o /\ b[1] = c
  BY <1>0
<1> HIDE DEF a, b
<1>2. n \in Nat /\ \A i \in 1..n : PlainChar(name[i])
  BY SimpleIs
<1>20. x = a \o name
  OBVIOUS
<1> HIDE DEF x
<1>3. /\ x \in Seq(Char) /\ Len(x) = Len(a) + n
      /\ \A i \in 1..Len(a) : x[i] = a[i]
      /\ \A i \in 1..n : x[Len(a) + i] = name[i]
  <2>1. a \in Seq(Char) /\ name \in Seq(Char)
    BY <1>1
  <2> HIDE DEF n
  <2>2. /\ x \in Seq(Char) /\ Len(x) = Len(a) + Len(name)
        /\ \A i \in 1..Len(a) : x[i] = a[i]
        /\ \A i \in 1..Len(name) : x[Len(a) + i] = name[i]
    BY <2>1, <1>20, Joined
  <2> QED
    BY <2>2 DEF n
<1>4. w = x \o b
  BY DEF a, b, x
<1>5. /\ w \in Seq(Char) /\ Len(w) = Len(x) + Len(b)
      /\ \A i \in 1..Len(x) : w[i] = x[i]
      /\ \A i \in 1..Len(b) : w[Len(x) + i] = b[i]
  BY <1>1, <1>3, <1>4, Joined
<1>6. Len(x) = n + 1 /\ Len(w) = z /\ z \in Nat /\ z = n + 2 /\ z = Len(x) + 1
  BY <1>1, <1>2, <1>3, <1>5
<1>7. w[1] = o
  <2>1. 1 \in 1..Len(a) /\ 1 \in 1..Len(x)
    BY <1>1, <1>2, <1>6
  <2> QED
    BY <2>1, <1>1, <1>3, <1>5
<1>8. w[z] = c
  <2>1. 1 \in 1..Len(b)
    BY <1>1
  <2> QED
    BY <2>1, <1>1, <1>5, <1>6
<1>9. ASSUME NEW i \in 1..n PROVE w[i + 1] = name[i]
  <2>1. i + 1 \in 1..Len(x) /\ Len(a) + i = i + 1
    BY <1>1, <1>2, <1>6
  <2> QED
    BY <2>1, <1>3, <1>5
<1> HIDE DEF z, n
<1>10. \A i \in 1..z : i = 1 \/ i = z \/ (i - 1 \in 1..n /\ (i - 1) + 1 = i)
  BY <1>2, <1>6
<1>11. w \in Seq(Glyph)
  <2>1. ASSUME NEW i \in 1..Len(w) PROVE w[i] \in Glyph
    <3>1. CASE i = 1 \/ i = z
      BY <3>1, <1>0, <1>7, <1>8
    <3>2. CASE i - 1 \in 1..n /\ (i - 1) + 1 = i
      <4>1. w[i] = name[i - 1]
        BY <3>2, <1>9
      <4> QED
        BY <4>1, <3>2, <1>2, PlainIsGlyph
    <3> QED
      BY <3>1, <3>2, <1>6, <1>10
  <2> QED
    BY <2>1, <1>5, OfGlyphs
<1>12. Ends(w, 1, z)
  <2>1. 1 \in 1..z /\ z \in 1..z /\ 1..1 - 1 = {} /\ z + 1..z = {}
    BY <1>2, <1>6
  <2>2. ~Gap(w[1]) /\ ~Gap(w[z])
    BY <1>7, <1>8, GlyphsDiffer
  <2> QED
    BY <2>1, <2>2, <1>6 DEF Ends
<1>13. Trim(w) = w
  <2>1. Trim(w) = SubSeq(w, 1, z)
    BY <1>5, <1>12, EndsAre
  <2> QED
    BY <2>1, <1>5, <1>6, SubSeqFull
<1> DEFINE u == SubSeq(w, 2, z - 1)
<1>14. u = name
  <2>1. 2 \in 1..Len(w) + 1 /\ z - 1 \in 2 - 1..Len(w)
    BY <1>2, <1>6
  <2>2. u \in Seq(Char) /\ Len(u) = z - 1 - 2 + 1 /\ \A i \in 1..Len(u) : u[i] = w[2 + i - 1]
    BY <2>1, <1>5, SubStringIs
  <2> HIDE DEF u
  <2>3. Len(u) = n /\ \A i \in 1..Len(u) : 2 + i - 1 = i + 1
    BY <2>2, <1>2, <1>6
  <2>4. \A i \in 1..Len(u) : u[i] = name[i]
    BY <2>2, <2>3, <1>9
  <2> QED
    BY <2>2, <2>3, <2>4, SeqEqual DEF n
<1> HIDE DEF u
<1>15. IsHeader(w)
  <2>1. Head(w) = w[1] /\ Last(w) = w[z] /\ Len(w) >= 2
    <3>1. w \in Seq(Char) /\ Len(w) = z /\ z >= 2 /\ n \in Nat
      BY <1>2, <1>5, <1>6
    <3>2. Len(w) >= 2
      BY <3>1
    <3>3. Last(w) = w[z]
      BY <3>1, Zenon DEF Last
    <3>4. Head(w) = w[1]
      OBVIOUS
    <3> QED
      BY <3>2, <3>3, <3>4
  <2>2. Head(w) = "[" /\ Last(w) = "]"
    BY <2>1, <1>7, <1>8 DEF Open, Close
  <2>3. Plain(SubSeq(w, 2, Len(w) - 1))
    BY <1>6, <1>14, SimpleIs DEF u
  <2> QED
    BY <2>1, <2>2, <2>3, <1>13 DEF IsHeader
<1>16. ~Shuffled(w)
  BY <1>5, <1>15, OneMeaning DEF Shuffled
<1>17. Inner(w) = name
  BY <1>6, <1>13, <1>14 DEF Inner, u
<1> QED
  BY <1>11, <1>15, <1>16, <1>17, SimpleIs

\* A space in front counts for nothing.
LEMMA TrimLead ==
  ASSUME NEW s \in Seq(Char), NEW u \in Seq(Char), Len(u) = Len(s) + 1, Gap(u[1]),
         \A i \in 1..Len(s) : u[i + 1] = s[i]
  PROVE  Trim(u) = Trim(s)
<1> DEFINE n == Len(s)
<1>1. n \in Nat /\ Len(u) = n + 1
  OBVIOUS
<1>2. \A i \in 1..n : u[i + 1] = s[i]
  OBVIOUS
<1> HIDE DEF n
<1>3. \A i \in 1..n + 1 : i = 1 \/ (i - 1 \in 1..n /\ (i - 1) + 1 = i)
  BY <1>1
<1>4. CASE Blank(s)
  <2>1. \A i \in 1..n : Gap(s[i])
    BY <1>4 DEF Blank, n
  <2>2. ASSUME NEW i \in 1..n + 1 PROVE Gap(u[i])
    <3>1. CASE i = 1
      BY <3>1
    <3>2. CASE i - 1 \in 1..n /\ (i - 1) + 1 = i
      BY <3>2, <2>1, <1>2
    <3> QED
      BY <3>1, <3>2, <1>3
  <2>3. Blank(u)
    BY <2>2, <1>1 DEF Blank
  <2> QED
    BY <2>3, <1>4, BlankTrim
<1>5. CASE ~Blank(s)
  <2>1. PICK a, b : Ends(s, a, b)
    BY <1>5, EndsExist
  <2> DEFINE x == a + 1
             y == b + 1
  <2>2. /\ a \in 1..n /\ b \in a..n /\ ~Gap(s[a]) /\ ~Gap(s[b])
        /\ \A i \in 1..a - 1 : Gap(s[i])
        /\ \A i \in b + 1..n : Gap(s[i])
    BY <2>1 DEF Ends, n
  <2>3. /\ x \in 1..n + 1 /\ y \in x..n + 1 /\ x = a + 1 /\ y = b + 1 /\ b \in 1..n
        /\ \A i \in 1..x - 1 : i = 1 \/ i - 1 \in 1..a - 1
        /\ \A i \in y + 1..n + 1 : i # 1 /\ i - 1 \in b + 1..n
        /\ \A i \in 1..x - 1 : i \in 1..n + 1
        /\ \A i \in y + 1..n + 1 : i \in 1..n + 1
    BY <2>2, <1>1
  <2>4. u[x] = s[a] /\ u[y] = s[b]
    BY <2>2, <2>3, <1>2
  <2> HIDE DEF x, y
  <2>5. ASSUME NEW i \in 1..x - 1 PROVE Gap(u[i])
    <3>1. CASE i = 1
      BY <3>1
    <3>2. CASE i # 1
      <4>1. i - 1 \in 1..n /\ (i - 1) + 1 = i /\ i - 1 \in 1..a - 1
        BY <3>2, <2>3, <1>3
      <4>2. u[i] = s[i - 1]
        BY <4>1, <1>2
      <4> QED
        BY <4>1, <4>2, <2>2
    <3> QED
      BY <3>1, <3>2
  <2>6. ASSUME NEW i \in y + 1..n + 1 PROVE Gap(u[i])
    <3>1. i - 1 \in 1..n /\ (i - 1) + 1 = i /\ i - 1 \in b + 1..n
      BY <2>3, <1>3
    <3>2. u[i] = s[i - 1]
      BY <3>1, <1>2
    <3> QED
      BY <3>1, <3>2, <2>2
  <2>7. Ends(u, x, y)
    BY <2>2, <2>3, <2>4, <2>5, <2>6, <1>1 DEF Ends
  <2> DEFINE v == SubSeq(s, a, b)
             w == SubSeq(u, x, y)
  <2>8. Trim(s) = v /\ Trim(u) = w
    BY <2>1, <2>7, EndsAre
  <2>9. a \in 1..Len(s) /\ b \in a..Len(s) /\ x \in 1..Len(u) /\ y \in x..Len(u)
    BY <2>2, <2>3, <1>1 DEF n
  <2>10. v = SubSeq(s, a, b) /\ w = SubSeq(u, x, y)
    OBVIOUS
  <2> HIDE DEF v, w
  <2>11. v \in Seq(Char) /\ Len(v) = b - a + 1 /\ \A i \in 1..b - a + 1 : v[i] = s[a + i - 1]
    BY <2>9, <2>10, PartIs
  <2>12. w \in Seq(Char) /\ Len(w) = y - x + 1 /\ \A i \in 1..y - x + 1 : w[i] = u[x + i - 1]
    BY <2>9, <2>10, PartIs
  <2>13. Len(v) = Len(w) /\ \A i \in 1..Len(v) :
           i \in 1..b - a + 1 /\ i \in 1..y - x + 1
           /\ a + i - 1 \in 1..n /\ x + i - 1 = (a + i - 1) + 1
    <3>1. a \in 1..n /\ b \in a..n /\ n \in Nat /\ x = a + 1 /\ y = b + 1
      BY <2>2, <2>3, <1>1
    <3>2. Len(v) = b - a + 1
      BY <2>11
    <3>3. Len(w) = y - x + 1
      BY <2>12
    <3> QED
      BY <3>1, <3>2, <3>3
  <2>14. ASSUME NEW i \in 1..Len(v) PROVE v[i] = w[i]
    <3> DEFINE j == a + i - 1
    <3>1. j \in 1..n /\ x + i - 1 = j + 1 /\ v[i] = s[j] /\ w[i] = u[x + i - 1]
      BY <2>11, <2>12, <2>13
    <3> HIDE DEF j
    <3> QED
      BY <3>1, <1>2
  <2>15. v = w
    BY <2>11, <2>12, <2>13, <2>14, SeqEqual
  <2> QED
    BY <2>8, <2>15
<1> QED
  BY <1>4, <1>5

LEMMA SeparatorFirst ==
  ASSUME NEW w \in Seq(Char), NEW m, PairAt(w, m)
  PROVE  Separator(w) = m
<1> DEFINE T == {"=", ":"}
           I == {i \in 1..Len(w) : w[i] \in T}
           z == Separator(w)
<1>1. Len(w) \in Nat
  OBVIOUS
<1>2. \A c : Sep(c) <=> c \in T
  BY DEF Sep
<1>3. z = IF I # {} THEN Min(I) ELSE 0
  BY DEF Separator, SelectInSeq
<1> HIDE DEF T, z
<1>4. I = Matches(w, T)
  BY DEF Matches
<1> HIDE DEF I
<1>5. First(w, T, z)
  BY <1>1, <1>3, <1>4, FirstOfSet
<1>6. /\ m \in 1..Len(w) /\ w[m] \in T
      /\ \A i \in 1..m - 1 : w[i] \notin T
  <2>1. /\ m \in 1..Len(w) /\ Sep(w[m]) /\ \A i \in 1..m - 1 : PlainChar(w[i])
    BY DEF PairAt
  <2>2. \A i \in 1..m - 1 : ~Sep(w[i])
    BY <2>1, PlainIsGlyph
  <2> QED
    BY <2>1, <2>2, <1>2
<1>7. \A j \in 1..Len(w) : j < m => w[j] \notin T
  BY <1>1, <1>6
<1>8. First(w, T, m)
  BY <1>6, <1>7, <1>1 DEF First
<1>9. z = m
  BY <1>1, <1>5, <1>8, FirstIsUnique
<1> QED
  BY <1>9 DEF z

LEMMA PartsAre ==
  ASSUME NEW w \in Seq(Char), NEW m, PairAt(w, m),
         NEW u, u = KeyPart(w), NEW v, v = ValuePart(w)
  PROVE  /\ u \in Seq(Char) /\ Len(u) = m - 1 /\ \A i \in 1..Len(u) : u[i] = w[i]
         /\ v \in Seq(Char) /\ Len(v) = Len(w) - m /\ \A i \in 1..Len(v) : v[i] = w[m + i]
<1> DEFINE x == m - 1
           y == m + 1
<1>1. m \in 1..Len(w) /\ Len(w) \in Nat
  BY DEF PairAt
<1>2. Separator(w) = m
  BY SeparatorFirst
<1>3. u = SubSeq(w, 1, x) /\ v = SubSeq(w, y, Len(w))
  BY <1>2 DEF KeyPart, ValuePart
<1>4. /\ 1 \in 1..Len(w) + 1 /\ x \in 1 - 1..Len(w)
      /\ y \in 1..Len(w) + 1 /\ Len(w) \in y - 1..Len(w)
  BY <1>1
<1> HIDE DEF x, y
<1>5. u \in Seq(Char) /\ Len(u) = x - 1 + 1 /\ \A i \in 1..Len(u) : u[i] = w[1 + i - 1]
  BY <1>3, <1>4, SubStringIs
<1>6. v \in Seq(Char) /\ Len(v) = Len(w) - y + 1 /\ \A i \in 1..Len(v) : v[i] = w[y + i - 1]
  BY <1>3, <1>4, SubStringIs
<1>7. Len(u) = m - 1 /\ \A i \in 1..Len(u) : 1 + i - 1 = i
  BY <1>1, <1>5 DEF x
<1>8. Len(v) = Len(w) - m /\ \A i \in 1..Len(v) : y + i - 1 = m + i
  BY <1>1, <1>6 DEF y
<1> QED
  BY <1>5, <1>6, <1>7, <1>8

\* A key, three characters and a value
PairChars(key, value, w) ==
  /\ w \in Seq(Char) /\ Len(w) = (Len(key) + 3) + Len(value)
  /\ \A i \in 1..Len(key) : w[i] = key[i]
  /\ Gap(w[Len(key) + 1]) /\ Sep(w[Len(key) + 2]) /\ Gap(w[Len(key) + 3])
  /\ \A i \in 1..Len(value) : w[(Len(key) + 3) + i] = value[i]

\* The line of a pair.
LEMMA PairLine ==
  ASSUME NEW key \in Seq(Char), Simple(key), NEW value \in Seq(Char), Simple(value),
         NEW w, PairChars(key, value, w)
  PROVE  /\ w \in Seq(Glyph) /\ IsPair(w) /\ ~Shuffled(w)
         /\ Trim(KeyPart(w)) = key /\ Trim(ValuePart(w)) = value
<1> DEFINE n == Len(key)
           k == Len(value)
           m == n + 2
           y == n + 3
           z == y + k
<1>3. n \in Nat /\ k \in Nat
  OBVIOUS
<1>4. \A i \in 1..n : PlainChar(key[i])
  BY SimpleIs
<1>5. \A i \in 1..k : PlainChar(value[i])
  BY SimpleIs
<1>7. w \in Seq(Char) /\ Len(w) = z
  BY DEF PairChars
<1>9. \A i \in 1..n : w[i] = key[i]
  BY DEF PairChars
<1>10. Gap(w[n + 1]) /\ Sep(w[m]) /\ Gap(w[y])
  BY DEF PairChars
<1>11. \A i \in 1..k : w[y + i] = value[i]
  BY DEF PairChars
<1>6. y = n + 3 /\ z = y + k /\ m = n + 2
  OBVIOUS
<1> HIDE DEF n, k, m, y, z
<1>8. m \in 1..z /\ y \in Nat /\ z \in Nat /\ m \in Nat
  BY <1>3, <1>6
<1>1. \A c : Gap(c) => PlainChar(c)
  BY DEF PlainChar
<1>12. \A i \in 1..z : \/ i \in 1..n \/ i = n + 1 \/ i = m \/ i = y
                       \/ (i - y \in 1..k /\ y + (i - y) = i)
  BY <1>3, <1>6
<1>13. ASSUME NEW i \in 1..z, i # m PROVE PlainChar(w[i])
  <2>1. CASE i \in 1..n
    BY <2>1, <1>4, <1>9
  <2>2. CASE i = n + 1 \/ i = y
    BY <2>2, <1>1, <1>10
  <2>3. CASE i - y \in 1..k /\ y + (i - y) = i
    <3> DEFINE j == i - y
    <3>1. j \in 1..k /\ y + j = i
      BY <2>3
    <3> HIDE DEF j
    <3>2. w[y + j] = value[j]
      BY <3>1, <1>11
    <3> QED
      BY <3>1, <3>2, <1>5
  <2> QED
    BY <2>1, <2>2, <2>3, <1>12, <1>13
<1>15. PairAt(w, m)
  <2>1. ASSUME NEW i \in 1..m - 1 PROVE PlainChar(w[i])
    <3>1. i \in 1..z /\ i # m
      BY <1>7, <1>8
    <3> QED
      BY <3>1, <1>13
  <2>2. ASSUME NEW i \in m + 1..Len(w) PROVE ~Open(w[i]) /\ ~Close(w[i])
    <3>1. i \in 1..z /\ i # m
      BY <1>7, <1>8
    <3> QED
      BY <3>1, <1>13, PlainIsGlyph
  <2> QED
    BY <2>1, <2>2, <1>7, <1>8, <1>10 DEF PairAt
<1>16. Separator(w) = m
  BY <1>7, <1>15, SeparatorFirst
<1>17. ASSUME NEW i \in 1..Len(w) PROVE w[i] \in Glyph /\ ~Mark(w[i])
  <2>1. CASE i = m
    <3>1. \A c : Sep(c) => c \in Glyph /\ ~Mark(c)
      BY Zenon DEF Sep, Mark, Glyph, Letter, Char
    <3> QED
      BY <2>1, <3>1, <1>10
  <2>2. CASE i # m
    BY <2>2, <1>7, <1>13, PlainIsGlyph
  <2> QED
    BY <2>1, <2>2
<1>18. w \in Seq(Glyph)
  BY <1>7, <1>17, OfGlyphs
<1>19. ~Shuffled(w)
  <2>1. \A i \in DOMAIN w : ~Mark(w[i])
    BY <1>7, <1>17
  <2> QED
    BY <2>1 DEF Shuffled, Mark
<1> DEFINE u == KeyPart(w)
           v == ValuePart(w)
<1>20. u = KeyPart(w) /\ v = ValuePart(w)
  OBVIOUS
<1> HIDE DEF u, v
<1>21. /\ u \in Seq(Char) /\ Len(u) = m - 1 /\ \A i \in 1..Len(u) : u[i] = w[i]
       /\ v \in Seq(Char) /\ Len(v) = Len(w) - m /\ \A i \in 1..Len(v) : v[i] = w[m + i]
  <2>1. w \in Seq(Char)
    BY <1>7
  <2> QED
    BY <2>1, <1>15, <1>20, PartsAre
<1>22. m + 1 = y
  BY <1>3, <1>6, <1>7, <1>8
<1>23. Len(u) = n + 1 /\ Len(v) = k + 1
  <2>1. Len(u) = m - 1 /\ Len(v) = Len(w) - m
    BY <1>21
  <2> QED
    BY <2>1, <1>3, <1>6, <1>7, <1>8
<1>24. Trim(u) = key
  <2> DEFINE c == w[n + 1]
             s == Append(key, c)
  <2>0. n + 1 \in 1..Len(w)
    BY <1>3, <1>6, <1>7
  <2>6. c \in Char /\ Gap(c)
    BY <2>0, <1>7, <1>10, ElementOfSeq
  <2> HIDE DEF c
  <2>1. s \in Seq(Char) /\ Len(s) = n + 1 /\ s[n + 1] = c /\ \A i \in 1..n : s[i] = key[i]
    BY <2>6 DEF n
  <2>2. Trim(s) = key
    BY <2>6, TrimSpace, SimpleIs
  <2> HIDE DEF s
  <2>3. \A i \in 1..Len(u) : i \in 1..n \/ i = n + 1
    BY <1>3, <1>23
  <2>4. ASSUME NEW i \in 1..Len(u) PROVE u[i] = s[i]
    <3>1. u[i] = w[i]
      BY <1>21
    <3> QED
      BY <3>1, <2>1, <2>3, <1>9 DEF c
  <2>5. u = s
    BY <2>1, <2>4, <1>21, <1>23, SeqEqual
  <2> QED
    BY <2>2, <2>5
<1>25. Trim(v) = value
  <2>1. 1 \in 1..Len(v)
    BY <1>3, <1>23
  <2>2. v[1] = w[y]
    BY <2>1, <1>21, <1>22
  <2>3. ASSUME NEW i \in 1..k PROVE v[i + 1] = value[i]
    <3> DEFINE j == i + 1
    <3>1. j \in 1..Len(v) /\ m + j = y + i
      BY <1>3, <1>6, <1>7, <1>8, <1>23
    <3> HIDE DEF j
    <3>2. v[j] = w[y + i]
      BY <3>1, <1>21
    <3> QED
      BY <3>2, <1>11 DEF j
  <2>4. Gap(v[1])
    BY <2>2, <1>10
  <2>5. Trim(v) = Trim(value)
    BY <2>3, <2>4, <1>21, <1>23, TrimLead DEF k
  <2> QED
    BY <2>5, SimpleIs
<1>26. IsPair(w)
  <2>1. Plain(u)
    <3>1. \A i \in 1..Len(u) : i \in 1..z /\ i # m
      BY <1>3, <1>6, <1>7, <1>8, <1>23
    <3>2. \A i \in 1..Len(u) : PlainChar(u[i])
      BY <3>1, <1>13, <1>21
    <3> QED
      BY <3>2, <1>21, PlainIs
  <2>2. Chars(v) \cap {"[", "]"} = {}
    <3>1. ASSUME NEW i \in 1..Len(v) PROVE ~Open(v[i]) /\ ~Close(v[i])
      <4> DEFINE j == m + i
      <4>1. j \in 1..z /\ j # m
        BY <1>3, <1>6, <1>7, <1>8, <1>23
      <4>2. v[i] = w[j]
        BY <1>21
      <4> HIDE DEF j
      <4> QED
        BY <4>1, <4>2, <1>13, PlainIsGlyph
    <3> QED
      BY <3>1, <1>21, NoBrackets
  <2>3. Separator(w) # 0
    <3>1. m # 0
      BY <1>8
    <3> QED
      BY <3>1, <1>16
  <2> QED
    BY <2>1, <2>2, <2>3 DEF IsPair, u, v
<1> QED
  BY <1>18, <1>19, <1>24, <1>25, <1>26 DEF u, v

Between(b) == Len(b) = 3 /\ Gap(b[1]) /\ Sep(b[2]) /\ Gap(b[3])

LEMMA PairCharsAre ==
  ASSUME NEW key \in Seq(Char), NEW value \in Seq(Char), NEW b \in Seq(Char), Between(b),
         NEW x, x = key \o b, NEW w, w = x \o value
  PROVE  PairChars(key, value, w)
<1> DEFINE n == Len(key)
           k == Len(value)
<1>1. n \in Nat /\ k \in Nat
  OBVIOUS
<1>2. x \in Seq(Char)
  BY Joined
<1>3. Len(x) = n + Len(b)
  BY Joined
<1>4. \A i \in 1..n : x[i] = key[i]
  BY Joined
<1>5. \A i \in 1..Len(b) : x[n + i] = b[i]
  BY Joined
<1>6. w \in Seq(Char)
  BY <1>2, Joined
<1>7. Len(w) = Len(x) + k
  BY <1>2, Joined
<1>8. \A i \in 1..Len(x) : w[i] = x[i]
  BY <1>2, Joined
<1>9. \A i \in 1..k : w[Len(x) + i] = value[i]
  BY <1>2, Joined
<1>10. PairChars(key, value, w)
  <2> HIDE DEF n, k
  <2>0. Len(b) = 3 /\ Gap(b[1]) /\ Sep(b[2]) /\ Gap(b[3])
    BY DEF Between
  <2>1. Len(x) = n + 3
    BY <2>0, <1>3
  <2>2. ASSUME NEW i \in 1..n PROVE w[i] = key[i]
    <3>1. i \in 1..Len(x)
      BY <2>1, <1>1
    <3> QED
      BY <3>1, <1>4, <1>8
  <2>3. ASSUME NEW i \in 1..3 PROVE w[n + i] = b[i]
    <3>1. n + i \in 1..Len(x) /\ i \in 1..Len(b)
      BY <2>0, <2>1, <1>1
    <3> QED
      BY <3>1, <1>5, <1>8
  <2>4. w[n + 1] = b[1] /\ w[n + 2] = b[2] /\ w[n + 3] = b[3]
    <3>1. 1 \in 1..3 /\ 2 \in 1..3 /\ 3 \in 1..3
      OBVIOUS
    <3> QED
      BY <3>1, <2>3
  <2>5. Len(w) = (n + 3) + k
    BY <2>1, <1>7
  <2>6. \A i \in 1..k : w[(n + 3) + i] = value[i]
    BY <2>1, <1>9
  <2> QED
    BY <2>0, <2>2, <2>4, <2>5, <2>6, <1>6 DEF PairChars, n, k
<1> QED
  BY <1>10

\* What is written is read piece by piece.
LEMMA FeedThree ==
  ASSUME NEW q \in Readers, NEW a \in Seq(Char), NEW b \in Seq(Char), NEW c \in Seq(Char)
  PROVE  /\ (a \o b) \o c \in Seq(Char)
         /\ Feed(q, (a \o b) \o c) = Feed(Feed(Feed(q, a), b), c)
<1> DEFINE x == a \o b
<1>1. x \in Seq(Char)
  BY Joined
<1>2. Feed(q, x) = Feed(Feed(q, a), b)
  BY FeedConcat
<1> HIDE DEF x
<1>3. x \o c \in Seq(Char)
  BY <1>1, Joined
<1>4. Feed(q, x \o c) = Feed(Feed(q, x), c)
  BY <1>1, FeedConcat
<1> QED
  BY <1>2, <1>3, <1>4 DEF x

\* An entry is written as a pair.
LEMMA EntryWritten ==
  ASSUME ~Callback, NEW t \in Tables, t # <<>>, NEW q, Ready(q, t),
         NEW e \in Entry, Simple(e.key), Simple(e.value)
  PROVE  /\ WriteEntry(e) \in Seq(Char)
         /\ Ready(Feed(q, WriteEntry(e)), AddEntry(t, Len(t), e.key, e.value))
<1> DEFINE key == e.key
           value == e.value
           b == <<" ", "=", " ">>
           x == key \o b
           w == x \o value
           nl == <<"\n">>
<1>1. key \in Seq(Char) /\ value \in Seq(Char) /\ Simple(key) /\ Simple(value)
  BY DEF Entry
<1>2. WriteEntry(e) = w \o nl
  <2>1. ~(key # <<>> /\ Head(key) = ";")
    <3> SUFFICES ASSUME key # <<>> PROVE Head(key) # ";"
      OBVIOUS
    <3>1. Head(key) = key[1] /\ 1 \in 1..Len(key)
      BY <1>1
    <3>2. PlainChar(key[1])
      BY <1>1, <3>1, SimpleIs
    <3>3. ~Mark(Head(key))
      BY <3>1, <3>2, PlainIsGlyph
    <3> QED
      BY <3>3 DEF Mark
  <2> QED
    BY <2>1 DEF WriteEntry
<1>3. b \in Seq(Char) /\ Len(b) = 3 /\ b[1] = " " /\ b[2] = "=" /\ b[3] = " "
  BY DEF Char
<1>4. nl \in Seq(Char)
  BY DEF Char
<1>5. Between(b)
  BY <1>3 DEF Gap, Sep, Between
<1>6. x = key \o b /\ w = x \o value
  OBVIOUS
<1>7. Whole(w) = w \o nl
  BY DEF Whole
<1> HIDE DEF key, value, b, x, w, nl
<1>8. PairChars(key, value, w)
  BY <1>1, <1>3, <1>5, <1>6, PairCharsAre
<1>9. /\ w \in Seq(Glyph) /\ IsPair(w) /\ ~Shuffled(w)
      /\ Trim(KeyPart(w)) = key /\ Trim(ValuePart(w)) = value
  BY <1>1, <1>8, PairLine
<1>10. w \in Seq(Char)
  BY <1>9, GlyphIsChar
<1>11. Said(t, w) = AddEntry(t, Len(t), key, value)
  <2>1. ~IsHeader(w)
    BY <1>9, <1>10, OneMeaning
  <2>2. Split(w).key = key /\ Split(w).value = value
    BY <1>9, <1>10, PartsOfPair
  <2> QED
    BY <2>1, <2>2, <1>9 DEF Said
<1>12. Ready(Feed(q, Whole(w)), Said(t, w))
  BY <1>9, LineSaid DEF IsPlainLine
<1>13. w \o nl \in Seq(Char)
  BY <1>4, <1>10, Joined
<1> QED
  BY <1>2, <1>7, <1>11, <1>12, <1>13 DEF key, value

\* A section is written as its header, behind a blank line.
LEMMA HeaderWritten ==
  ASSUME ~Callback, NEW t \in Tables, NEW q, Ready(q, t),
         NEW name \in Seq(Char), Simple(name), NEW blank \in BOOLEAN, blank => t # <<>>,
         NEW x, x = (((IF blank THEN <<"\n">> ELSE <<>>) \o <<"[">>) \o name) \o <<"]", "\n">>
  PROVE  /\ x \in Seq(Char)
         /\ Ready(Feed(q, x), Append(t, NewSection(name)))
<1> DEFINE pre == IF blank THEN <<"\n">> ELSE <<>>
           o == <<"[">>
           c == <<"]">>
           nl == <<"\n">>
           cn == <<"]", "\n">>
           r == Feed(q, pre)
           w == (o \o name) \o c
<1>1. o \in Seq(Char) /\ c \in Seq(Char) /\ nl \in Seq(Char) /\ pre \in Seq(Char)
  <2>1. "[" \in Char /\ "]" \in Char /\ "\n" \in Char
    BY DEF Char
  <2>2. o \in Seq(Char) /\ c \in Seq(Char) /\ nl \in Seq(Char)
    BY <2>1
  <2>3. <<>> \in Seq(Char)
    OBVIOUS
  <2> HIDE DEF o, c
  <2> QED
    BY <2>2, <2>3
<1>2. cn = c \o nl
  OBVIOUS
<1>3. x = ((pre \o o) \o name) \o cn
  OBVIOUS
<1>4. Whole(w) = w \o nl
  BY DEF Whole
<1>5. w \in Seq(Glyph) /\ IsHeader(w) /\ ~Shuffled(w) /\ Trim(Inner(w)) = name
  <2>1. Open("[") /\ Close("]")
    BY DEF Open, Close
  <2> QED
    BY <2>1, HeaderLine
<1>6. q \in Readers
  BY DEF Ready
<1>7. Ready(r, t)
  <2>1. CASE ~blank
    <3>1. pre = <<>>
      BY <2>1
    <3>2. r = q
      BY <3>1, <1>6, FeedEmpty
    <3> QED
      BY <3>2
  <2>2. CASE blank
    <3> DEFINE e == "\n"
    <3>1. e \in Char /\ Newline(e) /\ pre = <<e>>
      BY <2>2 DEF Char, Newline
    <3> HIDE DEF e, pre
    <3>2. r = Consume(q, e)
      BY <3>1, <1>6, FeedOne
    <3>3. q \in Parser /\ Sound(q) /\ Waits(q, t) /\ t # <<>>
      BY <2>2 DEF Ready, Readers
    <3>4. Waits(r, t) /\ Sound(r)
      BY <3>1, <3>2, <3>3, WaitsEnd
    <3>5. r \in Readers
      BY <3>1, <3>2, <1>6, ConsumeReads
    <3> QED
      BY <3>4, <3>5 DEF Ready
  <2> QED
    BY <2>1, <2>2
<1> HIDE DEF pre, o, c, nl, cn
<1>8. r \in Readers
  BY <1>7 DEF Ready
<1>9. w \in Seq(Char) /\ Feed(r, w) = Feed(Feed(Feed(r, o), name), c)
  BY <1>1, <1>8, FeedThree
<1>10. Feed(r, Whole(w)) = Feed(Feed(r, w), nl)
  <2> HIDE DEF w
  <2> QED
    BY <1>1, <1>4, <1>8, <1>9, FeedConcat
<1> DEFINE s == Feed(Feed(r, o), name)
<1>11. s \in Readers
  <2>1. Feed(r, o) \in Readers
    BY <1>1, <1>8, FeedReads
  <2> QED
    BY <2>1, FeedReads
<1>12. Feed(s, cn) = Feed(Feed(s, c), nl) /\ cn \in Seq(Char)
  <2> HIDE DEF s
  <2>1. Feed(s, c \o nl) = Feed(Feed(s, c), nl)
    BY <1>1, <1>11, FeedConcat
  <2>2. c \o nl \in Seq(Char)
    BY <1>1, Joined
  <2> QED
    BY <2>1, <2>2, <1>2
<1> DEFINE y == (pre \o o) \o name
<1>13. y \in Seq(Char) /\ Feed(q, y) = s
  BY <1>1, <1>6, FeedThree
<1>14. x \in Seq(Char) /\ Feed(q, x) = Feed(s, cn)
  <2>1. x = y \o cn
    BY <1>3
  <2> HIDE DEF y, s
  <2>2. y \o cn \in Seq(Char)
    BY <1>12, <1>13, Joined
  <2>3. Feed(q, y \o cn) = Feed(Feed(q, y), cn)
    BY <1>6, <1>12, <1>13, FeedConcat
  <2> QED
    BY <2>1, <2>2, <2>3, <1>13
<1>15. Feed(q, x) = Feed(r, Whole(w))
  BY <1>9, <1>10, <1>12, <1>14
<1>16. Ready(Feed(r, Whole(w)), Said(t, w))
  <2> HIDE DEF w, r
  <2> QED
    BY <1>5, <1>7, LineSaid DEF IsPlainLine
<1>17. Said(t, w) = Append(t, NewSection(name))
  BY <1>5 DEF Said
<1> QED
  BY <1>14, <1>15, <1>16, <1>17

-----------------------------------------------------------------------------
(* Strings one behind the other.                                           *)

Strings == Seq(Char)

LEMMA StringsJoin ==
  ASSUME NEW s \in Strings, NEW t \in Strings
  PROVE  s \o t \in Strings
BY Joined DEF Strings

LEMMA FedPieces ==
  ASSUME NEW q \in Readers, NEW seqs \in Seq(Strings)
  PROVE  \E f \in [0..Len(seqs) -> Readers] :
           f[0] = q /\ \A i \in 1..Len(seqs) : f[i] = Feed(f[i - 1], seqs[i])
<1> DEFINE n == Len(seqs)
           step == [i \in 1..n |-> [r \in Readers |-> Feed(r, seqs[i])]]
<1>1. n \in Nat /\ \A i \in 1..n : seqs[i] \in Strings
  OBVIOUS
<1>2. step \in [1..n -> [Readers -> Readers]]
  <2>1. \A i \in 1..n, r \in Readers : Feed(r, seqs[i]) \in Readers
    BY <1>1, FeedReads DEF Strings
  <2> HIDE DEF n
  <2> QED
    BY <2>1
<1> HIDE DEF n
<1>3. PICK f \in [0..n -> Readers] : Recursion(f, n, q, step)
  <2> HIDE DEF step
  <2> QED
    BY <1>1, <1>2, RecursionExists
<1>4. ASSUME NEW i \in 1..n PROVE f[i] = Feed(f[i - 1], seqs[i])
  <2>1. f[i - 1] \in Readers
    BY <1>1, <1>3
  <2>2. f[i] = step[i][f[i - 1]]
    BY <1>3 DEF Recursion
  <2> QED
    BY <2>1, <2>2
<1>5. f[0] = q
  BY <1>3 DEF Recursion
<1> QED
  BY <1>4, <1>5 DEF n

\* What FlattenSeq puts together
Flat(seqs, h) ==
  /\ DOMAIN h = 1..Len(seqs)
  /\ \A i \in 1..Len(seqs) :
       h[i] = IF i = 1 THEN seqs[i] ELSE h[i - 1] \o seqs[i]

LEMMA FlattenIs ==
  ASSUME NEW seqs \in Seq(Strings), Len(seqs) # 0
  PROVE  \E h : Flat(seqs, h) /\ FlattenSeq(seqs) = h[Len(seqs)]
<1> DEFINE n == Len(seqs)
           step == [i \in 1..n |-> [s \in Strings |-> IF i = 1 THEN seqs[i] ELSE s \o seqs[i]]]
           Is(h) == h = [i \in 1..n |-> IF i = 1 THEN seqs[i] ELSE h[i - 1] \o seqs[i]]
           flatten == CHOOSE h : Is(h)
<1>1. n \in Nat /\ \A i \in 1..n : seqs[i] \in Strings
  OBVIOUS
<1>2. step \in [1..n -> [Strings -> Strings]] /\ <<>> \in Strings
  <2>1. \A i \in 1..n, s \in Strings : (IF i = 1 THEN seqs[i] ELSE s \o seqs[i]) \in Strings
    BY <1>1, StringsJoin
  <2>2. <<>> \in Strings
    BY DEF Strings
  <2> HIDE DEF n
  <2> QED
    BY <2>1, <2>2
<1>3. PICK g \in [0..n -> Strings] : Recursion(g, n, <<>>, step)
  <2> HIDE DEF n, step
  <2> QED
    BY <1>1, <1>2, RecursionExists
<1>4. ASSUME NEW i \in 1..n
      PROVE  g[i] = (IF i = 1 THEN seqs[i] ELSE g[i - 1] \o seqs[i])
  <2> HIDE DEF n
  <2>1. g[i - 1] \in Strings
    BY <1>1, <1>3
  <2>2. g[i] = step[i][g[i - 1]]
    BY <1>3 DEF Recursion
  <2> QED
    BY <2>1, <2>2
<1> DEFINE h0 == [i \in 1..n |-> g[i]]
<1>5. Is(h0)
  <2> HIDE DEF n, step
  <2>1. \A i \in 1..n : i # 1 => i - 1 \in 1..n
    BY <1>1
  <2>2. \A i \in 1..n : i # 1 => h0[i - 1] = g[i - 1]
    BY <2>1
  <2>3. \A i \in 1..n : g[i] = (IF i = 1 THEN seqs[i] ELSE h0[i - 1] \o seqs[i])
    BY <2>2, <1>4
  <2> QED
    BY <2>3
<1> HIDE DEF h0
<1>6. Is(flatten)
  <2> HIDE DEF Is
  <2> QED
    BY <1>5
<1>7. FlattenSeq(seqs) = flatten[n]
  BY DEF FlattenSeq
<1> HIDE DEF flatten
<1>8. Flat(seqs, flatten)
  <2> HIDE DEF n
  <2>1. DOMAIN flatten = 1..n
    BY <1>6
  <2>2. \A i \in 1..n : flatten[i] = IF i = 1 THEN seqs[i] ELSE flatten[i - 1] \o seqs[i]
    BY <1>6
  <2> QED
    BY <2>1, <2>2 DEF Flat, n
<1> QED
  BY <1>7, <1>8

LEMMA Flattened ==
  ASSUME NEW q \in Readers, NEW seqs \in Seq(Strings)
  PROVE  /\ FlattenSeq(seqs) \in Strings
         /\ \E f \in [0..Len(seqs) -> Readers] :
              /\ f[0] = q
              /\ \A i \in 1..Len(seqs) : f[i] = Feed(f[i - 1], seqs[i])
              /\ Feed(q, FlattenSeq(seqs)) = f[Len(seqs)]
<1> DEFINE n == Len(seqs)
<1>1. n \in Nat /\ \A i \in 1..n : seqs[i] \in Strings
  OBVIOUS
<1>2. PICK f \in [0..n -> Readers] :
        f[0] = q /\ \A i \in 1..n : f[i] = Feed(f[i - 1], seqs[i])
  BY FedPieces
<1>3. CASE n = 0
  <2>1. seqs = <<>> /\ FlattenSeq(seqs) = seqs /\ <<>> \in Strings
    BY <1>3 DEF FlattenSeq, Strings
  <2>2. Feed(q, <<>>) = q
    BY FeedEmpty
  <2>3. Feed(q, FlattenSeq(seqs)) = f[n]
    BY <2>1, <2>2, <1>2, <1>3
  <2> QED
    BY <2>1, <2>3, <1>2
<1>4. CASE n # 0
  <2>1. PICK h : Flat(seqs, h) /\ FlattenSeq(seqs) = h[n]
    BY <1>4, FlattenIs
  <2>2. \A i \in 1..n : h[i] = IF i = 1 THEN seqs[i] ELSE h[i - 1] \o seqs[i]
    BY <2>1 DEF Flat
  <2> HIDE DEF n
  <2> DEFINE S == {i \in 0..n : i > 0 => h[i] \in Strings /\ Feed(q, h[i]) = f[i]}
  <2>3. 0 \in S
    BY <1>1
  <2>4. ASSUME NEW i \in 0..n, i < n, i \in S PROVE i + 1 \in S
    <3> DEFINE j == i + 1
    <3>1. j \in 1..n /\ j - 1 = i /\ j \in 0..n /\ (j = 1 <=> i = 0) /\ (i # 0 => i > 0)
      BY <2>4, <1>1
    <3>2. f[j] = Feed(f[i], seqs[j]) /\ seqs[j] \in Strings
      BY <3>1, <1>1, <1>2
    <3>3. h[j] = IF j = 1 THEN seqs[j] ELSE h[i] \o seqs[j]
      BY <3>1, <2>2
    <3> HIDE DEF j
    <3>4. CASE i = 0
      BY <3>1, <3>2, <3>3, <3>4, <1>2
    <3>5. CASE i # 0
      <4>1. h[i] \in Strings /\ Feed(q, h[i]) = f[i]
        BY <3>1, <3>5, <2>4
      <4>2. h[j] = h[i] \o seqs[j]
        BY <3>1, <3>3, <3>5
      <4>3. h[j] \in Strings
        BY <4>1, <4>2, <3>2, StringsJoin
      <4>4. Feed(q, h[j]) = Feed(Feed(q, h[i]), seqs[j])
        BY <4>1, <4>2, <3>2, FeedConcat DEF Strings
      <4> QED
        BY <4>1, <4>3, <4>4, <3>1, <3>2
    <3>6. h[j] \in Strings /\ Feed(q, h[j]) = f[j]
      BY <3>4, <3>5, <3>1, <3>2, <3>3, <1>2
    <3> QED
      BY <3>1, <3>6 DEF j
  <2> HIDE DEF S
  <2>5. 0..n \subseteq S
    BY <2>3, <2>4, <1>1, IntervalInduction
  <2>6. n \in S /\ n > 0
    BY <2>5, <1>1, <1>4
  <2>7. h[n] \in Strings /\ Feed(q, h[n]) = f[n]
    BY <2>6 DEF S
  <2> QED
    BY <2>1, <2>7, <1>2 DEF n
<1> QED
  BY <1>3, <1>4

-----------------------------------------------------------------------------
(* A written table is read back.                                           *)

LEMMA WriteEntryType ==
  ASSUME NEW e \in Entry
  PROVE  WriteEntry(e) \in Strings
<1> DEFINE nl == <<"\n">>
           b == <<" ", "=", " ">>
<1>1. e.key \in Strings /\ e.value \in Strings
  BY DEF Entry, Strings
<1>2. nl \in Strings /\ b \in Strings
  BY DEF Strings, Char
<1>3. WriteEntry(e) = e.key \o nl \/ WriteEntry(e) = ((e.key \o b) \o e.value) \o nl
  BY DEF WriteEntry
<1> HIDE DEF nl, b
<1>4. e.key \o nl \in Strings
  BY <1>1, <1>2, StringsJoin
<1>5. e.key \o b \in Strings
  BY <1>1, <1>2, StringsJoin
<1>6. (e.key \o b) \o e.value \in Strings
  BY <1>1, <1>5, StringsJoin
<1>7. ((e.key \o b) \o e.value) \o nl \in Strings
  BY <1>2, <1>6, StringsJoin
<1> QED
  BY <1>3, <1>4, <1>7

Entries(section) == [k \in DOMAIN section.entry |-> WriteEntry(section.entry[k])]

LEMMA EntriesType ==
  ASSUME NEW s \in Section
  PROVE  /\ s.entry \in Seq(Entry) /\ s.name \in Seq(Char)
         /\ Entries(s) \in Seq(Strings) /\ Len(Entries(s)) = Len(s.entry)
         /\ \A k \in 1..Len(s.entry) : Entries(s)[k] = WriteEntry(s.entry[k])
<1> DEFINE n == Len(s.entry)
<1>1. s.entry \in Seq(Entry) /\ s.name \in Seq(Char)
  BY DEF Section
<1>2. n \in Nat /\ DOMAIN s.entry = 1..n /\ \A k \in 1..n : s.entry[k] \in Entry
  BY <1>1
<1> HIDE DEF n
<1>3. \A k \in 1..n : WriteEntry(s.entry[k]) \in Strings
  BY <1>2, WriteEntryType
<1>4. Entries(s) = [k \in 1..n |-> WriteEntry(s.entry[k])]
  BY <1>2 DEF Entries
<1>5. Entries(s) \in Seq(Strings) /\ Len(Entries(s)) = n
  BY <1>2, <1>3, <1>4
<1> QED
  BY <1>1, <1>4, <1>5 DEF n

\* The line of section i, behind a blank one
HeaderOf(table, i) ==
  (((IF i > 1 THEN <<"\n">> ELSE <<>>) \o <<"[">>) \o table[i].name) \o <<"]", "\n">>

LEMMA WriteSectionIs ==
  ASSUME NEW table \in Tables, NEW i \in 1..Len(table)
  PROVE  /\ table[i] \in Section
         /\ WriteSection(table, i) = HeaderOf(table, i) \o FlattenSeq(Entries(table[i]))
         /\ HeaderOf(table, i) \in Strings
         /\ WriteSection(table, i) \in Strings
<1>1. table[i] \in Section
  BY ElementOfSeq DEF Tables
<1>2. WriteSection(table, i) = HeaderOf(table, i) \o FlattenSeq(Entries(table[i]))
  BY DEF WriteSection, HeaderOf, Entries
<1>3. HeaderOf(table, i) \in Strings
  <2> DEFINE pre == IF i > 1 THEN <<"\n">> ELSE <<>>
             o == <<"[">>
             c == <<"]", "\n">>
             name == table[i].name
  <2>1. o \in Strings /\ c \in Strings /\ <<"\n">> \in Strings /\ <<>> \in Strings
    BY DEF Strings, Char
  <2>2. pre \in Strings
    BY <2>1
  <2>3. name \in Strings
    BY <1>1 DEF Section, Strings
  <2>4. HeaderOf(table, i) = ((pre \o o) \o name) \o c
    BY DEF HeaderOf
  <2> HIDE DEF pre, o, c, name
  <2>5. pre \o o \in Strings
    BY <2>1, <2>2, StringsJoin
  <2>6. (pre \o o) \o name \in Strings
    BY <2>3, <2>5, StringsJoin
  <2> QED
    BY <2>1, <2>4, <2>6, StringsJoin
<1>4. FlattenSeq(Entries(table[i])) \in Strings
  <2>1. Entries(table[i]) \in Seq(Strings)
    BY <1>1, EntriesType
  <2>2. ParserInit \in Readers
    BY TConfigAssumption DEF ParserInit, Parser, Readers, Terminated
  <2> QED
    BY <2>1, <2>2, Flattened
<1>5. WriteSection(table, i) \in Strings
  BY <1>2, <1>3, <1>4, StringsJoin
<1> QED
  BY <1>1, <1>2, <1>3, <1>5

\* A section with its first k entries
Part(section, k) == [name |-> section.name, entry |-> Upto(section.entry, k)]

LEMMA PartIsSection ==
  ASSUME NEW s \in Section, NEW k \in 0..Len(s.entry)
  PROVE  Part(s, k) \in Section
<1>1. s.name \in Seq(Char) /\ s.entry \in Seq(Entry)
  BY DEF Section
<1>2. Upto(s.entry, k) \in Seq(Entry)
  BY <1>1, UptoType
<1> QED
  BY <1>1, <1>2 DEF Part, Section

LEMMA PartEnds ==
  ASSUME NEW s \in Section
  PROVE  Part(s, 0) = NewSection(s.name) /\ Part(s, Len(s.entry)) = s
<1>1. s.entry \in Seq(Entry)
  BY DEF Section
<1>2. Upto(s.entry, 0) = <<>>
  BY <1>1, SubSeqEmpty DEF Upto
<1>3. Upto(s.entry, Len(s.entry)) = s.entry
  BY <1>1, UptoAll
<1>4. s = [name |-> s.name, entry |-> s.entry]
  BY DEF Section
<1> QED
  BY <1>2, <1>3, <1>4 DEF Part, NewSection

\* Behind t, entry e takes the section in u as far as next.
PartOf(t, u, e, next) ==
  /\ e \in Entry /\ u \in Tables /\ u # <<>>
  /\ AddEntry(u, Len(u), e.key, e.value) = Append(t, next)

LEMMA PartGrows ==
  ASSUME NEW t \in Tables, NEW s \in Section, NEW k \in 0..Len(s.entry) - 1,
         NEW e, e = s.entry[k + 1], NEW u, u = Append(t, Part(s, k))
  PROVE  PartOf(t, u, e, Part(s, k + 1))
<1> DEFINE n == Len(u)
           v == AddEntry(u, n, e.key, e.value)
           new == Part(s, k + 1)
           w == Append(t, new)
<1>1. s.entry \in Seq(Entry) /\ Len(s.entry) \in Nat /\ s.name \in Seq(Char)
  BY DEF Section
<1>2. k \in 0..Len(s.entry) /\ k + 1 \in 0..Len(s.entry) /\ k + 1 \in 1..Len(s.entry)
  BY <1>1
<1>3. e \in Entry
  BY <1>1, <1>2, ElementOfSeq
<1>4. Part(s, k) \in Section /\ new \in Section
  BY <1>2, PartIsSection
<1> HIDE DEF new
<1>5. /\ u \in Tables /\ u # <<>> /\ n = Len(t) + 1 /\ Len(t) \in Nat /\ u[n] = Part(s, k)
      /\ \A j \in 1..Len(t) : u[j] = t[j]
  BY <1>4 DEF Tables
<1>6. /\ w \in Tables /\ Len(w) = Len(t) + 1 /\ w[Len(t) + 1] = new
      /\ \A j \in 1..Len(t) : w[j] = t[j]
  BY <1>4 DEF Tables
<1> HIDE DEF w, n
<1>7. n \in 1..Len(u)
  BY <1>5 DEF n
<1>8. e.key \in Seq(Char) /\ e.value \in Seq(Char) /\ NewEntry(e.key, e.value) = e
  BY <1>3 DEF Entry, NewEntry
<1>9. Grown(u, v, n, e)
  BY <1>5, <1>7, <1>8, AddEntryAppends
<1> HIDE DEF v
<1>10. /\ v \in Tables /\ Len(v) = Len(u) /\ v[n] \in Section
       /\ \A j \in 1..Len(u) : j # n => v[j] = u[j]
       /\ v[n].name = u[n].name /\ v[n].entry = Append(u[n].entry, e)
  BY <1>9 DEF Grown, SameBut
<1>11. v[n] = new
  <2>1. u[n].name = s.name /\ u[n].entry = Upto(s.entry, k)
    BY <1>5 DEF Part
  <2>2. Upto(s.entry, k + 1) = Append(Upto(s.entry, k), e)
    BY <1>1, UptoNext
  <2>3. v[n] = [name |-> v[n].name, entry |-> v[n].entry]
    BY <1>10 DEF Section
  <2> QED
    BY <2>1, <2>2, <2>3, <1>10 DEF new, Part
<1>12. Len(v) = Len(w) /\ Len(v) = n
  BY <1>5, <1>6, <1>10 DEF n
<1>13. ASSUME NEW j \in 1..Len(v) PROVE v[j] = w[j]
  <2>1. CASE j = n
    BY <2>1, <1>5, <1>6, <1>11
  <2>2. CASE j # n
    <3>1. j \in 1..Len(t) /\ j \in 1..Len(u)
      BY <2>2, <1>5, <1>10, <1>12
    <3> QED
      BY <3>1, <2>2, <1>5, <1>6, <1>10
  <2> QED
    BY <2>1, <2>2
<1>14. v = w
  BY <1>6, <1>10, <1>12, <1>13, SeqEqual DEF Tables
<1> QED
  BY <1>3, <1>5, <1>14 DEF v, w, n, new, PartOf

\* What the theorem below asks of a table
SimpleTable(table) ==
  \A i \in DOMAIN table :
    Simple(table[i].name) /\ \A k \in DOMAIN table[i].entry :
       Simple(table[i].entry[k].key) /\ Simple(table[i].entry[k].value)
SimpleEntry(e) == Simple(e.key) /\ Simple(e.value)
SimpleSection(s) == Simple(s.name) /\ \A k \in 1..Len(s.entry) : SimpleEntry(s.entry[k])

LEMMA SimpleSections ==
  ASSUME NEW table \in Tables, SimpleTable(table), NEW i \in 1..Len(table)
  PROVE  table[i] \in Section /\ SimpleSection(table[i])
<1>1. table[i] \in Section /\ i \in DOMAIN table
  BY ElementOfSeq DEF Tables
<1>2. DOMAIN table[i].entry = 1..Len(table[i].entry)
  BY <1>1 DEF Section
<1> QED
  BY <1>1, <1>2 DEF SimpleTable, SimpleSection, SimpleEntry

\* The entries of the last section of a table, one after the other
LEMMA EntriesWritten ==
  ASSUME ~Callback, NEW t \in Tables, NEW s \in Section, SimpleSection(s),
         NEW q, Ready(q, Append(t, NewSection(s.name)))
  PROVE  /\ FlattenSeq(Entries(s)) \in Strings
         /\ Ready(Feed(q, FlattenSeq(Entries(s))), Append(t, s))
<1> DEFINE n == Len(s.entry)
           seqs == Entries(s)
<1>1. seqs \in Seq(Strings) /\ Len(seqs) = n /\ \A k \in 1..n : seqs[k] = WriteEntry(s.entry[k])
  BY EntriesType
<1>2. n \in Nat
  BY EntriesType
<1>3. q \in Readers
  BY DEF Ready
<1> HIDE DEF seqs, n
<1>4. /\ FlattenSeq(seqs) \in Strings
      /\ \E f \in [0..Len(seqs) -> Readers] :
           /\ f[0] = q
           /\ \A i \in 1..Len(seqs) : f[i] = Feed(f[i - 1], seqs[i])
           /\ Feed(q, FlattenSeq(seqs)) = f[Len(seqs)]
  BY <1>1, <1>3, Flattened
<1>5. PICK f \in [0..n -> Readers] :
        /\ f[0] = q
        /\ \A i \in 1..n : f[i] = Feed(f[i - 1], seqs[i])
        /\ Feed(q, FlattenSeq(seqs)) = f[n]
  BY <1>1, <1>4
<1> DEFINE S == {k \in 0..n : Ready(f[k], Append(t, Part(s, k)))}
<1>6. 0 \in S
  BY <1>2, <1>5, PartEnds
<1>7. ASSUME NEW k \in 0..n, k < n, k \in S PROVE k + 1 \in S
  <2> DEFINE j == k + 1
             e == s.entry[j]
             u == Append(t, Part(s, k))
  <2>1. k \in 0..Len(s.entry) - 1 /\ j \in 1..n /\ j \in 0..n /\ j - 1 = k
    BY <1>2, <1>7 DEF n
  <2>2. f[j] = Feed(f[k], WriteEntry(e))
    <3>1. f[j] = Feed(f[j - 1], seqs[j])
      BY <2>1, <1>5
    <3>2. seqs[j] = WriteEntry(s.entry[j])
      BY <2>1, <1>1
    <3> QED
      BY <3>1, <3>2, <2>1
  <2>3. /\ e \in Entry /\ u \in Tables /\ u # <<>>
        /\ AddEntry(u, Len(u), e.key, e.value) = Append(t, Part(s, k + 1))
    <3>1. e = s.entry[k + 1] /\ u = Append(t, Part(s, k))
      OBVIOUS
    <3>2. k \in 0..Len(s.entry) - 1
      BY <2>1
    <3> HIDE DEF e, u, j, S
    <3>3. PartOf(t, u, e, Part(s, k + 1))
      BY <3>1, <3>2, PartGrows
    <3> QED
      BY <3>3 DEF PartOf
  <2>4. Simple(e.key) /\ Simple(e.value)
    BY <2>1 DEF SimpleSection, SimpleEntry, n
  <2>5. Ready(f[k], u)
    BY <1>7
  <2> HIDE DEF u, e, S
  <2>6. Ready(Feed(f[k], WriteEntry(e)), AddEntry(u, Len(u), e.key, e.value))
    BY <2>3, <2>4, <2>5, EntryWritten
  <2>7. Ready(f[j], Append(t, Part(s, j)))
    BY <2>2, <2>3, <2>6
  <2> QED
    BY <2>1, <2>7 DEF S
<1> HIDE DEF S
<1>8. 0..n \subseteq S
  BY <1>2, <1>6, <1>7, IntervalInduction
<1>9. n \in S
  BY <1>2, <1>8
<1>10. Ready(f[n], Append(t, Part(s, n)))
  BY <1>9 DEF S
<1>11. Part(s, n) = s
  BY PartEnds DEF n
<1> QED
  BY <1>4, <1>5, <1>10, <1>11 DEF seqs

\* A section, behind those before it
LEMMA SectionWritten ==
  ASSUME ~Callback, NEW table \in Tables, SimpleTable(table), NEW i \in 1..Len(table),
         NEW q, Ready(q, Upto(table, i - 1))
  PROVE  Ready(Feed(q, WriteSection(table, i)), Upto(table, i))
<1> DEFINE t == Upto(table, i - 1)
           s == table[i]
           x == HeaderOf(table, i)
           y == FlattenSeq(Entries(s))
           blank == i > 1
           m == i - 1
<1>1. s \in Section /\ SimpleSection(s) /\ Simple(s.name) /\ s.name \in Seq(Char)
  BY SimpleSections DEF SimpleSection, Section
<1>2. m \in 0..Len(table) - 1 /\ m \in 0..Len(table) /\ m + 1 = i /\ (blank => m > 0)
  BY DEF Tables
<1>3. t \in Seq(Section) /\ Len(t) = m
  BY <1>2, UptoType DEF Tables
<1>4. t \in Tables /\ (blank => t # <<>>) /\ blank \in BOOLEAN
  BY <1>2, <1>3 DEF Tables
<1>5. Append(t, s) = Upto(table, i)
  BY <1>2, UptoNext DEF Tables
<1>6. x = (((IF blank THEN <<"\n">> ELSE <<>>) \o <<"[">>) \o s.name) \o <<"]", "\n">>
  BY DEF HeaderOf
<1>7. WriteSection(table, i) = x \o y
  BY WriteSectionIs
<1>8. q \in Readers /\ Ready(q, t)
  BY DEF Ready
<1> HIDE DEF t, s, x, y, blank
<1>9. x \in Seq(Char) /\ Ready(Feed(q, x), Append(t, NewSection(s.name)))
  BY <1>1, <1>4, <1>6, <1>8, HeaderWritten
<1>10. y \in Strings /\ Ready(Feed(Feed(q, x), y), Append(t, s))
  BY <1>1, <1>4, <1>9, EntriesWritten DEF y
<1>11. Feed(q, x \o y) = Feed(Feed(q, x), y)
  BY <1>8, <1>9, <1>10, FeedConcat DEF Strings
<1> QED
  BY <1>5, <1>7, <1>10, <1>11

LEMMA TableRead ==
  ASSUME ~Callback, NEW table \in Tables, SimpleTable(table)
  PROVE  Read(Write(table)).table = table
<1> DEFINE n == Len(table)
           seqs == [i \in 1..n |-> WriteSection(table, i)]
<1>1. n \in Nat /\ DOMAIN table = 1..n
  BY DEF Tables
<1>2. \A i \in 1..n : WriteSection(table, i) \in Strings
  BY WriteSectionIs
<1>3. Write(table) = FlattenSeq(seqs)
  BY <1>1 DEF Write
<1>4. Ready(ParserInit, <<>>)
  <2>1. ParserInit \in Readers
    BY TConfigAssumption DEF ParserInit, Parser, Readers, Terminated
  <2>2. /\ ParserInit.state = "Section" /\ ParserInit.buf = <<>> /\ ParserInit.spaces = 0
        /\ ParserInit.table = <<>> /\ ~ParserInit.skipping /\ ParserInit.errors = 0
        /\ ParserInit.current = 0
    BY DEF ParserInit
  <2>3. Waits(ParserInit, <<>>)
    BY <2>2, WaitsIs
  <2> QED
    BY <2>1, <2>2, <2>3 DEF Ready, Sound
<1> HIDE DEF n
<1>5. seqs \in Seq(Strings) /\ Len(seqs) = n /\ \A i \in 1..n : seqs[i] = WriteSection(table, i)
  BY <1>1, <1>2
<1> HIDE DEF seqs
<1>6. ParserInit \in Readers
  BY <1>4 DEF Ready
<1>7. \E f \in [0..Len(seqs) -> Readers] :
        /\ f[0] = ParserInit
        /\ \A i \in 1..Len(seqs) : f[i] = Feed(f[i - 1], seqs[i])
        /\ Feed(ParserInit, FlattenSeq(seqs)) = f[Len(seqs)]
  BY <1>5, <1>6, Flattened
<1>8. PICK f \in [0..n -> Readers] :
        /\ f[0] = ParserInit
        /\ \A i \in 1..n : f[i] = Feed(f[i - 1], seqs[i])
        /\ Feed(ParserInit, FlattenSeq(seqs)) = f[n]
  BY <1>5, <1>7
<1> DEFINE S == {i \in 0..n : Ready(f[i], Upto(table, i))}
<1>9. 0 \in S
  <2>1. Upto(table, 0) = <<>>
    BY SubSeqEmpty DEF Upto, Tables
  <2> QED
    BY <2>1, <1>1, <1>4, <1>8
<1>10. ASSUME NEW i \in 0..n, i < n, i \in S PROVE i + 1 \in S
  <2> DEFINE j == i + 1
  <2>1. j \in 1..n /\ j \in 0..n /\ j - 1 = i
    BY <1>1, <1>10
  <2>2. f[j] = Feed(f[i], WriteSection(table, j))
    <3>1. f[j] = Feed(f[j - 1], seqs[j])
      BY <2>1, <1>8
    <3>2. seqs[j] = WriteSection(table, j)
      BY <2>1, <1>5
    <3> QED
      BY <3>1, <3>2, <2>1
  <2>3. Ready(f[i], Upto(table, j - 1))
    BY <1>10, <2>1
  <2> HIDE DEF j, S
  <2>4. Ready(Feed(f[i], WriteSection(table, j)), Upto(table, j))
    BY <2>1, <2>3, SectionWritten DEF n
  <2> QED
    BY <2>1, <2>2, <2>4 DEF S, j
<1> HIDE DEF S
<1>11. 0..n \subseteq S
  BY <1>1, <1>9, <1>10, IntervalInduction
<1>12. n \in S
  BY <1>1, <1>11
<1>13. Ready(f[n], Upto(table, n))
  BY <1>12 DEF S
<1>14. Upto(table, n) = table
  BY UptoAll DEF n, Tables
<1>15. f[n].table = table
  BY <1>13, <1>14 DEF Ready, Waits
<1> QED
  BY <1>3, <1>8, <1>15 DEF Read

\* Reading what ini_table_write has written gives the same table, as long as
\* names, keys and values hold nothing the syntax gives a meaning to, whatever
\* files and edits the table comes from.
THEOREM RoundTrips == Spec => []RoundTrip
<1>1. Buffered => RoundTrip
  <2> SUFFICES ASSUME Buffered, ~Callback, SimpleTable(p.table)
               PROVE  Read(Write(p.table)).table = p.table
    BY DEF RoundTrip, SimpleTable
  <2>1. p.table \in Tables
    BY ParserFields DEF Buffered, TypeOK
  <2> QED
    BY <2>1, TableRead
<1> QED
  BY <1>1, BufferInvariance, PTL
==============================================================================
