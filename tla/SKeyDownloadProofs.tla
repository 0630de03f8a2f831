------------------------- MODULE SKeyDownloadProofs -------------------------
(***************************************************************************)
(* The download of the log, for any size of a block, any pieces of the     *)
(* stream and any failures: nothing of the log is lost, and a client that  *)
(* reports a complete download has a complete copy.                        *)
(***************************************************************************)
EXTENDS SKeyWireProofs, WellFoundedInduction

-----------------------------------------------------------------------------
(* A flattened sequence, which the copy is, takes apart where its sequence *)
(* does.                                                                   *)

\* Induction over the natural numbers, for a set.
LEMMA NatSet ==
    ASSUME NEW T, 0 \in T, \A n \in Nat : n \in T => n + 1 \in T
    PROVE  Nat \subseteq T
  <1> DEFINE R == {ss \in Nat \X Nat : ss[1] < ss[2]}
             B == Nat \ T
  <1>1. IsWellFoundedOn(R, Nat) BY NatLessThanWellFounded DEF OpToRel
  <1> SUFFICES ASSUME B # {} PROVE FALSE OBVIOUS
  <1>2. B \subseteq Nat OBVIOUS
  <1> HIDE DEF R, B
  <1>3. PICK x \in B : \A y \in B : ~(<<y, x>> \in R) BY <1>1, <1>2, WFMin
  <1> USE DEF B
  <1>4. x \in Nat /\ x # 0 /\ x \notin T OBVIOUS
  <1>5. x - 1 \in Nat /\ x - 1 \notin T BY <1>4
  <1>6. <<x - 1, x>> \in R BY <1>4, <1>5 DEF R
  <1> QED BY <1>3, <1>5, <1>6

\* The sums of the first sequences of x, up to k of them.
SumsUpTo(k, x, S, f) ==
    /\ f \in [0..k -> Seq(S)]
    /\ f[0] = <<>>
    /\ \A i \in 1..k : f[i] = f[i - 1] \o x[i]

LEMMA Concatenated ==
    ASSUME NEW S, NEW a \in Seq(S), NEW b \in Seq(S)
    PROVE  a \o b \in Seq(S)
  OBVIOUS

LEMMA AfterNothing ==
    ASSUME NEW S, NEW a \in Seq(S)
    PROVE  <<>> \o a = a
  OBVIOUS

\* No sequence adds up to nothing.
LEMMA SumsBegin ==
    ASSUME NEW S, NEW x
    PROVE  SumsUpTo(0, x, S, [i \in 0..0 |-> <<>>])
  <1>1. <<>> \in Seq(S) OBVIOUS
  <1> DEFINE f == [i \in 0..0 |-> <<>>]
  <1>2. 1..0 = {} /\ 0 \in 0..0 OBVIOUS
  <1>3. f \in [0..0 -> Seq(S)] BY <1>1, Zenon
  <1>4. f[0] = <<>> BY <1>2, Zenon
  <1> HIDE DEF f
  <1>5. \A i \in 1..0 : f[i] = f[i - 1] \o x[i] BY <1>2, Zenon
  <1>6. SumsUpTo(0, x, S, f) BY <1>3, <1>4, <1>5, Zenon DEF SumsUpTo
  <1> QED BY <1>6 DEF f

\* The sums of k sequences are those of k+1 but for the last.
LEMMA SumsGoOn ==
    ASSUME NEW S, NEW x \in Seq(Seq(S)), NEW k \in Nat, k + 1 <= Len(x),
           NEW f, SumsUpTo(k, x, S, f)
    PROVE  \E g : SumsUpTo(k + 1, x, S, g)
  <1>1. f \in [0..k -> Seq(S)] /\ f[0] = <<>> BY DEF SumsUpTo
  <1>2. x[k + 1] \in Seq(S) /\ f[k] \in Seq(S) BY <1>1
  <1>3. f[k] \o x[k + 1] \in Seq(S) BY <1>2, Concatenated
  <1>4. PICK y \in Seq(S) : y = f[k] \o x[k + 1] BY <1>3, Zenon
  <1> DEFINE g == [i \in 0..(k + 1) |-> IF i <= k THEN f[i] ELSE y]
  <1>5. g \in [0..(k + 1) -> Seq(S)] BY <1>1, <1>4
  <1>6. (\A i \in 0..k : g[i] = f[i]) /\ g[k + 1] = y OBVIOUS
  <1> HIDE DEF g
  <1>7. \A i \in 1..(k + 1) : g[i] = g[i - 1] \o x[i]
    <2> TAKE i \in 1..(k + 1)
    <2>1. CASE i \in 1..k
      <3>1. g[i] = f[i] /\ g[i - 1] = f[i - 1] BY <1>6, <2>1
      <3>2. f[i] = f[i - 1] \o x[i] BY <2>1 DEF SumsUpTo
      <3> QED BY <3>1, <3>2, Zenon
    <2>2. CASE i = k + 1
      <3>1. g[i] = y /\ g[i - 1] = f[k] /\ x[i] = x[k + 1] BY <1>6, <2>2
      <3>2. g[i - 1] \o x[i] = f[k] \o x[k + 1] BY <3>1, Zenon
      <3> QED BY <1>4, <3>1, <3>2, Zenon
    <2>3. i \in 1..k \/ i = k + 1 OBVIOUS
    <2> QED BY <2>1, <2>2, <2>3, Zenon
  <1>8. g[0] = <<>> BY <1>1, <1>6
  <1> QED BY <1>5, <1>7, <1>8, Zenon DEF SumsUpTo

\* Any sequence of sequences has its sums.
LEMMA SumsExist ==
    ASSUME NEW S, NEW x \in Seq(Seq(S))
    PROVE  \E f : SumsUpTo(Len(x), x, S, f)
  <1> DEFINE T == {k \in Nat : k <= Len(x) => \E f : SumsUpTo(k, x, S, f)}
  <1>1. 0 \in T BY SumsBegin
  <1>2. ASSUME NEW k \in Nat, k \in T PROVE k + 1 \in T
    BY <1>2, SumsGoOn
  <1> HIDE DEF T
  <1>3. Nat \subseteq T BY <1>1, <1>2, NatSet
  <1>4. Len(x) \in T BY <1>3
  <1> QED BY <1>4 DEF T

\* FlattenSeq is the last of the sums.
LEMMA FlattenIsSum ==
    ASSUME NEW S, NEW x \in Seq(Seq(S)), NEW f, SumsUpTo(Len(x), x, S, f)
    PROVE  FlattenSeq(x) = f[Len(x)]
  <1>1. CASE Len(x) = 0
    <2>1. x = <<>> BY <1>1
    <2> QED BY <1>1, <2>1 DEF FlattenSeq, SumsUpTo
  <1>2. CASE Len(x) # 0
    <2> DEFINE Is(h) == h = [i \in 1..Len(x) |-> IF i = 1 THEN x[i] ELSE h[i - 1] \o x[i]]
               h == CHOOSE h : Is(h)
               g == [i \in 1..Len(x) |-> f[i]]
    <2> DEFINE b(i) == IF i = 1 THEN x[i] ELSE g[i - 1] \o x[i]
    <2>1. \A i \in 1..Len(x) : f[i] = b(i)
      <3> TAKE i \in 1..Len(x)
      <3>1. x[i] \in Seq(S) OBVIOUS
      <3>2. f[i] = f[i - 1] \o x[i] BY DEF SumsUpTo
      <3>3. CASE i = 1
        <4>1. i - 1 = 0 BY <3>3
        <4>2. f[0] = <<>> BY DEF SumsUpTo
        <4>3. f[i] = <<>> \o x[i] BY <3>2, <4>1, <4>2, Zenon
        <4>4. <<>> \o x[i] = x[i] BY <3>1, AfterNothing
        <4> QED BY <3>3, <4>3, <4>4, Zenon
      <3>4. CASE i # 1
        <4>1. i - 1 \in 1..Len(x) BY <3>4
        <4>2. g[i - 1] = f[i - 1] BY <4>1, Zenon
        <4> HIDE DEF g
        <4> QED BY <3>2, <3>4, <4>2, Zenon
      <3> QED BY <3>3, <3>4
    <2>2. Is(g)
      <3>1. [i \in 1..Len(x) |-> f[i]] = [i \in 1..Len(x) |-> b(i)]
        <4> HIDE DEF b
        <4> QED BY <2>1, Zenon
      <3> QED BY <3>1, Zenon
    <2>3. Is(h) BY <2>2, Zenon
    <2>4. FlattenSeq(x) = h[Len(x)] BY <1>2, Zenon DEF FlattenSeq
    <2> HIDE DEF h
    <2>5. \A i \in 1..Len(x) : h[i] = IF i = 1 THEN x[i] ELSE h[i - 1] \o x[i]
      BY <2>3, Zenon
    <2> HIDE DEF Is
    <2> DEFINE T == {n \in Nat : n + 1 <= Len(x) => h[n + 1] = f[n + 1]}
    <2>6. 0 \in T
      <3>1. 1 \in 1..Len(x) /\ 0 + 1 = 1 BY <1>2
      <3>2. h[1] = x[1] BY <2>5, <3>1, Zenon
      <3>3. f[1] = x[1] BY <2>1, <3>1, Zenon
      <3> QED BY <3>1, <3>2, <3>3
    <2>7. ASSUME NEW n \in Nat, n \in T PROVE n + 1 \in T
      <3> SUFFICES ASSUME n + 2 <= Len(x) PROVE h[n + 2] = f[n + 2]
        OBVIOUS
      <3>1. n + 2 \in 1..Len(x) /\ n + 1 \in 1..Len(x) /\ n + 2 # 1 /\ (n + 2) - 1 = n + 1
        OBVIOUS
      <3>2. h[n + 1] = f[n + 1] BY <2>7, <3>1
      <3>3. h[n + 2] = h[n + 1] \o x[n + 2] BY <2>5, <3>1, Zenon
      <3>4. f[n + 2] = f[n + 1] \o x[n + 2]
        <4>1. f[n + 2] = f[(n + 2) - 1] \o x[n + 2] BY <3>1, Zenon DEF SumsUpTo
        <4> QED BY <3>1, <4>1, Zenon
      <3> QED BY <3>2, <3>3, <3>4, Zenon
    <2> HIDE DEF T
    <2>8. Nat \subseteq T BY <2>6, <2>7, NatSet
    <2>9. Len(x) - 1 \in T /\ (Len(x) - 1) + 1 = Len(x) BY <1>2, <2>8
    <2>10. h[Len(x)] = f[Len(x)] BY <2>9 DEF T
    <2> QED BY <2>4, <2>10
  <1> QED BY <1>1, <1>2

LEMMA Associates ==
    ASSUME NEW S, NEW a \in Seq(S), NEW b \in Seq(S), NEW c \in Seq(S)
    PROVE  (a \o b) \o c = a \o (b \o c)
  <1>1. /\ (a \o b) \o c \in Seq(S) /\ a \o (b \o c) \in Seq(S)
        /\ Len((a \o b) \o c) = Len(a \o (b \o c))
        /\ \A i \in 1..Len((a \o b) \o c) : ((a \o b) \o c)[i] = (a \o (b \o c))[i]
    OBVIOUS
  <1> QED BY <1>1

\* Two sequences of sequences flatten together as they do one by one.
LEMMA FlattenJoins ==
    ASSUME NEW S, NEW x \in Seq(Seq(S)), NEW y \in Seq(Seq(S))
    PROVE  /\ FlattenSeq(x) \in Seq(S)
           /\ FlattenSeq(x \o y) = FlattenSeq(x) \o FlattenSeq(y)
  <1> DEFINE z == x \o y
  <1>1. /\ z \in Seq(Seq(S)) /\ Len(z) = Len(x) + Len(y)
        /\ \A i \in 1..Len(x) : z[i] = x[i]
        /\ \A i \in 1..Len(y) : z[Len(x) + i] = y[i]
        /\ Len(x) \in Nat /\ Len(y) \in Nat
    OBVIOUS
  <1>2. z = x \o y OBVIOUS
  <1> HIDE DEF z
  <1>3. PICK f : SumsUpTo(Len(x), x, S, f) BY SumsExist
  <1>4. PICK g : SumsUpTo(Len(y), y, S, g) BY SumsExist
  <1>5. PICK h : SumsUpTo(Len(z), z, S, h) BY <1>1, SumsExist
  <1>6. /\ FlattenSeq(x) = f[Len(x)] /\ FlattenSeq(y) = g[Len(y)]
        /\ FlattenSeq(z) = h[Len(z)]
    BY <1>1, <1>3, <1>4, <1>5, FlattenIsSum
  <1>7. h[Len(x)] = f[Len(x)]
    <2> DEFINE T == {n \in Nat : n <= Len(x) => h[n] = f[n]}
    <2>1. 0 \in T
      <3>1. h[0] = <<>> /\ f[0] = <<>> BY <1>3, <1>5 DEF SumsUpTo
      <3> QED BY <3>1
    <2>2. ASSUME NEW n \in Nat, n \in T PROVE n + 1 \in T
      <3> SUFFICES ASSUME n + 1 <= Len(x) PROVE h[n + 1] = f[n + 1]
        OBVIOUS
      <3>1. /\ n + 1 \in 1..Len(x) /\ n + 1 \in 1..Len(z) /\ (n + 1) - 1 = n
            /\ h[n] = f[n] /\ z[n + 1] = x[n + 1]
        BY <1>1, <2>2
      <3>2. h[n + 1] = h[(n + 1) - 1] \o z[n + 1] BY <1>5, <3>1, Zenon DEF SumsUpTo
      <3>3. f[n + 1] = f[(n + 1) - 1] \o x[n + 1] BY <1>3, <3>1, Zenon DEF SumsUpTo
      <3> QED BY <3>1, <3>2, <3>3, Zenon
    <2> HIDE DEF T
    <2>3. Nat \subseteq T BY <2>1, <2>2, NatSet
    <2>4. Len(x) \in T BY <1>1, <2>3
    <2> QED BY <1>1, <2>4 DEF T
  <1>8. f[Len(x)] \in Seq(S) /\ \A i \in 0..Len(y) : g[i] \in Seq(S)
    <2>1. f \in [0..Len(x) -> Seq(S)] /\ g \in [0..Len(y) -> Seq(S)]
      BY <1>3, <1>4, Zenon DEF SumsUpTo
    <2>2. Len(x) \in 0..Len(x) BY <1>1
    <2> QED BY <2>1, <2>2, Zenon
  <1>9. h[Len(x) + Len(y)] = f[Len(x)] \o g[Len(y)]
    <2> DEFINE T == {n \in Nat : n <= Len(y) => h[Len(x) + n] = f[Len(x)] \o g[n]}
    <2>1. 0 \in T
      <3>1. g[0] = <<>> BY <1>4 DEF SumsUpTo
      <3>2. f[Len(x)] \o <<>> = f[Len(x)] BY <1>8
      <3>3. f[Len(x)] \o g[0] = f[Len(x)] BY <3>1, <3>2, Zenon
      <3>4. Len(x) + 0 = Len(x) BY <1>1
      <3>5. h[Len(x) + 0] = f[Len(x)] \o g[0] BY <1>7, <3>3, <3>4, Zenon
      <3> QED BY <3>5, Zenon
    <2>2. ASSUME NEW n \in Nat, n \in T PROVE n + 1 \in T
      <3>1. n + 1 \in Nat OBVIOUS
      <3> SUFFICES ASSUME n + 1 <= Len(y) PROVE h[Len(x) + (n + 1)] = f[Len(x)] \o g[n + 1]
        BY <3>1, Zenon
      <3>2. n <= Len(y) BY <1>1
      <3>3. h[Len(x) + n] = f[Len(x)] \o g[n] BY <2>2, <3>2, Zenon
      <3>4. /\ n + 1 \in 1..Len(y) /\ (n + 1) - 1 = n /\ n \in 0..Len(y)
            /\ Len(x) + (n + 1) \in 1..Len(z) /\ (Len(x) + (n + 1)) - 1 = Len(x) + n
            /\ z[Len(x) + (n + 1)] = y[n + 1]
        BY <1>1
      <3>5. h[Len(x) + (n + 1)] = h[(Len(x) + (n + 1)) - 1] \o z[Len(x) + (n + 1)]
        BY <1>5, <3>4, Zenon DEF SumsUpTo
      <3>6. g[n + 1] = g[(n + 1) - 1] \o y[n + 1] BY <1>4, <3>4, Zenon DEF SumsUpTo
      <3>7. y[n + 1] \in Seq(S) /\ g[n] \in Seq(S)
        <4>1. n + 1 \in 1..Len(y) BY ONLY <3>4
        <4>2. y[n + 1] \in Seq(S) BY ONLY <4>1, y \in Seq(Seq(S))
        <4>3. g[n] \in Seq(S) BY <1>8, <3>4, Zenon
        <4> QED BY <4>2, <4>3, Zenon
      <3>8. (f[Len(x)] \o g[n]) \o y[n + 1] = f[Len(x)] \o (g[n] \o y[n + 1])
        <4> DEFINE a == f[Len(x)]
                   b == g[n]
                   c == y[n + 1]
        <4>2. a \in Seq(S) /\ b \in Seq(S) /\ c \in Seq(S) BY <1>8, <3>7, Zenon
        <4> HIDE DEF a, b, c
        <4>3. (a \o b) \o c = a \o (b \o c) BY ONLY <4>2, Associates
        <4> QED BY <4>3 DEF a, b, c
      <3>9. h[Len(x) + (n + 1)] = (f[Len(x)] \o g[n]) \o y[n + 1]
        BY <3>3, <3>4, <3>5, Zenon
      <3>10. g[n + 1] = g[n] \o y[n + 1] BY <3>4, <3>6, Zenon
      <3> QED BY <3>8, <3>9, <3>10, Zenon
    <2> HIDE DEF T
    <2>3. Nat \subseteq T BY <2>1, <2>2, NatSet
    <2>4. Len(y) \in T /\ Len(y) <= Len(y) BY <1>1, <2>3
    <2> QED BY <2>4, Zenon DEF T
  <1>10. FlattenSeq(z) = FlattenSeq(x) \o FlattenSeq(y)
    BY <1>1, <1>6, <1>9, Zenon
  <1>11. FlattenSeq(x) \in Seq(S) BY <1>6, <1>8, Zenon
  <1> QED BY <1>2, <1>10, <1>11, Zenon

-----------------------------------------------------------------------------
(* What the client writes of two chunks is what it writes of each.         *)

\* What a stream in text mode writes for a byte.
WrittenUnit(u) == IF u = Byte("LF") THEN <<Byte("CR"), Byte("LF")>> ELSE <<u>>

\* What it writes for each byte of a chunk.
Pieces(chunk) == [i \in DOMAIN chunk |-> WrittenUnit(chunk[i])]

\* A sequence that agrees with p, and behind it with q, is p and q in a row.
LEMMA JoinedFrom ==
    ASSUME NEW S, NEW p \in Seq(S), NEW q \in Seq(S), NEW r \in Seq(S),
           Len(r) = Len(p) + Len(q),
           \A i \in 1..Len(p) : r[i] = p[i],
           \A i \in 1..Len(q) : r[Len(p) + i] = q[i]
    PROVE  r = p \o q
  <1>1. /\ p \o q \in Seq(S) /\ Len(p \o q) = Len(r)
        /\ \A i \in 1..Len(r) : (p \o q)[i] = r[i]
    OBVIOUS
  <1> QED BY <1>1

\* Each byte is written by itself.
LEMMA PiecesJoin ==
    ASSUME NEW a \in Seq(Unit), NEW b \in Seq(Unit)
    PROVE  Pieces(a) \in Seq(Seq(Unit)) /\ Pieces(a \o b) = Pieces(a) \o Pieces(b)
  <1>1. \A u \in Unit : WrittenUnit(u) \in Seq(Unit)
    <2>1. Byte("CR") \in Unit /\ Byte("LF") \in Unit BY DEF Byte, Unit, Ops, Bytes
    <2>2. <<Byte("CR"), Byte("LF")>> \in Seq(Unit) BY <2>1
    <2>3. \A u \in Unit : <<u>> \in Seq(Unit) OBVIOUS
    <2> QED BY <2>2, <2>3, Zenon DEF WrittenUnit
  <1> DEFINE ab == a \o b
  <1>2. /\ ab \in Seq(Unit) /\ Len(ab) = Len(a) + Len(b)
        /\ \A i \in 1..Len(a) : ab[i] = a[i]
        /\ \A i \in 1..Len(b) : ab[Len(a) + i] = b[i]
    OBVIOUS
  <1> HIDE DEF ab
  <1>3. \A s \in Seq(Unit) : /\ Pieces(s) \in Seq(Seq(Unit)) /\ Len(Pieces(s)) = Len(s)
                             /\ \A i \in 1..Len(s) : Pieces(s)[i] = WrittenUnit(s[i])
    <2> TAKE s \in Seq(Unit)
    <2>1. DOMAIN s = 1..Len(s) /\ \A i \in 1..Len(s) : s[i] \in Unit OBVIOUS
    <2> DEFINE w(i) == WrittenUnit(s[i])
    <2>2. \A i \in 1..Len(s) : w(i) \in Seq(Unit) BY <1>1, <2>1
    <2>3. Pieces(s) = [i \in 1..Len(s) |-> w(i)] BY <2>1 DEF Pieces
    <2> HIDE DEF w
    <2>4. [i \in 1..Len(s) |-> w(i)] \in [1..Len(s) -> Seq(Unit)] BY <2>2, Zenon
    <2>5. Pieces(s) \in Seq(Seq(Unit)) /\ Len(Pieces(s)) = Len(s) BY <2>3, <2>4
    <2>6. \A i \in 1..Len(s) : Pieces(s)[i] = w(i) BY <2>3, Zenon
    <2> QED BY <2>5, <2>6 DEF w
  <1> DEFINE p == Pieces(a)
             q == Pieces(b)
             r == Pieces(ab)
  <1>4. /\ p \in Seq(Seq(Unit)) /\ q \in Seq(Seq(Unit)) /\ r \in Seq(Seq(Unit))
        /\ Len(p) = Len(a) /\ Len(q) = Len(b) /\ Len(r) = Len(ab)
    BY <1>2, <1>3, Zenon
  <1>5. \A i \in 1..Len(a) : r[i] = p[i]
    <2> TAKE i \in 1..Len(a)
    <2>1. i \in 1..Len(ab) /\ ab[i] = a[i] BY <1>2
    <2> QED BY <1>2, <1>3, <2>1, Zenon
  <1>6. \A i \in 1..Len(b) : r[Len(a) + i] = q[i]
    <2> TAKE i \in 1..Len(b)
    <2>1. Len(a) + i \in 1..Len(ab) /\ ab[Len(a) + i] = b[i] BY <1>2
    <2> QED BY <1>2, <1>3, <2>1, Zenon
  <1> HIDE DEF p, q, r
  <1>7. r = p \o q
    <2>1. Len(r) = Len(p) + Len(q) BY <1>2, <1>4
    <2>2. /\ \A i \in 1..Len(p) : r[i] = p[i]
          /\ \A i \in 1..Len(q) : r[Len(p) + i] = q[i]
      BY <1>4, <1>5, <1>6, Zenon
    <2> QED BY ONLY <1>4, <2>1, <2>2, JoinedFrom
  <1> QED BY <1>4, <1>7, Zenon DEF p, q, r, ab

\* So it does not matter how the log is cut into chunks.
LEMMA WrittenJoins ==
    ASSUME NEW a \in Seq(Unit), NEW b \in Seq(Unit)
    PROVE  Written(a) \in Seq(Unit) /\ Written(a \o b) = Written(a) \o Written(b)
  <1>1. \A s : Written(s) = FlattenSeq(Pieces(s)) BY DEF Written, Pieces, WrittenUnit
  <1>2. /\ Pieces(a) \in Seq(Seq(Unit)) /\ Pieces(b) \in Seq(Seq(Unit))
        /\ Pieces(a \o b) = Pieces(a) \o Pieces(b)
    BY PiecesJoin
  <1>3. /\ FlattenSeq(Pieces(a)) \in Seq(Unit)
        /\ FlattenSeq(Pieces(a) \o Pieces(b)) = FlattenSeq(Pieces(a)) \o FlattenSeq(Pieces(b))
    BY ONLY <1>2, FlattenJoins
  <1> QED BY <1>1, <1>2, <1>3, Zenon

LEMMA WrittenNothing == Written(<<>>) = <<>>
  BY DEF Written, FlattenSeq
-----------------------------------------------------------------------------
(* The invariant.                                                          *)

\* What the server sends: rows and lengths are within their bounds.
DownUnit == {u \in Unit : /\ u.op = "list" => u.val <= MaxRows
                          /\ u.op = "header" => u.val <= 3 * MaxLines}

\* WireTypes, and what a step needs besides to keep them: what is on its way
\* to the client has bounds too, and a thread sends only blocks the log has.
TypesInv ==
    /\ WireKinds /\ WireTypes
    /\ down \in Seq(DownUnit)
    /\ server = "sending" => sent < BlockCount(length)
    /\ server = "ready" => sent = 0

\* The bytes of a log: no message starts with one.
LogByte == {Byte(b) : b \in Bytes}

\* All that is on its way to the client is log.
OnlyLog == down \in Seq(LogByte)

\* Each exchange has its window.
Screens ==
    /\ client \in {"challenge", "result"} => window = "main"
    /\ client \in {"refresh", "list"} => window = "security"
    /\ client \in {"header", "blocks"} => window = "log"

\* At the first window the two ends are in step, whatever the recvs return.
AtMain ==
    /\ client = "idle" => AtIdle
    /\ client = "challenge" => AtChallenge
    /\ client = "result" => AtResult

\* Blocks of a download that was cut short may still be on their way, or the
\* confirmation of one whose file was not opened.
BetweenDownloads ==
    /\ userType = 2
    /\ \/ up = <<>> /\ server \in {"loop", "sending"} /\ OnlyLog
       \/ up = Msg("ready", 1) /\ server = "ready" /\ down = <<>>

\* The header comes behind what is left of the last download.
HeaderDue ==
    /\ userType = 2
    /\ \/ up = Msg("C_GET_LOG", 0) /\ server \in {"loop", "sending"} /\ OnlyLog
       \/ /\ up = Msg("ready", 1) \o Msg("C_GET_LOG", 0)
          /\ server = "ready" /\ down = <<>>
       \/ up = <<>> /\ server = "dispatch" /\ buff = Part("C_GET_LOG", 0, 1) /\ OnlyLog
       \/ /\ up = <<>> /\ server = "ready" /\ sent = 0 /\ length > 0
          /\ Len(down) > 0 /\ down[Len(down)] = Part("header", length, 1)
          /\ \A i \in 1..(Len(down) - 1) : down[i] \in LogByte

\* GetLog has sent its header and waits for the confirmation, or sends blocks;
\* the copy, the stream and what is not sent make up the log. A client whose
\* reads are whole blocks is also in step with it.
BlocksDue ==
    /\ userType = 2 /\ expected > 0 /\ length \in Grown(expected)
    /\ \/ /\ up = Msg("ready", 1) /\ server = "ready" /\ down = <<>> /\ sent = 0 /\ copy = <<>>
          /\ length = expected
       \/ /\ up = <<>> /\ server \in {"loop", "sending"} /\ OnlyLog
          /\ server = "loop" <=> sent = BlockCount(length)
          /\ copy \in Seq(Unit)
          /\ copy \o Written(down \o LogFrom(sent, length)) = Written(LogFile(length))
    /\ "split" \notin faults => AtBlocks

\* The window of the log administrator, by what it waits for.
AtLog ==
    /\ client = "idle" => BetweenDownloads
    /\ client = "header" => HeaderDue
    /\ client = "blocks" => BlocksDue

\* Unless something else stops the server it does not stop under a download.
StopsOutside ==
    server = "stopped" /\ "stopped" \notin faults
        => \/ Gone \/ window = "security"
           \/ client = "header" /\ down = <<>>

\* Where the two ends are, whatever has gone wrong so far.
DownloadInv ==
    /\ TypesInv
    /\ Screens /\ StopsOutside
    /\ client \in {"header", "blocks"} => ~finished
    /\ LogComplete
    /\ server # "stopped" /\ window = "main" => AtMain
    /\ server # "stopped" /\ window = "log" => AtLog

-----------------------------------------------------------------------------
(* The log and its blocks.                                                 *)

\* A sequence over a set is one over any larger set.
LEMMA WiderSeq ==
    ASSUME NEW S, NEW R, S \subseteq R, NEW s \in Seq(S)
    PROVE  s \in Seq(R)
  OBVIOUS

\* What lies between two points, and behind the second, lies behind the first.
LEMMA CutInTwo ==
    ASSUME NEW S, NEW s \in Seq(S), NEW a \in Nat, NEW b \in Nat,
           a <= b, b <= Len(s)
    PROVE  /\ SubSeq(s, a + 1, b) \in Seq(S) /\ SubSeq(s, b + 1, Len(s)) \in Seq(S)
           /\ SubSeq(s, a + 1, b) \o SubSeq(s, b + 1, Len(s)) = SubSeq(s, a + 1, Len(s))
  <1> DEFINE p == SubSeq(s, a + 1, b)
             q == SubSeq(s, b + 1, Len(s))
             r == SubSeq(s, a + 1, Len(s))
  <1>1. /\ p \in Seq(S) /\ Len(p) = b - a
        /\ \A i \in 1..(b - a) : p[i] = s[a + i]
    OBVIOUS
  <1>2. /\ q \in Seq(S) /\ Len(q) = Len(s) - b
        /\ \A i \in 1..(Len(s) - b) : q[i] = s[b + i]
    OBVIOUS
  <1>3. /\ r \in Seq(S) /\ Len(r) = Len(s) - a
        /\ \A i \in 1..(Len(s) - a) : r[i] = s[a + i]
    OBVIOUS
  <1> HIDE DEF p, q, r
  <1>4. Len(r) = Len(p) + Len(q) BY <1>1, <1>2, <1>3
  <1>5. \A i \in 1..Len(p) : r[i] = p[i]
    <2> TAKE i \in 1..Len(p)
    <2>1. i \in 1..(b - a) /\ i \in 1..(Len(s) - a) BY <1>1
    <2> QED BY <1>1, <1>3, <2>1, Zenon
  <1>6. \A i \in 1..Len(q) : r[Len(p) + i] = q[i]
    <2> TAKE i \in 1..Len(q)
    <2>1. /\ i \in 1..(Len(s) - b) /\ Len(p) + i \in 1..(Len(s) - a)
          /\ a + (Len(p) + i) = b + i
      BY <1>1, <1>2
    <2> QED BY <1>2, <1>3, <2>1, Zenon
  <1>7. r = p \o q BY ONLY <1>1, <1>2, <1>3, <1>4, <1>5, <1>6, JoinedFrom
  <1> QED BY <1>1, <1>2, <1>7 DEF p, q, r

\* The log is a sequence of its bytes, of the size it has.
LEMMA LogBytes ==
    ASSUME NEW size \in Nat
    PROVE  LogFile(size) \in Seq(LogByte) /\ Len(LogFile(size)) = size
  <1>1. \A i \in 1..size : Line[((i - 1) % 3) + 1] \in LogByte
    <2>1. Byte("text") \in LogByte /\ Byte("CR") \in LogByte /\ Byte("LF") \in LogByte
      BY DEF LogByte, Bytes
    <2> QED BY <2>1 DEF Line
  <1> DEFINE f == [i \in 1..size |-> Line[((i - 1) % 3) + 1]]
  <1>2. f \in Seq(LogByte) /\ Len(f) = size BY <1>1
  <1> QED BY <1>2 DEF LogFile

\* A block and the bytes behind it are what is not sent before the block is.
LEMMA LogCut ==
    ASSUME NEW size \in Nat, NEW k \in Nat, k < BlockCount(size)
    PROVE  LET block == SubSeq(LogFile(size), k * Block + 1, Least((k + 1) * Block, size))
           IN  /\ block \in Seq(LogByte) /\ LogFrom(k + 1, size) \in Seq(LogByte)
               /\ block \o LogFrom(k + 1, size) = LogFrom(k, size)
  <1>1. /\ k * Block \in Nat /\ k * Block < size
        /\ (k + 1) * Block = k * Block + Block /\ Block \in Nat \ {0}
    BY BlocksCover, ProductGrows, WireAssumption DEF WireAssumption
  <1> DEFINE file == LogFile(size)
             a == k * Block
             c == (k + 1) * Block
             b == Least(c, size)
  <1>2. file \in Seq(LogByte) /\ Len(file) = size BY LogBytes
  <1>3. a \in Nat /\ b \in Nat /\ c \in Nat /\ a < b /\ b <= size /\ (b # c => b = size /\ c > size)
    BY <1>1 DEF Least
  <1> HIDE DEF file, a, b, c
  <1>4. SubSeq(file, c + 1, size) = SubSeq(file, b + 1, size)
    <2>1. CASE b = c BY <2>1
    <2>2. CASE b # c
      <3>1. SubSeq(file, c + 1, size) = <<>> /\ SubSeq(file, b + 1, size) = <<>>
        BY <1>2, <1>3, <2>2
      <3> QED BY <3>1
    <2> QED BY <2>1, <2>2
  <1>5. /\ SubSeq(file, a + 1, b) \in Seq(LogByte)
        /\ SubSeq(file, b + 1, size) \in Seq(LogByte)
        /\ SubSeq(file, a + 1, b) \o SubSeq(file, b + 1, size) = SubSeq(file, a + 1, size)
    <2>1. a <= b BY <1>3
    <2> QED BY <1>2, <1>3, <2>1, CutInTwo
  <1> QED BY <1>4, <1>5 DEF file, a, b, c, LogFrom

\* Before the first block all is to be sent, behind the last one nothing.
LEMMA LogEnds ==
    ASSUME NEW size \in Nat
    PROVE  /\ LogFrom(0, size) = LogFile(size)
           /\ LogFrom(BlockCount(size), size) = <<>>
  <1> DEFINE file == LogFile(size)
             k == BlockCount(size)
             a == k * Block
  <1>1. file \in Seq(LogByte) /\ Len(file) = size BY LogBytes
  <1>2. k \in Nat BY BlocksCover
  <1>3. ~(k * Block < size)
    <2> HIDE DEF k
    <2>1. ~(k < BlockCount(size)) BY <1>2 DEF k
    <2> QED BY <1>2, <2>1, BlocksCover
  <1>4. a \in Nat /\ a >= size /\ 0 * Block = 0
    BY <1>2, <1>3, ProductGrows, WireAssumption DEF WireAssumption
  <1> HIDE DEF file, a
  <1>5. SubSeq(file, 1, size) = file /\ SubSeq(file, a + 1, size) = <<>>
    BY <1>1, <1>4
  <1> QED BY <1>4, <1>5 DEF file, a, LogFrom

\* What is not sent yet is log.
LEMMA LogFromBytes ==
    ASSUME NEW size \in Nat, NEW k \in Nat
    PROVE  LogFrom(k, size) \in Seq(LogByte)
  <1> DEFINE file == LogFile(size)
             a == k * Block
  <1>1. file \in Seq(LogByte) /\ Len(file) = size BY LogBytes
  <1>2. a \in Nat BY ProductGrows
  <1> HIDE DEF file, a
  <1>3. SubSeq(file, a + 1, size) \in Seq(LogByte) BY <1>1, <1>2
  <1> QED BY <1>3 DEF file, a, LogFrom

\* A longer log has no fewer blocks.
LEMMA MoreBlocks ==
    ASSUME NEW m \in Nat, NEW n \in Nat, m <= n
    PROVE  BlockCount(m) <= BlockCount(n)
  <1>1. BlockCount(m) \in Nat /\ BlockCount(n) \in Nat BY BlocksCover
  <1> SUFFICES ASSUME BlockCount(n) < BlockCount(m) PROVE FALSE
    BY <1>1
  <1>2. BlockCount(n) * Block < m BY <1>1, BlocksCover
  <1>3. BlockCount(n) * Block \in Nat BY <1>1, ProductGrows
  <1>4. BlockCount(n) * Block < n BY <1>2, <1>3
  <1> QED BY <1>1, <1>4, BlocksCover

-----------------------------------------------------------------------------
(* Types.                                                                  *)

\* A message within the bounds of the server may go to the client.
LEMMA DownMsg ==
    ASSUME NEW op \in Ops, NEW val \in Nat,
           op = "list" => val <= MaxRows, op = "header" => val <= 3 * MaxLines
    PROVE  Msg(op, val) \in Seq(DownUnit)
  <1> DEFINE n == Units(op, val)
  <1>1. n \in Nat BY MsgSeq
  <1>2. \A i \in Nat : Part(op, val, i) \in DownUnit BY DEF Part, Unit, DownUnit
  <1>3. Msg(op, val) = [i \in 1..n |-> Part(op, val, i)] BY DEF Msg, Part
  <1> HIDE DEF n
  <1>4. [i \in 1..n |-> Part(op, val, i)] \in Seq(DownUnit) BY <1>1, <1>2
  <1> QED BY <1>3, <1>4

\* So may the bytes of the log.
LEMMA LogGoesDown == LogByte \subseteq DownUnit /\ LogByte \subseteq Unit
  BY DEF LogByte, Byte, DownUnit, Unit, Ops, Bytes

\* A reply reaches the stream or, if the client is gone, does not.
LEMMA ReplySeq ==
    ASSUME NEW S, down \in Seq(S), NEW m \in Seq(S), Reply(m)
    PROVE  down' \in Seq(S)
  <1>1. <<>> \in Seq(S) /\ down \o m \in Seq(S) OBVIOUS
  <1> QED BY <1>1, Zenon DEF Reply

\* What is received, and what is left, is made of the same units.
LEMMA ArrivalSeq ==
    ASSUME NEW S, NEW stream \in Seq(S), NEW max \in Nat, NEW chunk \in Arrivals(stream, max)
    PROVE  Rest(stream, chunk) \in Seq(S) /\ chunk \in Seq(S) /\ chunk[1] \in S
  <1>1. /\ Rest(stream, chunk) \in Seq(S)
        /\ chunk \in Seq(S) /\ Len(chunk) \in 1..Least(Len(stream), max)
    BY ArrivesInOrder
  <1>2. Len(chunk) \in Nat /\ Len(chunk) >= 1 BY <1>1 DEF Least
  <1> QED BY <1>1, <1>2

\* The part of the types that the thread can change.
ServerTypes ==
    /\ server \in {"loop", "dispatch", "answer", "ready", "sending", "closed", "stopped"}
    /\ buff.op \in Requests \cup {"none"}
    /\ userType \in 0..2
    /\ length \in 0..3 * MaxLines /\ sent \in 0..BlockCount(length)
    /\ down \in Seq(DownUnit)
    /\ server = "sending" => sent < BlockCount(length)
    /\ server = "ready" => sent = 0

\* The part that a window can change.
ClientTypes ==
    /\ window \in {"main", "security", "log"}
    /\ shown \in 0..MaxRows
    /\ expected \in 0..3 * MaxLines /\ left \in 0..BlockCount(3 * MaxLines)
    /\ finished \in BOOLEAN

LEMMA TypesParts ==
    /\ TypesInv <=> WireKinds /\ ServerTypes /\ ClientTypes
    /\ TypesInv' <=> WireKinds' /\ ServerTypes' /\ ClientTypes'
  BY DEF TypesInv, WireTypes, WireKinds, ServerTypes, ClientTypes

\* The types hold at first and after every step.
LEMMA TypesInit ==
    ASSUME Init
    PROVE  TypesInv
  <1>1. WireKinds BY KindsInit
  <1>2. <<>> \in Seq(DownUnit) OBVIOUS
  <1>3. 3 * MaxLines \in Nat /\ MaxRows \in Nat BY WireAssumption DEF WireAssumption
  <1>4. BlockCount(0) \in Nat /\ BlockCount(3 * MaxLines) \in Nat BY <1>3, BlocksCover
  <1>5. ServerTypes
    <2>1. length = 0 /\ sent = 0 /\ down = <<>> /\ server = "loop" /\ userType = 0
          /\ buff.op = "none"
      BY DEF Init, Nothing
    <2> QED BY <1>2, <1>3, <1>4, <2>1 DEF ServerTypes
  <1>6. ClientTypes
    <2>1. 0 \in 0..MaxRows /\ 0 \in 0..3 * MaxLines /\ 0 \in 0..BlockCount(3 * MaxLines)
      BY <1>3, <1>4
    <2>2. shown = 0 /\ expected = 0 /\ left = 0 /\ finished = FALSE /\ window = "main"
      BY DEF Init
    <2> QED BY <2>1, <2>2, Zenon DEF ClientTypes
  <1> QED BY <1>1, <1>5, <1>6, TypesParts

LEMMA TypesServer ==
    ASSUME TypesInv, ServerStep
    PROVE  TypesInv'
  <1>1. WireKinds /\ ServerTypes /\ ClientTypes BY TypesParts
  <1>2. WireKinds' BY <1>1, ServerKinds
  <1>3. ClientTypes' BY <1>1, ServerAt DEF windows, ClientTypes
  <1>4. /\ 3 * MaxLines \in Nat /\ MaxRows \in Nat /\ Block \in Nat /\ AdminTypes \subseteq {1, 2}
        /\ length \in Nat /\ sent \in Nat /\ BlockCount(length) \in Nat
    BY <1>1, BlocksCover, WireAssumption DEF WireKinds, WireAssumption
  <1>5. <<>> \in Seq(DownUnit) OBVIOUS
  <1>6. \A m \in Seq(DownUnit) : Reply(m) => down' \in Seq(DownUnit)
    BY <1>1, ReplySeq DEF ServerTypes
  <1>7. \A op \in Ops \ {"list", "header"}, val \in Nat : Msg(op, val) \in Seq(DownUnit)
    BY DownMsg
  <1>8. ServerTypes'
    <2>1. CASE Listen BY <1>1, <2>1 DEF Listen, ServerTypes
    <2>2. CASE ListenFails BY <1>1, <1>5, <2>2 DEF ListenFails, ServerStops, ServerTypes
    <2>3. CASE HandlerFails BY <1>1, <1>5, <2>3 DEF HandlerFails, ServerStops, ServerTypes
    <2>4. CASE AdminLogin
      <3>1. Msg("S_FAILED", 0) \in Seq(DownUnit) /\ Msg("S_NEXTSTEP", 0) \in Seq(DownUnit)
        BY <1>7 DEF Ops
      <3> QED BY <1>1, <1>6, <2>4, <3>1 DEF AdminLogin, ServerRest, Back, ServerTypes
    <2>5. CASE AdminAnswer
      <3>1. Msg("S_FAILED", 0) \in Seq(DownUnit)
            /\ \A type \in AdminTypes : Msg("S_ACCESS", type) \in Seq(DownUnit)
        BY <1>4, <1>7 DEF Ops
      <3> QED BY <1>1, <1>4, <1>6, <2>5, <3>1 DEF AdminAnswer, Back, ServerTypes
    <2>6. CASE GetRequest
      <3>1. \A rows \in 0..MaxRows : Msg("list", rows) \in Seq(DownUnit)
        <4> TAKE rows \in 0..MaxRows
        <4>1. "list" \in Ops /\ rows \in Nat /\ rows <= MaxRows BY <1>4 DEF Ops
        <4> QED BY <4>1, DownMsg
      <3> QED BY <1>1, <1>6, <2>6, <3>1 DEF GetRequest, Back, ServerTypes
    <2>7. CASE ProcessBatch \/ Logout
      BY <1>1, <2>7 DEF ProcessBatch, Logout, ServerRest, Back, ServerTypes
    <2>8. CASE GetLog
      <3>1. CASE userType = 2
        <4>1. PICK lines \in 1..MaxLines :
                  /\ length' = 3 * lines /\ sent' = 0 /\ server' = "ready"
                  /\ Reply(Msg("header", 3 * lines))
          BY <2>8, <3>1 DEF GetLog
        <4>2. 3 * lines \in 0..3 * MaxLines BY WireAssumption DEF WireAssumption
        <4>3. BlockCount(3 * lines) \in Nat BY <4>2, BlocksCover
        <4>4. Msg("header", 3 * lines) \in Seq(DownUnit) BY <4>2, DownMsg DEF Ops
        <4>5. down' \in Seq(DownUnit) BY <1>6, <4>1, <4>4
        <4> QED BY <1>1, <2>8, <4>1, <4>2, <4>3, <4>5 DEF GetLog, ServerRest, ServerTypes
      <3>2. CASE userType # 2
        BY <1>1, <2>8, <3>2 DEF GetLog, ServerRest, Back, ServerTypes
      <3> QED BY <3>1, <3>2
    <2>9. CASE LogReady
      <3>1. length' \in Grown(length) BY <2>9 DEF LogReady
      <3>2. /\ length' \in 0..3 * MaxLines
            /\ BlockCount(length') = BlockCount(length)
        BY <1>4, <3>1, GrownKeeps
      <3>3. server' = "sending" => BlockCount(length) > 0 BY <2>9 DEF LogReady
      <3>4. server = "ready" /\ server' \in {"sending", "loop"}
            /\ UNCHANGED <<buff, userType, sent, down>>
        BY <2>9 DEF LogReady
      <3> QED BY <1>1, <1>4, <3>2, <3>3, <3>4 DEF ServerTypes
    <2>10. CASE LogBlock
      <3>1. sent < BlockCount(length) BY <1>1, <2>10 DEF LogBlock, ServerTypes
      <3> DEFINE block ==
              SubSeq(LogFile(length), sent * Block + 1, Least((sent + 1) * Block, length))
      <3>2. block \in Seq(LogByte) BY <1>4, <3>1, LogCut
      <3>3. down' \in Seq(DownUnit)
        <4>1. Reply(block) BY <2>10 DEF LogBlock
        <4> HIDE DEF block
        <4>2. block \in Seq(DownUnit) BY ONLY <3>2, LogGoesDown, WiderSeq
        <4> QED BY <1>6, <4>1, <4>2
      <3>4. /\ sent' = sent + 1 /\ UNCHANGED <<length, buff, userType>>
            /\ server' = IF sent + 1 >= BlockCount(length) \/ Gone THEN "loop" ELSE "sending"
        BY <2>10 DEF LogBlock, ServerRest
      <3> QED BY <1>1, <1>4, <3>1, <3>3, <3>4 DEF ServerTypes
    <2> QED BY <2>1, <2>2, <2>3, <2>4, <2>5, <2>6, <2>7, <2>8, <2>9, <2>10 DEF ServerStep
  <1> QED BY <1>2, <1>3, <1>8, TypesParts

LEMMA TypesClient ==
    ASSUME TypesInv, ClientStep
    PROVE  TypesInv'
  <1>1. WireKinds /\ ServerTypes /\ ClientTypes BY TypesParts
  <1>2. WireKinds' BY <1>1, ClientKinds
  <1>3. /\ 3 * MaxLines \in Nat /\ MaxRows \in Nat /\ Block \in Nat /\ ClientBuffer \in Nat
        /\ left \in Nat
    BY <1>1, WireAssumption DEF WireKinds, WireAssumption, ClientBuffer
  <1>4. <<>> \in Seq(DownUnit) OBVIOUS
  <1>5. UNCHANGED threads
    BY DEF ClientStep, ClientReceives, StartLogin, SwitchTable, StartDownload, Close, Vanish,
           Press, Refresh, Receive, Misread, ReceiveBlock, BlocksEnd, Leave
  <1>6. /\ down' \in Seq(DownUnit)
        /\ ClientTypes'
    <2>1. CASE Receive
      <3>1. PICK chunk \in Arrivals(down, ClientBuffer) :
                down' = Rest(down, chunk) /\ Got(chunk[1])
        BY <2>1 DEF Receive
      <3>2. Rest(down, chunk) \in Seq(DownUnit) /\ chunk[1] \in DownUnit
        BY <1>1, <1>3, ArrivalSeq DEF ServerTypes
      <3> DEFINE m == chunk[1]
      <3>3. Got(m) /\ m \in DownUnit BY <3>1, <3>2
      <3> HIDE DEF m
      <3>4. /\ m.val \in Nat /\ (m.op = "list" => m.val <= MaxRows)
            /\ m.op = "header" => m.val <= 3 * MaxLines
        BY <3>3 DEF DownUnit, Unit
      <3>5. m.op = "header" => BlockCount(m.val) \in 0..BlockCount(3 * MaxLines)
        BY <1>3, <3>4, MoreBlocks, BlocksCover
      <3>6. ClientTypes'
        <4>1. CASE GotFailed \/ GotChallenge \/ GotAccess(m.val)
          BY <1>1, <4>1 DEF GotFailed, GotChallenge, GotAccess, SameWindow, ClientTypes
        <4>2. CASE m.op = "list" /\ GotList(m.val)
          <5>1. m.val \in 0..MaxRows BY <1>3, <3>4, <4>2
          <5> QED BY <1>1, <4>2, <5>1 DEF GotList, ClientTypes
        <4>3. ASSUME NEW opens \in BOOLEAN, m.op = "header", GotHeader(m.val, opens)
              PROVE  ClientTypes'
          <5>1. m.val \in 0..3 * MaxLines BY <1>3, <3>4, <4>3
          <5>2. finished' \in BOOLEAN BY <1>1, <4>3 DEF GotHeader, ClientTypes
          <5> QED BY <1>1, <3>5, <4>3, <5>1, <5>2 DEF GotHeader, ClientTypes
        <4> QED BY <3>3, <4>1, <4>2, <4>3 DEF Got
      <3> QED BY <3>1, <3>2, <3>6
    <2>2. CASE ReceiveBlock
      <3>1. down' \in Seq(DownUnit)
        BY <1>1, <1>3, <2>2, ArrivalSeq DEF ReceiveBlock, ServerTypes
      <3>2. left' = left - 1 /\ left > 0 BY <1>1, <2>2 DEF ReceiveBlock, WireKinds
      <3>3. finished' \in BOOLEAN BY <2>2 DEF ReceiveBlock
      <3>4. BlockCount(3 * MaxLines) \in Nat BY <1>3, BlocksCover
      <3>5. left' \in 0..BlockCount(3 * MaxLines)
        BY <1>1, <1>3, <3>2, <3>4 DEF ClientTypes
      <3> QED BY <1>1, <2>2, <3>1, <3>3, <3>5 DEF ReceiveBlock, ClientTypes
    <2>3. CASE ~Receive /\ ~ReceiveBlock
      BY <1>1, <1>4, <2>3
      DEF ClientStep, ClientReceives, StartLogin, SwitchTable, StartDownload, Close, Vanish,
          Press, Refresh, Misread, BlocksEnd, Leave, SameWindow, ClientTypes, ServerTypes
    <2> QED BY <2>1, <2>2, <2>3
  <1>7. ServerTypes' BY <1>1, <1>5, <1>6 DEF threads, ServerTypes
  <1> QED BY <1>2, <1>6, <1>7, TypesParts

LEMMA TypesStep ==
    ASSUME TypesInv, [Next]_vars
    PROVE  TypesInv'
  <1>1. WireKinds' BY KindsStep DEF TypesInv
  <1>2. WireKinds /\ ServerTypes /\ ClientTypes BY TypesParts
  <1>3. CASE StoppedElsewhere
    <2>1. <<>> \in Seq(DownUnit) OBVIOUS
    <2>2. ServerTypes' /\ ClientTypes'
      BY <1>2, <1>3, <2>1
      DEF StoppedElsewhere, ServerStops, windows, ServerTypes, ClientTypes
    <2> QED BY <1>1, <2>2, TypesParts
  <1>4. CASE UNCHANGED vars
    <2>1. ServerTypes' /\ ClientTypes'
      BY <1>2, <1>4 DEF vars, windows, threads, ServerTypes, ClientTypes
    <2> QED BY <1>1, <2>1, TypesParts
  <1> QED BY <1>3, <1>4, TypesServer, TypesClient DEF Next, Ended

-----------------------------------------------------------------------------
(* The steps of the thread.                                                *)

\* At the first window the thread keeps in step with the client.
LEMMA MainServed ==
    ASSUME WireKinds, Screens, window = "main", ~Gone, AtMain, ServerStep
    PROVE  AtMain' /\ server' # "stopped"
  <1>1. client' = client BY ServerAt DEF windows
  <1>2. client \in {"idle", "challenge", "result"} BY DEF WireKinds, Screens, Gone
  <1> QED BY <1>1, <1>2, IdleWaits, ChallengeServed, ResultServed DEF AtMain

\* Another block goes on its way, and what is not sent is shorter by as much.
LEMMA BlockGoesOut ==
    ASSUME TypesInv, ~Gone, server = "sending", ServerStep
    PROVE  \E block \in Seq(LogByte) :
               /\ down' = down \o block /\ sent' = sent + 1
               /\ LogFrom(sent', length) \in Seq(LogByte)
               /\ block \o LogFrom(sent', length) = LogFrom(sent, length)
               /\ server' \in {"sending", "loop"}
               /\ server' = "loop" <=> sent' = BlockCount(length)
               /\ UNCHANGED <<windows, buff, userType, length, up, faults>>
  <1> DEFINE block == SubSeq(LogFile(length), sent * Block + 1, Least((sent + 1) * Block, length))
  <1>1. /\ LogBlock /\ length \in Nat /\ sent \in Nat /\ sent < BlockCount(length)
        /\ BlockCount(length) \in Nat
    BY ServerAt, BlocksCover DEF TypesInv, WireKinds
  <1>2. /\ block \in Seq(LogByte) /\ LogFrom(sent + 1, length) \in Seq(LogByte)
        /\ block \o LogFrom(sent + 1, length) = LogFrom(sent, length)
    BY <1>1, LogCut
  <1>3. /\ down' = down \o block /\ sent' = sent + 1
        /\ server' = IF sent + 1 >= BlockCount(length) THEN "loop" ELSE "sending"
        /\ UNCHANGED <<windows, buff, userType, length, up, faults>>
    BY <1>1 DEF LogBlock, Reply, ServerRest
  <1> HIDE DEF block
  <1>4. server' \in {"sending", "loop"} /\ (server' = "loop" <=> sent' = BlockCount(length))
    BY <1>1, <1>3
  <1> QED BY <1>2, <1>3, <1>4, Zenon

\* Concatenated and <<>>, for the bytes of the log.
LEMMA JoinedLog ==
    ASSUME NEW a \in Seq(LogByte), NEW b \in Seq(LogByte)
    PROVE  a \o b \in Seq(LogByte)
  OBVIOUS

LEMMA NoBytes == <<>> \in Seq(LogByte)
  OBVIOUS

\* After a download the thread sends what is left and goes back to its loop.
LEMMA BetweenServed ==
    ASSUME TypesInv, client = "idle", BetweenDownloads, ServerStep
    PROVE  BetweenDownloads' /\ server' # "stopped"
  <1>1. ~Gone /\ userType = 2 BY DEF Gone, BetweenDownloads
  <1>2. CASE up = <<>> /\ server = "sending" /\ OnlyLog
    <2>1. PICK block \in Seq(LogByte) :
              /\ down' = down \o block /\ server' \in {"sending", "loop"}
              /\ UNCHANGED <<userType, up>>
      BY <1>1, <1>2, BlockGoesOut
    <2>2. OnlyLog' BY <1>2, <2>1, JoinedLog DEF OnlyLog
    <2> QED BY <1>1, <1>2, <2>1, <2>2 DEF BetweenDownloads
  <1>3. CASE up = Msg("ready", 1) /\ server = "ready" /\ down = <<>>
    <2>1. LogReady /\ up # <<>> BY <1>3, HandlerHears, ServerAt
    <2>2. up' = <<>> BY <1>3, <2>1, HandlerHears DEF LogReady
    <2>3. server' \in {"sending", "loop"} /\ down' = <<>> /\ userType' = 2
      BY <1>1, <1>3, <2>1 DEF LogReady
    <2> QED BY <2>2, <2>3, NoBytes DEF BetweenDownloads, OnlyLog
  <1>4. ~(server = "loop" /\ up = <<>>) BY <1>1, ListensInVain
  <1> QED BY <1>2, <1>3, <1>4 DEF BetweenDownloads

\* The confirmation and the request behind it are taken one by one, or they
\* arrive in one piece, which is no message.
LEMMA ReadyThenRequest ==
    ASSUME ServerStep, server = "ready", ~Gone, down = <<>>,
           up = Msg("ready", 1) \o Msg("C_GET_LOG", 0)
    PROVE  /\ down' = <<>> /\ UNCHANGED userType
           /\ \/ server' = "stopped"
              \/ server' \in {"sending", "loop"} /\ up' = Msg("C_GET_LOG", 0)
  <1>1. CASE HandlerFails
    BY <1>1 DEF HandlerFails, ServerStops
  <1>2. CASE LogReady
    <2>1. PICK chunk \in Arrivals(up, Block) :
              /\ Parses(chunk) /\ up' = Rest(up, chunk)
              /\ server' \in {"sending", "loop"}
      BY <1>2 DEF LogReady
    <2>2. Block \in Nat /\ "ready" \in Ops /\ "C_GET_LOG" \in Ops /\ 1 \in Nat
      BY WireAssumption DEF WireAssumption, Ops, Requests
    <2>3. up' = Msg("C_GET_LOG", 0) BY <2>1, <2>2, FirstArrives
    <2> QED BY <1>2, <2>1, <2>3 DEF LogReady
  <1> QED BY <1>1, <1>2, ServerAt

\* A request for the log is dispatched, and its header goes behind what is left.
\* If the thread stops, at a confirmation and a request in one piece, the client
\* has nothing to read.
LEMMA HeaderDueServed ==
    ASSUME TypesInv, client = "header", HeaderDue, ServerStep
    PROVE  /\ server' # "stopped" => HeaderDue'
           /\ server' = "stopped" => down' = <<>>
  <1>1. ~Gone /\ userType = 2 BY DEF Gone, HeaderDue
  <1>2. CASE up = Msg("C_GET_LOG", 0) /\ server = "loop" /\ OnlyLog
    <2>1. /\ server' = "dispatch" /\ buff' = Part("C_GET_LOG", 0, 1) /\ up' = <<>>
          /\ UNCHANGED <<userType, down>>
      BY <1>2, Listens DEF Requests, Batches
    <2> QED BY <1>1, <1>2, <2>1 DEF HeaderDue, OnlyLog
  <1>3. CASE up = Msg("C_GET_LOG", 0) /\ server = "sending" /\ OnlyLog
    <2>1. PICK block \in Seq(LogByte) :
              /\ down' = down \o block /\ server' \in {"sending", "loop"}
              /\ UNCHANGED <<userType, up>>
      BY <1>1, <1>3, BlockGoesOut
    <2>2. OnlyLog' BY <1>3, <2>1, JoinedLog DEF OnlyLog
    <2> QED BY <1>1, <1>3, <2>1, <2>2 DEF HeaderDue
  <1>4. CASE /\ up = Msg("ready", 1) \o Msg("C_GET_LOG", 0)
             /\ server = "ready" /\ down = <<>>
    <2>1. /\ down' = <<>> /\ UNCHANGED userType
          /\ \/ server' = "stopped"
             \/ server' \in {"sending", "loop"} /\ up' = Msg("C_GET_LOG", 0)
      BY <1>1, <1>4, ReadyThenRequest
    <2> QED BY <1>1, <2>1, NoBytes DEF HeaderDue, OnlyLog
  <1>5. CASE up = <<>> /\ server = "dispatch" /\ buff = Part("C_GET_LOG", 0, 1) /\ OnlyLog
    <2>1. GetLog BY <1>5, Dispatches DEF Part
    <2>2. PICK lines \in 1..MaxLines :
              /\ length' = 3 * lines /\ sent' = 0 /\ server' = "ready"
              /\ Reply(Msg("header", 3 * lines))
      BY <1>1, <2>1 DEF GetLog
    <2>3. length' \in Nat /\ length' > 0 BY <2>2, WireAssumption DEF WireAssumption
    <2>4. Single("header") BY DEF Single, Batches
    <2>5. Msg("header", length') = <<Part("header", length', 1)>> BY <2>3, <2>4, SingleMsg
    <2>6. down' = down \o <<Part("header", length', 1)>>
      BY <1>1, <2>2, <2>5 DEF Reply
    <2> DEFINE u == Part("header", length', 1)
    <2>7. down \in Seq(LogByte) BY <1>5 DEF OnlyLog
    <2> HIDE DEF u
    <2>8. /\ Len(down \o <<u>>) = Len(down) + 1 /\ Len(down) \in Nat
          /\ (down \o <<u>>)[Len(down) + 1] = u
          /\ \A i \in 1..Len(down) : (down \o <<u>>)[i] \in LogByte
      BY <2>7
    <2>9. /\ Len(down') > 0 /\ down'[Len(down')] = u
          /\ \A i \in 1..(Len(down') - 1) : down'[i] \in LogByte
      BY <2>6, <2>8 DEF u
    <2>10. up' = <<>> /\ userType' = 2
      BY <1>1, <1>5, <2>1 DEF GetLog, ServerRest
    <2> QED BY <2>2, <2>3, <2>9, <2>10 DEF HeaderDue, u
  <1>6. ~(server = "ready" /\ up = <<>>) BY <1>1, HandlerWaits
  <1> QED BY <1>2, <1>3, <1>4, <1>5, <1>6 DEF HeaderDue

\* The thread hears the confirmation, then sends block after block.
LEMMA BlocksDueServed ==
    ASSUME TypesInv, client = "blocks", BlocksDue, ServerStep, faults \subseteq faults'
    PROVE  BlocksDue' /\ server' # "stopped"
  <1>1. /\ ~Gone /\ userType = 2 /\ expected > 0 /\ length \in Grown(expected)
        /\ UNCHANGED <<client, expected, copy>>
    BY ServerAt DEF Gone, BlocksDue, windows
  <1>2. length \in Nat /\ sent \in Nat /\ down \in Seq(Unit) /\ expected \in Nat
        /\ length > 0
    <2>1. length \in Nat /\ sent \in Nat /\ down \in Seq(Unit) /\ expected \in Nat
      BY WireAssumption DEF WireAssumption, TypesInv, WireKinds, WireTypes
    <2> QED BY <1>1, <2>1, GrownKeeps
  <1>3. "split" \notin faults' => AtBlocks'
    BY BlocksServed DEF BlocksDue, TypesInv
  <1>4. CASE /\ up = Msg("ready", 1) /\ server = "ready" /\ down = <<>>
             /\ sent = 0 /\ copy = <<>> /\ length = expected
    <2>1. LogReady /\ up # <<>> BY <1>4, HandlerHears, ServerAt
    <2>2. BlockCount(length) \in Nat /\ BlockCount(length) > 0
      <3>1. 0 * Block = 0 BY WireAssumption DEF WireAssumption
      <3> QED BY <1>1, <1>2, <3>1, BlocksCover
    <2>3. up' = <<>> /\ server' = "sending" BY <1>4, <2>1, <2>2, HandlerHears DEF LogReady
    <2>4. /\ UNCHANGED <<userType, sent, down>> /\ length' \in Grown(length)
      BY <2>1 DEF LogReady
    <2>8. /\ length' \in Nat /\ length' \in Grown(expected)
          /\ BlockCount(length') = BlockCount(length)
      BY <1>2, <1>4, <2>4, GrownKeeps
    <2>5. copy' = <<>> /\ down' = <<>> /\ sent' = 0
      BY <1>1, <1>4, <2>4
    <2>6. copy' \o Written(down' \o LogFrom(sent', length')) = Written(LogFile(length'))
      <3>1. LogFrom(0, length') = LogFile(length') BY <2>8, LogEnds
      <3>2. LogFile(length') \in Seq(Unit) BY <2>8, LogBytes, LogGoesDown, WiderSeq
      <3>3. <<>> \o LogFile(length') = LogFile(length') BY <3>2, AfterNothing
      <3>4. <<>> \o Written(LogFile(length')) = Written(LogFile(length'))
        <4>1. Written(LogFile(length')) \in Seq(Unit) BY <3>2, WrittenJoins
        <4> QED BY <4>1, AfterNothing
      <3> QED BY <2>5, <3>1, <3>3, <3>4, Zenon
    <2>7. copy' \in Seq(Unit) /\ OnlyLog'
      BY <2>5, NoUnits, NoBytes DEF OnlyLog
    <2> QED BY <1>1, <1>3, <2>2, <2>3, <2>4, <2>5, <2>6, <2>7, <2>8 DEF BlocksDue
  <1>5. CASE up = <<>> /\ server = "sending" /\ OnlyLog
    <2>1. copy \in Seq(Unit) /\ copy \o Written(down \o LogFrom(sent, length)) = Written(LogFile(length))
      BY <1>5, MsgAfterNothing DEF BlocksDue
    <2>2. PICK block \in Seq(LogByte) :
              /\ down' = down \o block /\ sent' = sent + 1
              /\ LogFrom(sent', length) \in Seq(LogByte)
              /\ block \o LogFrom(sent', length) = LogFrom(sent, length)
              /\ server' \in {"sending", "loop"}
              /\ server' = "loop" <=> sent' = BlockCount(length)
              /\ UNCHANGED <<windows, buff, userType, length, up, faults>>
      BY <1>1, <1>5, BlockGoesOut
    <2>3. OnlyLog' BY <1>5, <2>2, JoinedLog DEF OnlyLog
    <2>4. down' \o LogFrom(sent', length') = down \o LogFrom(sent, length)
      <3> DEFINE f == LogFrom(sent', length)
      <3>1. (down \o block) \o f = down \o (block \o f)
        <4>1. f \in Seq(LogByte) /\ down \in Seq(LogByte) BY <1>5, <2>2 DEF OnlyLog
        <4> HIDE DEF f
        <4> QED BY ONLY <4>1, block \in Seq(LogByte), Associates
      <3> QED BY <2>2, <3>1
    <2>5. copy' \o Written(down' \o LogFrom(sent', length')) = Written(LogFile(length'))
      BY <1>1, <2>1, <2>2, <2>4
    <2> QED BY <1>1, <1>3, <1>5, <2>1, <2>2, <2>3, <2>5 DEF BlocksDue
  <1>6. ~(server = "loop" /\ up = <<>>) BY <1>1, ListensInVain
  <1> QED BY <1>4, <1>5, <1>6 DEF BlocksDue

-----------------------------------------------------------------------------
(* The steps of the windows.                                               *)

\* A window changes only by a login, and never back.
LEMMA ScreensClient ==
    ASSUME Screens, ClientStep
    PROVE  /\ Screens' /\ UNCHANGED threads
           /\ window = "security" => window' = "security"
           /\ Gone => Gone'
           /\ window' = "log" => window = "log" \/ client = "result"
           /\ window' = "main" => window = "main"
  <1>1. CASE Receive
    BY <1>1
    DEF Receive, Got, Understood, GotFailed, GotChallenge, GotAccess, GotList, GotHeader,
        Screens, Gone
  <1>2. CASE ~Receive
    BY <1>2
    DEF ClientStep, ClientReceives, StartLogin, SwitchTable, StartDownload, Close, Vanish,
        Press, Refresh, Misread, ReceiveBlock, BlocksEnd, Leave, Understood, Screens, Gone
  <1> QED BY <1>1, <1>2

\* What a window can do, by where it is.
LEMMA ClientAt ==
    ASSUME ClientStep, Screens
    PROVE  /\ client = "idle" /\ window = "main" => StartLogin \/ Close \/ Vanish
           /\ client = "idle" /\ window = "log" => StartDownload \/ Close \/ Vanish
           /\ client \in {"challenge", "result", "header", "blocks"} =>
                  ClientReceives \/ Vanish
           /\ Close \/ Vanish => client' \in {"closed", "dead"} /\ UNCHANGED finished
  BY DEF ClientStep, ClientReceives, StartLogin, SwitchTable, StartDownload, Close, Vanish,
         Press, Refresh, Receive, Misread, ReceiveBlock, BlocksEnd, Leave, Understood, SameWindow

\* What the first window does keeps the two ends in step, and leaves a quiet
\* connection to the window that follows.
LEMMA MainActs ==
    ASSUME WireKinds, Screens, server # "stopped", window = "main", AtMain, ClientStep
    PROVE  /\ window' = "main" => AtMain'
           /\ window' = "log" => AtLog'
  <1>1. CASE client = "idle"
    <2>1. CASE StartLogin
      <3>1. AtIdle /\ Quiet BY <1>1 DEF AtMain, AtIdle
      <3>2. up' = Msg("C_ADMIN_LOGIN", 0)
        BY <2>1, <3>1, MsgAfterNothing DEF StartLogin, Send, Quiet
      <3>3. client' = "challenge" /\ AtChallenge'
        BY <2>1, <3>1, <3>2
        DEF StartLogin, AtChallenge, Asked, AtIdle, Quiet, threads
      <3> QED BY <2>1, <3>3 DEF StartLogin, AtMain
    <2>2. CASE Close \/ Vanish BY <2>2, ClientAt DEF AtMain, AtLog
    <2> QED BY <1>1, <2>1, <2>2, ClientAt
  <1>2. CASE client = "challenge" /\ ClientReceives
    BY <1>2, ChallengeReceived DEF AtMain
  <1>3. CASE client = "result" /\ ClientReceives
    <2>1. \/ client' = "idle" /\ window' \in {"main", "log"} /\ AtIdle'
          \/ client' = "list" /\ window' = "security"
      BY <1>3, ResultReceived DEF AtMain
    <2>2. window' = "log" /\ AtIdle' => BetweenDownloads'
      BY NoBytes DEF AtIdle, Quiet, BetweenDownloads, OnlyLog
    <2> QED BY <2>1, <2>2 DEF AtMain, AtLog
  <1>4. CASE client \in {"challenge", "result"} /\ Vanish
    BY <1>4, ClientAt DEF AtMain, AtLog
  <1>5. CASE Gone
    <2>1. Gone' BY <1>5, ScreensClient
    <2> QED BY <2>1 DEF Gone, AtMain, AtLog
  <1>6. client \in {"idle", "challenge", "result"} \/ Gone
    BY DEF WireKinds, Screens, Gone
  <1> QED BY <1>1, <1>2, <1>3, <1>4, <1>5, <1>6, ClientAt

\* A button of the log window asks for the log.
LEMMA BetweenActs ==
    ASSUME Screens, window = "log", client = "idle", BetweenDownloads, StartDownload
    PROVE  client' = "header" /\ HeaderDue' /\ ~finished'
  <1>1. /\ up' = up \o Msg("C_GET_LOG", 0) /\ client' = "header" /\ finished' = FALSE
        /\ UNCHANGED <<server, userType, down>>
    BY DEF StartDownload, Send, threads
  <1>2. CASE up = <<>>
    <2>1. up' = Msg("C_GET_LOG", 0) BY <1>1, <1>2, MsgAfterNothing
    <2>2. server \in {"loop", "sending"} /\ OnlyLog
      BY <1>2, MsgAfterNothing DEF BetweenDownloads
    <2> QED BY <1>1, <2>1, <2>2 DEF BetweenDownloads, HeaderDue, OnlyLog
  <1>3. CASE up = Msg("ready", 1) /\ server = "ready" /\ down = <<>>
    BY <1>1, <1>3 DEF BetweenDownloads, HeaderDue
  <1> QED BY <1>2, <1>3 DEF BetweenDownloads

\* A header is understood if nothing is before it.
LEMMA HeaderDueReceived ==
    ASSUME TypesInv, server # "stopped", window = "log", client = "header", HeaderDue,
           ~finished, Receive
    PROVE  /\ ~finished'
           /\ \/ client' = "idle" /\ BetweenDownloads'
              \/ client' = "blocks" /\ BlocksDue'
  <1>1. PICK chunk \in Arrivals(down, ClientBuffer) :
            /\ Parses(chunk) /\ chunk[1].op = "header"
            /\ down' = Rest(down, chunk) /\ Got(chunk[1]) /\ UNCHANGED threads
    BY DEF Receive, Understood
  <1>2. /\ ClientBuffer \in Nat /\ length \in Nat /\ down \in Seq(Unit)
    BY WireAssumption DEF WireAssumption, ClientBuffer, TypesInv, WireKinds
  <1>3. Len(chunk) \in 1..Least(Len(down), ClientBuffer) /\ chunk[1] = down[1] /\ Len(down) > 0
    <2>1. /\ Len(chunk) \in 1..Least(Len(down), ClientBuffer)
          /\ \A i \in 1..Len(chunk) : chunk[i] = down[i]
      BY <1>2, ArrivesInOrder
    <2>2. Len(chunk) \in Nat /\ Len(chunk) >= 1 /\ Len(down) >= 1
      BY <1>2, <2>1 DEF Least
    <2> QED BY <2>1, <2>2
  <1>4. down[1] \notin LogByte
    <2>1. \A u \in LogByte : u.op # "header" BY DEF LogByte, Byte, Bytes
    <2> QED BY <1>1, <1>3, <2>1
  <1>5. ~OnlyLog /\ down # <<>>
    BY <1>3, <1>4 DEF OnlyLog
  <1>6. /\ userType = 2 /\ up = <<>> /\ server = "ready" /\ sent = 0 /\ length > 0
        /\ down[Len(down)] = Part("header", length, 1)
        /\ \A i \in 1..(Len(down) - 1) : down[i] \in LogByte
    BY <1>5 DEF HeaderDue
  <1>7. Len(down) = 1
    <2>1. ~(1 \in 1..(Len(down) - 1)) BY <1>4, <1>6
    <2> QED BY <1>2, <1>3, <2>1
  <1>8. down = Msg("header", length)
    <2>1. Single("header") BY DEF Single, Batches
    <2>2. Msg("header", length) = <<Part("header", length, 1)>> BY <1>2, <2>1, SingleMsg
    <2>3. down = <<down[1]>> BY <1>2, <1>7
    <2> QED BY <1>6, <1>7, <2>2, <2>3
  <1>9. chunk[1] = Part("header", length, 1) /\ down' = <<>>
    BY <1>1, <1>2, <1>8, WholeArrives
  <1>10. PICK opens \in BOOLEAN : GotHeader(length, opens)
    BY <1>1, <1>9 DEF Got, Part
  <1>11. up' = Msg("ready", 1)
    BY <1>6, <1>10, MsgAfterNothing DEF GotHeader, Send
  <1>12. BlockCount(length) > 0 /\ BlockCount(length) \in Nat
    <2>1. 0 * Block = 0 BY WireAssumption DEF WireAssumption
    <2> QED BY <1>2, <1>6, <2>1, BlocksCover
  <1>13. UNCHANGED <<window, server, userType, length, sent>> /\ expected' = length
    BY <1>1, <1>10 DEF GotHeader, threads
  <1>14. CASE opens
    <2>1. /\ client' = "blocks" /\ left' = BlockCount(length) /\ copy' = <<>>
          /\ finished' = (left' = 0)
      BY <1>10, <1>12, <1>14 DEF GotHeader
    <2>2. left' # 0 BY <1>12, <2>1
    <2>3. ~finished' BY <2>1, <2>2, Zenon
    <2>4. AtBlocks' BY <1>6, <1>9, <1>11, <1>13, <2>1 DEF AtBlocks
    <2>5. length \in Grown(length)
      <3>1. 3 * MaxLines \in Nat /\ length <= 3 * MaxLines
        BY WireAssumption DEF WireAssumption, TypesInv, WireTypes
      <3>2. /\ BlockCount(length) * Block \in Nat
            /\ ~(BlockCount(length) * Block < length)
        BY <1>2, <1>12, BlocksCover, WireAssumption DEF WireAssumption
      <3> QED BY <1>2, <3>1, <3>2 DEF Grown, Least
    <2> QED BY <1>6, <1>9, <1>11, <1>13, <2>1, <2>3, <2>4, <2>5 DEF BlocksDue
  <1>15. CASE ~opens
    <2>1. client' = "idle" /\ UNCHANGED finished BY <1>10, <1>15 DEF GotHeader
    <2> QED BY <1>6, <1>9, <1>11, <1>13, <2>1 DEF BetweenDownloads
  <1> QED BY <1>14, <1>15

\* What is received and what is left of a stream make up the stream.
LEMMA ChunkAndRest ==
    ASSUME NEW S, NEW stream \in Seq(S), NEW max \in Nat, NEW chunk \in Arrivals(stream, max)
    PROVE  chunk \o Rest(stream, chunk) = stream
  <1>1. /\ chunk \in Seq(S) /\ Rest(stream, chunk) \in Seq(S)
        /\ Len(chunk) \in 1..Least(Len(stream), max)
        /\ \A i \in 1..Len(chunk) : chunk[i] = stream[i]
        /\ Len(Rest(stream, chunk)) = Len(stream) - Len(chunk)
        /\ \A i \in 1..(Len(stream) - Len(chunk)) :
               Rest(stream, chunk)[i] = stream[Len(chunk) + i]
    BY ArrivesInOrder
  <1> DEFINE rest == Rest(stream, chunk)
  <1>2. /\ Len(stream) = Len(chunk) + Len(rest)
        /\ \A i \in 1..Len(chunk) : stream[i] = chunk[i]
        /\ \A i \in 1..Len(rest) : stream[Len(chunk) + i] = rest[i]
    <2>1. Len(chunk) \in Nat /\ Len(stream) \in Nat BY <1>1
    <2>2. Len(stream) = Len(chunk) + Len(rest) BY <1>1, <2>1
    <2> QED BY <1>1, <2>2, Zenon
  <1>3. rest \in Seq(S) BY <1>1
  <1> HIDE DEF rest
  <1>4. stream = chunk \o rest
    BY ONLY <1>1, <1>2, <1>3, stream \in Seq(S), JoinedFrom
  <1> QED BY <1>4 DEF rest

\* A block, or a part of one, moves from the stream to the copy.
LEMMA BlocksDueReceived ==
    ASSUME TypesInv, server # "stopped", client = "blocks", BlocksDue, ReceiveBlock,
           faults \subseteq faults'
    PROVE  /\ client' = "blocks" => BlocksDue'
           /\ client' = "idle" => /\ BetweenDownloads'
                                  /\ \/ "split" \in faults'
                                     \/ \E n \in Grown(expected') : copy' = Written(LogFile(n))
           /\ client' \in {"idle", "blocks"}
           /\ finished' <=> client' = "idle"
  <1>1. PICK chunk \in Arrivals(down, Block) :
            down' = Rest(down, chunk) /\ copy' = copy \o Written(chunk)
    BY DEF ReceiveBlock
  <1>2. /\ client' = IF left = 1 THEN "idle" ELSE "blocks"
        /\ finished' = (left = 1)
        /\ UNCHANGED <<window, expected, up, server, userType, length, sent>>
    BY DEF ReceiveBlock, threads
  <1>3. /\ length \in Nat /\ sent \in Nat /\ left \in Nat /\ Block \in Nat /\ down \in Seq(Unit)
    BY WireAssumption DEF WireAssumption, TypesInv, WireKinds
  <1>4. down # <<>> BY ReceivesAt DEF ClientReceives
  <1>5. /\ userType = 2 /\ expected > 0 /\ length \in Grown(expected)
        /\ up = <<>> /\ server \in {"loop", "sending"} /\ OnlyLog
        /\ server = "loop" <=> sent = BlockCount(length)
        /\ copy \in Seq(Unit)
        /\ copy \o Written(down \o LogFrom(sent, length)) = Written(LogFile(length))
    BY <1>4 DEF BlocksDue
  <1>6. /\ chunk \in Seq(LogByte) /\ down' \in Seq(LogByte)
        /\ chunk \o down' = down
    BY <1>1, <1>3, <1>5, ArrivalSeq, ChunkAndRest DEF OnlyLog
  <1> DEFINE f == LogFrom(sent, length)
  <1>7. f \in Seq(LogByte) BY <1>3, LogFromBytes
  <1>8. /\ copy' \in Seq(Unit)
        /\ copy' \o Written(down' \o f) = Written(LogFile(length))
    <2> DEFINE rest == down' \o f
               old == Written(chunk)
               new == Written(rest)
    <2>1. down \o f = chunk \o rest
      <3> DEFINE d == down'
      <3>1. d \in Seq(LogByte) /\ chunk \in Seq(LogByte) BY <1>6
      <3>2. chunk \o d = down BY <1>6
      <3> HIDE DEF f, d
      <3>3. (chunk \o d) \o f = chunk \o (d \o f)
        BY ONLY <1>7, <3>1, Associates
      <3> QED BY <3>2, <3>3 DEF d
    <2>2. rest \in Seq(LogByte) BY <1>6, <1>7, JoinedLog
    <2>3. rest \in Seq(Unit) /\ chunk \in Seq(Unit)
      <3> HIDE DEF rest
      <3> QED BY ONLY <1>6, <2>2, LogGoesDown, WiderSeq
    <2>4. old \in Seq(Unit) /\ new \in Seq(Unit) /\ Written(chunk \o rest) = old \o new
      BY ONLY <2>3, WrittenJoins
    <2>5. copy \o (old \o new) = Written(LogFile(length))
      BY <1>5, <2>1, <2>4, Zenon
    <2> HIDE DEF old, new, rest, f
    <2>6. (copy \o old) \o new = copy \o (old \o new)
      BY ONLY <1>5, <2>4, Associates
    <2>7. copy \o old \in Seq(Unit)
      BY ONLY <1>5, <2>4, Concatenated
    <2> QED BY <1>1, <2>5, <2>6, <2>7 DEF old, new, rest
  <1>9. "split" \notin faults' => AtBlocks BY DEF BlocksDue
  <1>10. LogFrom(sent', length') = f /\ OnlyLog' /\ client' \in {"idle", "blocks"}
         /\ (finished' <=> client' = "idle") /\ (client' = "idle" <=> left = 1)
    BY <1>2, <1>6 DEF OnlyLog
  <1>11. CASE left = 1
    <2>1. BetweenDownloads' BY <1>2, <1>5, <1>10 DEF BetweenDownloads
    <2>2. ASSUME "split" \notin faults' PROVE copy' = Written(LogFile(length))
      <3>1. down' = <<>> /\ sent = BlockCount(length)
        BY <1>9, <1>11, <2>2, BlocksCounted DEF TypesInv
      <3>2. f = <<>> BY <1>3, <3>1, LogEnds
      <3>3. down' \o f = <<>> BY <3>1, <3>2
      <3>4. copy' \o <<>> = copy' BY <1>8
      <3> QED BY <1>2, <1>5, <1>8, <3>3, <3>4, WrittenNothing
    <2> QED BY <1>2, <1>5, <1>10, <1>11, <2>1, <2>2
  <1>12. CASE left # 1
    <2>1. ASSUME "split" \notin faults' PROVE AtBlocks'
      <3>1. left >= 1 BY <1>9, <2>1, BlocksCounted DEF TypesInv
      <3>2. left > 1 BY <1>3, <1>12, <3>1
      <3> QED BY <1>9, <2>1, <3>2, BlocksCounted DEF TypesInv
    <2>2. BlocksDue' BY <1>2, <1>5, <1>8, <1>10, <2>1 DEF BlocksDue
    <2> QED BY <1>10, <1>12, <2>2
  <1> QED BY <1>11, <1>12

\* Nothing but a download touches what a download leaves behind.
LEMMA DownloadKept ==
    ASSUME ClientStep, client \notin {"header", "blocks"}
    PROVE  /\ UNCHANGED <<copy, expected>>
           /\ finished' => finished
           /\ client' \in {"header", "blocks"} => ~finished'
  <1>1. CASE Receive
    BY <1>1
    DEF Receive, Got, Understood, GotFailed, GotChallenge, GotAccess, GotList, SameWindow
  <1>2. CASE ~Receive
    BY <1>2
    DEF ClientStep, ClientReceives, StartLogin, SwitchTable, StartDownload, Close, Vanish,
        Press, Refresh, Misread, ReceiveBlock, BlocksEnd, Leave, Understood, SameWindow
  <1> QED BY <1>1, <1>2

\* A client that waits for a header or a block goes on, reports or ends.
LEMMA WaitingActs ==
    ASSUME WireKinds, ClientStep, Screens, client \in {"header", "blocks"}, ~finished
    PROVE  /\ \/ Gone' /\ ~finished'
              \/ client = "header" /\ Receive
              \/ client = "blocks" /\ ReceiveBlock
              \/ client = "blocks" /\ server = "stopped" /\ client' = "idle"
           /\ client' \in {"header", "blocks"} => ~finished'
  <1>1. ClientReceives \/ Vanish BY ClientAt
  <1>2. CASE Vanish BY <1>2 DEF Vanish, Leave, SameWindow, Gone
  <1>3. CASE Misread BY <1>3 DEF Misread, Leave, SameWindow, Gone
  <1>4. CASE Receive
    <2>1. PICK m : m.op = "header" /\ Got(m) /\ client = "header"
      BY <1>4 DEF Receive, Understood
    <2>2. PICK opens \in BOOLEAN : GotHeader(m.val, opens)
      BY <2>1 DEF Got
    <2>3. /\ client' = IF opens /\ BlockCount(m.val) > 0 THEN "blocks" ELSE "idle"
          /\ opens => left' = BlockCount(m.val) /\ finished' = (left' = 0)
      BY <2>2 DEF GotHeader
    <2>4. CASE client' = "blocks"
      <3>1. opens /\ BlockCount(m.val) > 0 BY <2>3, <2>4
      <3>2. left' # 0 BY <2>3, <3>1
      <3>3. ~finished' BY <2>3, <3>1, <3>2, Zenon
      <3> QED BY <1>4, <2>1, <3>3
    <2> QED BY <1>4, <2>1, <2>3, <2>4
  <1>5. CASE ReceiveBlock
    <2>1. client' = (IF left = 1 THEN "idle" ELSE "blocks") /\ finished' = (left = 1)
          /\ client = "blocks"
      BY <1>5 DEF ReceiveBlock
    <2>2. client' \in {"header", "blocks"} => ~finished' BY <2>1
    <2> QED BY <1>5, <2>1, <2>2
  <1>6. CASE BlocksEnd BY <1>6 DEF BlocksEnd
  <1> QED BY <1>1, <1>2, <1>3, <1>4, <1>5, <1>6 DEF ClientReceives

\* The log window, from one of its states to the next.
LEMMA LogActs ==
    ASSUME TypesInv, Screens, server # "stopped", window = "log", AtLog, ClientStep,
           client \in {"header", "blocks"} => ~finished, faults \subseteq faults'
    PROVE  AtLog'
  <1>1. WireKinds BY DEF TypesInv
  <1>2. CASE Gone'
    BY <1>2 DEF Gone, AtLog
  <1>3. CASE client = "idle" /\ ~Gone'
    <2>1. StartDownload BY <1>3, ClientAt DEF Gone
    <2> QED BY <1>3, <2>1, BetweenActs DEF AtLog
  <1>4. CASE client = "header" /\ ~Gone'
    <2>1. Receive BY <1>1, <1>4, WaitingActs
    <2> QED BY <1>4, <2>1, HeaderDueReceived DEF AtLog
  <1>5. CASE client = "blocks" /\ ~Gone'
    <2>1. ReceiveBlock BY <1>1, <1>5, WaitingActs
    <2>2. /\ client' = "blocks" => BlocksDue'
          /\ client' = "idle" => BetweenDownloads'
          /\ client' \in {"idle", "blocks"}
      BY <1>5, <2>1, BlocksDueReceived DEF AtLog
    <2> QED BY <2>2 DEF AtLog
  <1>6. client \in {"idle", "header", "blocks"} \/ Gone'
    <2>1. client \in {"idle", "header", "blocks"} \/ Gone BY <1>1 DEF WireKinds, Screens, Gone
    <2> QED BY <2>1, ScreensClient
  <1> QED BY <1>2, <1>3, <1>4, <1>5, <1>6

\* With nothing to read a client that waits for a header can only end.
LEMMA NoHeader ==
    ASSUME ClientStep, Screens, client = "header", down = <<>>
    PROVE  Gone' /\ UNCHANGED finished
  <1>1. ClientReceives \/ Vanish BY ClientAt
  <1>2. ClientBuffer \in Nat BY WireAssumption DEF WireAssumption, ClientBuffer
  <1>3. Arrivals(down, ClientBuffer) = {} BY <1>2, NothingArrives
  <1>4. ~Receive BY <1>3 DEF Receive
  <1> QED BY <1>1, <1>4
      DEF ClientReceives, Vanish, Misread, ReceiveBlock, BlocksEnd, Leave, SameWindow, Gone

-----------------------------------------------------------------------------
(* The invariant holds.                                                    *)

\* A client that reports a complete download has the log.
LEMMA CompleteClient ==
    ASSUME DownloadInv, ClientStep, faults \subseteq faults'
    PROVE  LogComplete'
  <1> SUFFICES ASSUME finished', faults' \cap {"split", "stopped"} = {}
               PROVE  \E n \in Grown(expected') : copy' = Written(LogFile(n))
    BY DEF LogComplete
  <1>1. CASE client \notin {"header", "blocks"}
    <2>1. finished /\ copy' = copy /\ expected' = expected BY <1>1, DownloadKept
    <2>2. \E n \in Grown(expected) : copy = Written(LogFile(n))
      BY <2>1 DEF DownloadInv, LogComplete
    <2> QED BY <2>1, <2>2
  <1>2. CASE client \in {"header", "blocks"}
    <2>1. TypesInv /\ WireKinds /\ Screens /\ window = "log" /\ ~finished
      BY <1>2 DEF DownloadInv, TypesInv, Screens
    <2>2. CASE server = "stopped"
      <3>1. client = "header" /\ down = <<>>
        BY <1>2, <2>1, <2>2 DEF DownloadInv, StopsOutside, Gone
      <3> QED BY <2>1, <3>1, NoHeader
    <2>3. CASE server # "stopped"
      <3>1. AtLog BY <2>1, <2>3 DEF DownloadInv
      <3>2. CASE client = "header" /\ Receive
        BY <2>1, <2>3, <3>1, <3>2, HeaderDueReceived DEF AtLog
      <3>3. CASE client = "blocks" /\ ReceiveBlock
        <4>1. BlocksDue BY <3>1, <3>3 DEF AtLog
        <4> QED BY <2>1, <2>3, <3>3, <4>1, BlocksDueReceived
      <3> QED BY <1>2, <2>1, <2>3, <3>2, <3>3, WaitingActs
    <2> QED BY <2>2, <2>3
  <1> QED BY <1>1, <1>2

\* The invariant: every step of the client keeps it.
LEMMA DownloadClient ==
    ASSUME DownloadInv, ClientStep, TypesInv', faults \subseteq faults'
    PROVE  DownloadInv'
  <1>1. /\ TypesInv /\ WireKinds /\ Screens
        /\ client \in {"header", "blocks"} => ~finished
        /\ server # "stopped" /\ window = "main" => AtMain
        /\ server # "stopped" /\ window = "log" => AtLog
    BY DEF DownloadInv, TypesInv
  <1>2. /\ Screens' /\ server' = server
        /\ window = "security" => window' = "security"
        /\ Gone => Gone'
        /\ window' = "log" => window \in {"main", "log"}
        /\ window' = "main" => window = "main"
    BY <1>1, ScreensClient DEF threads, Screens
  <1>3. StopsOutside'
    <2> SUFFICES ASSUME server' = "stopped", "stopped" \notin faults'
                 PROVE  Gone' \/ window' = "security"
      BY DEF StopsOutside
    <2>1. Gone \/ window = "security" \/ (client = "header" /\ down = <<>>)
      BY <1>2 DEF DownloadInv, StopsOutside
    <2> QED BY <1>1, <1>2, <2>1, NoHeader
  <1>4. client' \in {"header", "blocks"} => ~finished'
    BY <1>1, DownloadKept, WaitingActs
  <1>5. LogComplete' BY CompleteClient
  <1>6. server' # "stopped" /\ window' = "main" => AtMain'
    BY <1>1, <1>2, MainActs
  <1>7. server' # "stopped" /\ window' = "log" => AtLog'
    BY <1>1, <1>2, MainActs, LogActs
  <1> QED BY <1>2, <1>3, <1>4, <1>5, <1>6, <1>7 DEF DownloadInv

\* Every step of the thread keeps it.
LEMMA DownloadServer ==
    ASSUME DownloadInv, ServerStep, TypesInv', faults \subseteq faults'
    PROVE  DownloadInv'
  <1>1. /\ TypesInv /\ WireKinds /\ Screens
        /\ server # "stopped"
        /\ window = "main" => AtMain
        /\ window = "log" => AtLog
    BY ServerAt DEF DownloadInv, TypesInv
  <1>2. UNCHANGED <<window, client, expected, copy, finished>> BY ServerAt DEF windows
  <1>3. Gone' <=> Gone BY <1>2 DEF Gone
  <1>4. Screens' /\ LogComplete' /\ (client' \in {"header", "blocks"} => ~finished')
    BY <1>2 DEF DownloadInv, Screens, LogComplete
  <1>5. CASE Gone
    BY <1>2, <1>3, <1>4, <1>5 DEF DownloadInv, StopsOutside, AtMain, AtLog, Gone
  <1>6. CASE window = "security"
    BY <1>2, <1>4, <1>6 DEF DownloadInv, StopsOutside
  <1>7. CASE window = "main" /\ ~Gone
    <2>1. AtMain' /\ server' # "stopped" BY <1>1, <1>7, MainServed
    <2> QED BY <1>2, <1>4, <1>7, <2>1 DEF DownloadInv, StopsOutside
  <1>8. CASE window = "log" /\ ~Gone
    <2>1. client \in {"idle", "header", "blocks"}
      BY <1>1, <1>8 DEF WireKinds, Screens, Gone
    <2>2. CASE client = "idle"
      <3>1. BetweenDownloads' /\ server' # "stopped"
        BY <1>1, <1>8, <2>2, BetweenServed DEF AtLog
      <3> QED BY <1>2, <1>4, <1>8, <2>2, <3>1 DEF DownloadInv, StopsOutside, AtLog
    <2>3. CASE client = "header"
      <3>1. /\ server' # "stopped" => HeaderDue'
            /\ server' = "stopped" => down' = <<>>
        BY <1>1, <1>8, <2>3, HeaderDueServed DEF AtLog
      <3> QED BY <1>2, <1>4, <1>8, <2>3, <3>1 DEF DownloadInv, StopsOutside, AtLog
    <2>4. CASE client = "blocks"
      <3>1. BlocksDue' /\ server' # "stopped"
        BY <1>1, <1>8, <2>4, BlocksDueServed DEF AtLog
      <3> QED BY <1>2, <1>4, <1>8, <2>4, <3>1 DEF DownloadInv, StopsOutside, AtLog
    <2> QED BY <2>1, <2>2, <2>3, <2>4
  <1>9. window \in {"main", "security", "log"} BY <1>1 DEF TypesInv, WireTypes
  <1> QED BY <1>5, <1>6, <1>7, <1>8, <1>9

\* It holds at first, and every step keeps it.
LEMMA DownloadInit ==
    ASSUME Init
    PROVE  DownloadInv
  <1>1. TypesInv BY TypesInit
  <1>2. AtIdle BY DEF Init, AtIdle, Quiet
  <1> QED BY <1>1, <1>2
      DEF Init, DownloadInv, Screens, StopsOutside, LogComplete, AtMain

LEMMA DownloadStep ==
    ASSUME DownloadInv, [Next]_vars
    PROVE  DownloadInv'
  <1>1. TypesInv' /\ faults \subseteq faults' BY TypesStep, FaultsKept DEF DownloadInv
  <1>2. CASE StoppedElsewhere
    <2>1. server' = "stopped" /\ "stopped" \in faults' /\ UNCHANGED windows
      BY <1>2 DEF StoppedElsewhere, ServerStops
    <2> QED BY <1>1, <2>1 DEF DownloadInv, StopsOutside, Screens, LogComplete, windows
  <1>3. CASE UNCHANGED vars
    <2>1. DownloadInv' <=> DownloadInv
      BY <1>1, <1>3
      DEF vars, windows, threads, DownloadInv, Screens, StopsOutside, LogComplete, Gone,
          AtMain, AtLog, BetweenDownloads, HeaderDue, BlocksDue, OnlyLog, AtIdle, AtChallenge,
          AtResult, AtBlocks, Quiet, Asked, Answered
    <2> QED BY <2>1
  <1> QED BY <1>1, <1>2, <1>3, DownloadClient, DownloadServer DEF Next, Ended

\* The invariant of a download holds: whatever recv returns and whatever fails,
\* at the first window the two ends are in step, and at the log window the client
\* is between two downloads, waits for a header that GetLog has sent or is to
\* send, or for the blocks of the download it has started.
THEOREM DownloadInvariance == Spec => []DownloadInv
  <1>1. Init => DownloadInv BY DownloadInit
  <1>2. DownloadInv /\ [Next]_vars => DownloadInv' BY DownloadStep
  <1> QED BY <1>1, <1>2, PTL DEF Spec

\* Every variable keeps its type and its bounds: no thread sends more blocks than
\* its log has, no window shows more rows than there are.
THEOREM WireTypesHold == Spec => []WireTypes
  <1>1. DownloadInv => WireTypes BY DEF DownloadInv, TypesInv
  <1> QED BY <1>1, DownloadInvariance, PTL

\* GetLog and GetLogFile lose nothing, invent nothing and keep the order: while
\* blocks are received, what the client has written, what is in the stream and
\* what the server has still to send are the log, in any pieces it may arrive.
THEOREM NothingIsLost == Spec => []NothingLost
  <1>1. DownloadInv => NothingLost
    <2> SUFFICES ASSUME DownloadInv, client = "blocks", server # "stopped"
                 PROVE  copy \o Written(down \o LogFrom(sent, length)) = Written(LogFile(length))
      BY DEF NothingLost
    <2>1. BlocksDue BY DEF DownloadInv, Screens, AtLog
    <2>2. CASE sent = 0 /\ copy = <<>> /\ down = <<>>
      <3>1. length \in Nat BY DEF DownloadInv, TypesInv, WireKinds
      <3>2. LogFrom(0, length) = LogFile(length) BY <3>1, LogEnds
      <3>3. LogFile(length) \in Seq(Unit) BY <3>1, LogBytes, LogGoesDown, WiderSeq
      <3>4. <<>> \o LogFile(length) = LogFile(length) BY <3>3, AfterNothing
      <3>5. Written(LogFile(length)) \in Seq(Unit) BY <3>3, WrittenJoins
      <3>6. <<>> \o Written(LogFile(length)) = Written(LogFile(length))
        BY <3>5, AfterNothing
      <3> QED BY <2>2, <3>2, <3>4, <3>6, Zenon
    <2> QED BY <2>1, <2>2 DEF BlocksDue
  <1> QED BY <1>1, DownloadInvariance, PTL

\* A client that reports a complete download has the whole log in its file, if
\* every block arrived in one piece and nobody else ended the server: GetLogFile
\* counts reads and looks at no length.
THEOREM DownloadComplete == Spec => []LogComplete
  <1>1. DownloadInv => LogComplete BY DEF DownloadInv
  <1> QED BY <1>1, DownloadInvariance, PTL
=============================================================================
