-------------------------- MODULE StreamTextProofs --------------------------
(***************************************************************************)
(* No text of a streamed answer is lost or doubled on its way to the page, *)
(* and the answer ends split as its tags say, for any words, any chunks of *)
(* any length and any number of them.                                      *)
(*                                                                         *)
(* First texts, then what parseThinkTags makes of one: the scan of the     *)
(* code against the reference, which looks at every token by itself.  Both *)
(* are recursive functions; facts about them come from the least or the    *)
(* greatest position at which they fail.  Then the steps: the raw text     *)
(* (Streams), and on top of it the tags (Split).                           *)
(***************************************************************************)
EXTENDS StreamText, SequenceTheorems, WellFoundedInduction, TLAPS

-----------------------------------------------------------------------------
(* Texts. *)

\* What follows a prefix completes it.
LEMMA PrefixSplit ==
  ASSUME NEW s \in Text, NEW p \in Text, StartsWith(s, p)
  PROVE  /\ SubSeq(s, Len(p) + 1, Len(s)) \in Text
         /\ p \o SubSeq(s, Len(p) + 1, Len(s)) = s
<1>. DEFINE rest == SubSeq(s, Len(p) + 1, Len(s))
<1>1. Len(p) \in Nat /\ Len(s) \in Nat /\ Len(p) <= Len(s) /\ SubSeq(s, 1, Len(p)) = p
  BY DEF StartsWith, Text
<1>2. rest \in Text /\ Len(rest) = Len(s) - Len(p)
  BY <1>1 DEF Text
<1>3. \A i \in 1 .. Len(rest) : rest[i] = s[Len(p) + i]
  BY <1>1 DEF Text
<1>4. \A i \in 1 .. Len(p) : p[i] = s[i]
  <2>1. \A i \in 1 .. Len(p) : SubSeq(s, 1, Len(p))[i] = s[i]
    BY <1>1 DEF Text
  <2>. QED BY <1>1, <2>1
<1>5. p \o rest \in Text /\ Len(p \o rest) = Len(s)
  BY <1>1, <1>2 DEF Text
<1>6. ASSUME NEW i \in 1 .. Len(s) PROVE (p \o rest)[i] = s[i]
  <2>1. CASE i <= Len(p)
    BY <1>1, <1>2, <1>4, <2>1 DEF Text
  <2>2. CASE i > Len(p)
    <3>1. (p \o rest)[i] = rest[i - Len(p)]
      BY <1>1, <1>2, <2>2 DEF Text
    <3>2. i - Len(p) \in 1 .. Len(rest)
      BY <1>1, <1>2, <2>2
    <3>. QED BY <1>1, <1>3, <3>1, <3>2
  <2>. QED BY <1>1, <2>1, <2>2
<1>. QED BY <1>2, <1>5, <1>6, SeqEqual DEF Text

\* A prefix of a prefix.
LEMMA PrefixTransitive ==
  ASSUME NEW s \in Text, NEW p \in Text, NEW q \in Text, StartsWith(s, p), StartsWith(p, q)
  PROVE  StartsWith(s, q)
<1>1. Len(q) <= Len(p) /\ Len(p) <= Len(s)
  BY DEF StartsWith
<1>2. \A i \in 1 .. Len(q) : q[i] = s[i]
  <2>1. \A i \in 1 .. Len(p) : SubSeq(s, 1, Len(p))[i] = s[i]
    BY <1>1 DEF Text
  <2>2. \A i \in 1 .. Len(q) : SubSeq(p, 1, Len(q))[i] = p[i]
    BY <1>1 DEF Text
  <2>3. SubSeq(s, 1, Len(p)) = p /\ SubSeq(p, 1, Len(q)) = q
    BY DEF StartsWith
  <2>. QED BY <1>1, <2>1, <2>2, <2>3 DEF Text
<1>3. SubSeq(s, 1, Len(q)) \in Text /\ Len(SubSeq(s, 1, Len(q))) = Len(q)
  BY <1>1 DEF Text
<1>4. \A i \in 1 .. Len(q) : SubSeq(s, 1, Len(q))[i] = q[i]
  BY <1>1, <1>2 DEF Text
<1>5. SubSeq(s, 1, Len(q)) = q
  BY <1>3, <1>4, SeqEqual DEF Text
<1>6. Len(q) <= Len(s)
  BY <1>1 DEF Text
<1>. QED BY <1>5, <1>6 DEF StartsWith

\* Every text begins with itself and with the empty text.
LEMMA PrefixTrivial ==
  ASSUME NEW s \in Text
  PROVE  StartsWith(s, s) /\ StartsWith(s, << >>) /\ (StartsWith(<< >>, s) => s = << >>)
         /\ s \o << >> = s /\ << >> \o s = s /\ << >> \in Text
BY DEF StartsWith, Text

\* Appending twice is appending once what was joined.
LEMMA Associative ==
  ASSUME NEW s \in Text, NEW t \in Text, NEW u \in Text
  PROVE  (s \o t) \o u = s \o (t \o u)
BY ConcatAssociative DEF Text

\* The first part of a concatenation keeps its tags.
LEMMA TagKept ==
  ASSUME NEW s \in Text, NEW t \in Text, HasOpenTag(s)
  PROVE  HasOpenTag(s \o t)
<1>1. PICK i \in 1 .. Len(s) : IsTag(s, OpenHead, i)
  BY DEF HasOpenTag
<1>2. /\ i \in 1 .. Len(s \o t) /\ i + 1 <= Len(s \o t)
      /\ (s \o t)[i] = s[i] /\ (s \o t)[i + 1] = s[i + 1]
  BY <1>1 DEF Text, IsTag
<1>3. IsTag(s \o t, OpenHead, i)
  BY <1>1, <1>2 DEF IsTag
<1>. QED BY <1>2, <1>3 DEF HasOpenTag

\* A chunk is a text, and not an empty one.
LEMMA ChunkIsText ==
  ASSUME NEW type \in Types, NEW chunk \in Chunks[type]
  PROVE  chunk \in Text /\ chunk # << >>
<1>1. chunk \in Seq(Words \cup Halves) /\ chunk # << >>
  BY ChunkAssumption
<1>2. \A i \in 1 .. Len(chunk) : chunk[i] \in Tokens
  BY <1>1 DEF Tokens
<1>3. chunk = [i \in 1 .. Len(chunk) |-> chunk[i]] /\ Len(chunk) \in Nat
  BY <1>1
<1>4. chunk \in [1 .. Len(chunk) -> Tokens]
  BY <1>2, <1>3
<1>5. chunk \in Seq(Tokens)
  BY <1>3, <1>4, SeqDef
<1>. QED BY <1>1, <1>5 DEF Text

\* What is added to a text completes a snapshot of it, and is a delta as it stands.
LEMMA Appendable ==
  ASSUME NEW s \in Text, NEW c \in Text
  PROVE  /\ getAppendableChunk(s, c) \in Text
         /\ s \o getAppendableChunk(s, c) \in Text
         /\ StartsWith(c, s) => s \o getAppendableChunk(s, c) = c
         /\ ~TakenAsSnapshot(s, c) => getAppendableChunk(s, c) = c
<1>. DEFINE rest == SubSeq(c, Len(s) + 1, Len(c))
<1>1. CASE TakenAsSnapshot(s, c)
  <2>1. StartsWith(c, s) /\ getAppendableChunk(s, c) = rest
    BY <1>1 DEF TakenAsSnapshot, getAppendableChunk
  <2>2. rest \in Text /\ s \o rest = c
    BY <2>1, PrefixSplit
  <2>. HIDE DEF rest
  <2>. QED BY <1>1, <2>1, <2>2
<1>2. CASE ~TakenAsSnapshot(s, c)
  <2>1. getAppendableChunk(s, c) = c
    BY <1>2 DEF getAppendableChunk
  <2>2. s \o c \in Text
    BY DEF Text
  <2>3. StartsWith(c, s) => s = << >>
    BY <1>2 DEF TakenAsSnapshot
  <2>4. StartsWith(c, s) => s \o c = c
    BY <2>3, PrefixTrivial
  <2>. QED BY <1>2, <2>1, <2>2, <2>4
<1>. QED BY <1>1, <1>2

\* Chunks that wait are merged into a text.
LEMMA Merged ==
  ASSUME NEW s \in Text, NEW c \in Text
  PROVE  /\ mergePendingStreamChunk(s, c) \in Text
         /\ StartsWith(c, s) => mergePendingStreamChunk(s, c) = c
         /\ ~TakenAsSnapshot(s, c) => mergePendingStreamChunk(s, c) = s \o c
<1>1. CASE TakenAsSnapshot(s, c)
  BY <1>1 DEF mergePendingStreamChunk
<1>2. CASE ~TakenAsSnapshot(s, c)
  <2>1. mergePendingStreamChunk(s, c) = s \o c
    BY <1>2 DEF mergePendingStreamChunk
  <2>2. s \o c \in Text
    BY DEF Text
  <2>3. StartsWith(c, s) => s = << >>
    BY <1>2 DEF TakenAsSnapshot
  <2>4. StartsWith(c, s) => s \o c = c
    BY <2>3, PrefixTrivial
  <2>. QED BY <1>2, <2>1, <2>2, <2>4
<1>. QED BY <1>1, <1>2

-----------------------------------------------------------------------------
(* Least and greatest numbers, which stand in for induction. *)

\* Every set of numbers has a least one.
LEMMA LeastNat ==
  ASSUME NEW T, T \subseteq Nat, T # {}
  PROVE  \E x \in T : \A y \in T : x <= y
<1>1. IsWellFoundedOn(OpToRel(<, Nat), Nat)
  BY NatLessThanWellFounded
<1>2. PICK x \in T : \A y \in T : ~ (<<y, x>> \in OpToRel(<, Nat))
  BY <1>1, WFMin
<1>3. ASSUME NEW y \in T PROVE x <= y
  <2>1. ~ (<<y, x>> \in OpToRel(<, Nat))
    BY <1>2
  <2>2. x \in Nat /\ y \in Nat
    OBVIOUS
  <2>3. ~(y < x)
    BY <2>1, <2>2 DEF OpToRel
  <2>. QED BY <2>2, <2>3
<1>. QED BY <1>3

\* A set of numbers up to n has a greatest one.
LEMMA GreatestNat ==
  ASSUME NEW n \in Nat, NEW T, T \subseteq 0 .. n, T # {}
  PROVE  \E x \in T : \A y \in T : y <= x
<1>. DEFINE U == {n - x : x \in T}
<1>1. U \subseteq Nat /\ U # {}
  <2>1. \A x \in T : x \in 0 .. n /\ n - x \in Nat
    OBVIOUS
  <2>. QED BY <2>1
<1>2. PICK u \in U : \A v \in U : u <= v
  BY <1>1, LeastNat
<1>3. PICK x \in T : u = n - x
  OBVIOUS
<1>4. ASSUME NEW y \in T PROVE y <= x
  <2>1. n - y \in U
    OBVIOUS
  <2>. QED BY <1>2, <1>3, <2>1
<1>. QED BY <1>4

-----------------------------------------------------------------------------
(* Picked: the tokens at some positions of a text. *)

\* f takes the positions of keep up to N one by one.
PickFunction(s, keep, N, f) ==
  f = [n \in 0 .. N |-> IF n = 0 THEN << >>
                        ELSE IF n \in keep THEN Append(f[n - 1], s[n]) ELSE f[n - 1]]

\* There is such a function.
LEMMA PickExists ==
  ASSUME NEW s, NEW keep, NEW N \in Nat
  PROVE  \E f : PickFunction(s, keep, N, f)
<1>. DEFINE T == {k \in Nat : ~ \E f : PickFunction(s, keep, k, f)}
<1>1. SUFFICES ASSUME T # {} PROVE FALSE
  OBVIOUS
<1>2. PICK x \in T : \A y \in T : x <= y
  BY <1>1, LeastNat
<1>3. \E f : PickFunction(s, keep, 0, f)
  <2>. DEFINE g == [n \in 0 .. 0 |-> << >>]
  <2>1. PickFunction(s, keep, 0, g)
    BY DEF PickFunction
  <2>. QED BY <2>1
<1>4. x # 0 /\ x - 1 \in Nat /\ x - 1 \notin T
  BY <1>2, <1>3
<1>5. PICK g : PickFunction(s, keep, x - 1, g)
  BY <1>4
<1>. DEFINE last == IF x \in keep THEN Append(g[x - 1], s[x]) ELSE g[x - 1]
            h == [n \in 0 .. x |-> IF n = x THEN last ELSE g[n]]
<1>6. \A n \in 0 .. x - 1 : h[n] = g[n]
  BY <1>4
<1>7. \A n \in 0 .. x - 1 : g[n] = IF n = 0 THEN << >>
                 ELSE IF n \in keep THEN Append(g[n - 1], s[n]) ELSE g[n - 1]
  BY <1>5 DEF PickFunction
<1>8. \A n \in 0 .. x : h[n] = IF n = 0 THEN << >>
                 ELSE IF n \in keep THEN Append(h[n - 1], s[n]) ELSE h[n - 1]
  <2>1. h[x] = last /\ h[x - 1] = g[x - 1]
    BY <1>4
  <2>. HIDE DEF h
  <2>2. ASSUME NEW n \in 0 .. x, n # x, n # 0 PROVE h[n] = g[n] /\ h[n - 1] = g[n - 1]
    BY <1>4, <1>6, <2>2
  <2>3. h[0] = << >>
    BY <1>4, <1>6, <1>7
  <2>. QED BY <1>4, <1>7, <2>1, <2>2, <2>3
<1>9. PickFunction(s, keep, x, h)
  <2>. DEFINE k == [n \in 0 .. x |-> IF n = 0 THEN << >>
                        ELSE IF n \in keep THEN Append(h[n - 1], s[n]) ELSE h[n - 1]]
  <2>1. h = [n \in 0 .. x |-> h[n]]
    OBVIOUS
  <2>. HIDE DEF h
  <2>2. h = k
    BY <1>8, <2>1
  <2>. QED BY <2>2 DEF PickFunction
<1>. QED BY <1>9

\* The tokens of keep among the first n.
UpTo(s, keep) == CHOOSE f : PickFunction(s, keep, Len(s), f)

\* They come one by one, each at most once.
LEMMA PickSteps ==
  ASSUME NEW s \in Text, NEW keep
  PROVE  /\ Picked(s, keep) = UpTo(s, keep)[Len(s)]
         /\ UpTo(s, keep)[0] = << >>
         /\ \A n \in 1 .. Len(s) : UpTo(s, keep)[n] =
              IF n \in keep THEN Append(UpTo(s, keep)[n - 1], s[n]) ELSE UpTo(s, keep)[n - 1]
         /\ \A n \in 0 .. Len(s) : UpTo(s, keep)[n] \in Text
<1>. DEFINE f == UpTo(s, keep)
<1>0. Len(s) \in Nat /\ \A n \in 1 .. Len(s) : s[n] \in Tokens
  BY DEF Text
<1>1. PickFunction(s, keep, Len(s), f)
  BY <1>0, PickExists DEF UpTo
<1>2. Picked(s, keep) = f[Len(s)]
  BY DEF Picked, UpTo, PickFunction
<1>3. \A n \in 0 .. Len(s) : f[n] = IF n = 0 THEN << >>
                        ELSE IF n \in keep THEN Append(f[n - 1], s[n]) ELSE f[n - 1]
  BY <1>1 DEF PickFunction
<1>. HIDE DEF f
<1>4. f[0] = << >>
  BY <1>0, <1>3
<1>5. ASSUME NEW n \in 1 .. Len(s)
      PROVE  f[n] = IF n \in keep THEN Append(f[n - 1], s[n]) ELSE f[n - 1]
  BY <1>0, <1>3
<1>6. \A n \in 0 .. Len(s) : f[n] \in Text
  <2>. DEFINE T == {n \in 0 .. Len(s) : f[n] \notin Text}
  <2>1. SUFFICES ASSUME T # {} PROVE FALSE
    OBVIOUS
  <2>2. PICK x \in T : \A y \in T : x <= y
    <3>1. T \subseteq Nat
      OBVIOUS
    <3>. QED BY <2>1, <3>1, LeastNat
  <2>3. x \in 0 .. Len(s) /\ x # 0
    <3>1. x \in 0 .. Len(s) /\ f[x] \notin Text
      BY <2>2
    <3>2. << >> \in Text
      BY DEF Text
    <3>. QED BY <1>4, <3>1, <3>2
  <2>4. x \in 1 .. Len(s) /\ x - 1 \in 0 .. Len(s) /\ x - 1 \notin T
    <3>. HIDE DEF T
    <3>. QED BY <1>0, <2>2, <2>3
  <2>5. f[x - 1] \in Text /\ s[x] \in Tokens
    BY <1>0, <2>4
  <2>6. f[x] \in Text
    <3>1. Append(f[x - 1], s[x]) \in Text
      BY <2>5 DEF Text
    <3>2. f[x] = IF x \in keep THEN Append(f[x - 1], s[x]) ELSE f[x - 1]
      BY <1>5, <2>4
    <3>. QED BY <2>5, <3>1, <3>2
  <2>. QED BY <2>2, <2>6
<1>. QED BY <1>2, <1>4, <1>5, <1>6 DEF f

\* Positions that are not kept add nothing.
LEMMA PickNone ==
  ASSUME NEW s \in Text, NEW keep, NEW a \in 0 .. Len(s), NEW b \in a .. Len(s),
         \A i \in a + 1 .. b : i \notin keep
  PROVE  UpTo(s, keep)[b] = UpTo(s, keep)[a]
<1>. DEFINE f == UpTo(s, keep)
            T == {n \in a .. b : f[n] # f[a]}
<1>0. Len(s) \in Nat
  BY DEF Text
<1>1. SUFFICES ASSUME T # {} PROVE FALSE
  BY <1>0
<1>2. PICK x \in T : \A y \in T : x <= y
  <2>1. T \subseteq Nat
    BY <1>0
  <2>. QED BY <1>1, <2>1, LeastNat
<1>3. x \in a + 1 .. b /\ x - 1 \in a .. b /\ x - 1 \notin T /\ x \in 1 .. Len(s)
  BY <1>0, <1>2
<1>4. f[x] = f[x - 1]
  BY <1>3, PickSteps
<1>. QED BY <1>2, <1>3, <1>4

\* Positions that are all kept add what they hold.
LEMMA PickAll ==
  ASSUME NEW s \in Text, NEW keep, NEW a \in 0 .. Len(s), NEW b \in a .. Len(s),
         \A i \in a + 1 .. b : i \in keep
  PROVE  UpTo(s, keep)[b] = UpTo(s, keep)[a] \o SubSeq(s, a + 1, b)
<1>. DEFINE f == UpTo(s, keep)
            g(n) == f[a] \o SubSeq(s, a + 1, n)
            T == {n \in a .. b : f[n] # g(n)}
<1>0. Len(s) \in Nat /\ a \in 0 .. Len(s) /\ b \in a .. Len(s) /\ f[a] \in Text
      /\ \A n \in 1 .. Len(s) : s[n] \in Tokens
  BY PickSteps DEF Text
<1>. HIDE DEF g
<1>1. SUFFICES ASSUME T # {} PROVE FALSE
  <2>1. b \in a .. b
    BY <1>0
  <2>2. f[b] # g(b) => b \in T
    BY <2>1
  <2>. QED BY <2>2 DEF g
<1>2. PICK x \in T : \A y \in T : x <= y
  <2>1. T \subseteq Nat
    BY <1>0
  <2>. QED BY <1>1, <2>1, LeastNat
<1>3. f[a] = g(a)
  <2>1. SubSeq(s, a + 1, a) = << >>
    BY <1>0 DEF Text
  <2>. HIDE DEF f
  <2>. QED BY <1>0, <2>1 DEF Text, g
<1>4. x \in a + 1 .. b /\ x - 1 \in a .. b /\ x - 1 \notin T /\ x \in 1 .. Len(s)
  <2>1. x \in a .. b /\ x # a
    BY <1>3
  <2>. HIDE DEF T
  <2>. QED BY <1>0, <1>2, <2>1
<1>5. f[x] = Append(f[x - 1], s[x])
  BY <1>4, PickSteps
<1>6. f[x - 1] = f[a] \o SubSeq(s, a + 1, x - 1)
  BY <1>4 DEF g
<1>. HIDE DEF f
<1>7. Append(f[a] \o SubSeq(s, a + 1, x - 1), s[x]) = f[a] \o SubSeq(s, a + 1, x)
  <2>. DEFINE u == SubSeq(s, a + 1, x - 1)
              v == SubSeq(s, a + 1, x)
  <2>1. u \in Text /\ v \in Text /\ Len(u) = x - 1 - a /\ Len(v) = x - a
    BY <1>0, <1>4 DEF Text
  <2>2. v = Append(u, s[x])
    <3>1. \A i \in 1 .. Len(v) : v[i] = s[a + i]
      BY <1>0, <1>4, <2>1 DEF Text
    <3>2. \A i \in 1 .. Len(u) : u[i] = s[a + i]
      BY <1>0, <1>4, <2>1 DEF Text
    <3>. HIDE DEF u, v
    <3>3. Append(u, s[x]) \in Text /\ Len(Append(u, s[x])) = Len(v)
      BY <1>0, <1>4, <2>1 DEF Text
    <3>4. \A i \in 1 .. Len(v) : Append(u, s[x])[i] = v[i]
      BY <1>0, <1>4, <2>1, <3>1, <3>2 DEF Text
    <3>. QED BY <2>1, <3>3, <3>4, SeqEqual DEF Text
  <2>. HIDE DEF u, v
  <2>3. Append(f[a] \o u, s[x]) = f[a] \o Append(u, s[x])
    <3>1. s[x] \in Tokens /\ f[a] \in Seq(Tokens) /\ u \in Seq(Tokens)
      BY <1>0, <1>4, <2>1 DEF Text
    <3>. HIDE DEF T
    <3>2. ASSUME NEW p \in Seq(Tokens), NEW q \in Seq(Tokens), NEW e \in Tokens
          PROVE  Append(p \o q, e) = p \o Append(q, e)
      <4>1. /\ Append(p \o q, e) \in Seq(Tokens) /\ p \o Append(q, e) \in Seq(Tokens)
            /\ Len(Append(p \o q, e)) = Len(p \o Append(q, e))
        BY <3>2
      <4>2. \A i \in 1 .. Len(p \o Append(q, e)) : Append(p \o q, e)[i] = (p \o Append(q, e))[i]
        BY <3>2
      <4>. QED BY <4>1, <4>2, SeqEqual
    <3>. QED BY <3>1, <3>2
  <2>. QED BY <2>2, <2>3 DEF u, v
<1>8. f[x] = g(x)
  BY <1>5, <1>6, <1>7 DEF g
<1>. QED BY <1>2, <1>8

\* Nothing is picked exactly when no position is kept.
LEMMA PickedEmpty ==
  ASSUME NEW s \in Text, NEW keep, keep \subseteq 1 .. Len(s)
  PROVE  Picked(s, keep) = << >> <=> keep = {}
<1>. DEFINE f == UpTo(s, keep)
<1>0. /\ Len(s) \in Nat /\ Picked(s, keep) = f[Len(s)] /\ f[0] = << >>
      /\ \A n \in 1 .. Len(s) : f[n] = IF n \in keep THEN Append(f[n - 1], s[n]) ELSE f[n - 1]
      /\ \A n \in 0 .. Len(s) : f[n] \in Text
  <2>1. Len(s) \in Nat
    BY DEF Text
  <2>. QED BY <2>1, PickSteps
<1>1. ASSUME keep = {} PROVE Picked(s, keep) = << >>
  <2>1. f[Len(s)] = f[0]
    BY <1>0, <1>1, PickNone
  <2>. QED BY <1>0, <2>1
<1>2. ASSUME NEW i \in keep PROVE Picked(s, keep) # << >>
  <2>. DEFINE T == {n \in i .. Len(s) : f[n] = << >>}
  <2>1. SUFFICES ASSUME T # {} PROVE FALSE
    BY <1>0
  <2>2. PICK x \in T : \A y \in T : x <= y
    <3>1. T \subseteq Nat
      BY <1>0
    <3>. QED BY <2>1, <3>1, LeastNat
  <2>. HIDE DEF f
  <2>3. x \in 1 .. Len(s) /\ x - 1 \in 0 .. Len(s) /\ f[x] = << >> /\ f[x - 1] \in Text
    <3>1. x \in i .. Len(s) /\ i \in 1 .. Len(s) /\ f[x] = << >>
      BY <2>2
    <3>2. x \in 1 .. Len(s) /\ x - 1 \in 0 .. Len(s)
      BY <1>0, <3>1
    <3>. QED BY <1>0, <3>1, <3>2
  <2>4. x \notin keep
    <3>1. x \in keep => f[x] = Append(f[x - 1], s[x])
      BY <1>0, <2>3
    <3>2. Append(f[x - 1], s[x]) # << >>
      BY <2>3 DEF Text
    <3>. QED BY <2>3, <3>1, <3>2
  <2>5. f[x - 1] = << >> /\ x - 1 \in i .. Len(s)
    <3>1. f[x - 1] = << >>
      BY <1>0, <2>3, <2>4
    <3>2. x \in i .. Len(s) /\ i \in 1 .. Len(s) /\ x # i
      BY <2>2, <2>4
    <3>. QED BY <1>0, <3>1, <3>2
  <2>. QED BY <2>2, <2>5
<1>. QED BY <1>1, <1>2

-----------------------------------------------------------------------------
(* parseThinkTags: the scan splits a text as the reference says. *)

\* The first tag from a position on.
LEMMA FirstTag ==
  ASSUME NEW s \in Text, NEW head, NEW from \in Nat \ {0}, NEW i, i = IndexOf(s, head, from)
  PROVE  \/ i = Len(s) + 1 /\ \A j \in from .. Len(s) : ~IsTag(s, head, j)
         \/ i \in from .. Len(s) /\ IsTag(s, head, i) /\ \A j \in from .. i - 1 : ~IsTag(s, head, j)
<1>. DEFINE at == {j \in from .. Len(s) : IsTag(s, head, j)}
<1>0. Len(s) \in Nat
  BY DEF Text
<1>1. CASE at = {}
  BY <1>1 DEF IndexOf
<1>2. CASE at # {}
  <2>1. i = CHOOSE j \in at : \A k \in at : j <= k
    BY <1>2 DEF IndexOf
  <2>2. at \subseteq Nat
    BY <1>0
  <2>3. \E j \in at : \A k \in at : j <= k
    BY <1>2, <2>2, LeastNat
  <2>4. i \in at /\ \A k \in at : i <= k
    BY <2>1, <2>3
  <2>5. ASSUME NEW j \in from .. i - 1 PROVE ~IsTag(s, head, j)
    <3>1. i \in from .. Len(s)
      BY <2>4
    <3>2. j \in from .. Len(s) /\ ~(i <= j)
      BY <1>0, <3>1
    <3>. QED BY <2>4, <3>2
  <2>. QED BY <2>4, <2>5
<1>. QED BY <1>1, <1>2

\* One round of the loop, with f for what the later rounds add.
ParseStep(s, f, p) ==
  LET openPos == IndexOf(s, OpenHead, p)
      closePos == IndexOf(s, CloseHead, openPos + 2)
  IN  IF openPos >= Len(s) + 1
      THEN [visible |-> SubSeq(s, p, Len(s)), reasoning |-> << >>, unclosed |-> FALSE]
      ELSE IF closePos >= Len(s) + 1
      THEN [visible |-> SubSeq(s, p, openPos - 1),
            reasoning |-> SubSeq(s, openPos + 2, Len(s)), unclosed |-> TRUE]
      ELSE [visible |-> SubSeq(s, p, openPos - 1) \o f[closePos + 2].visible,
            reasoning |-> SubSeq(s, openPos + 2, closePos - 1) \o f[closePos + 2].reasoning,
            unclosed |-> f[closePos + 2].unclosed]

ParseFunction(s, q, f) == f = [p \in q .. Len(s) + 1 + 1 |-> ParseStep(s, f, p)]

\* The three outcomes r of a round: no <think>, no </think>, a whole block.
Outcome(s, f, p, o, c, r) ==
  /\ o >= Len(s) + 1 => r.visible = SubSeq(s, p, Len(s)) /\ r.reasoning = << >>
  /\ ~(o >= Len(s) + 1) /\ c >= Len(s) + 1 =>
       r.visible = SubSeq(s, p, o - 1) /\ r.reasoning = SubSeq(s, o + 2, Len(s))
  /\ ~(o >= Len(s) + 1) /\ ~(c >= Len(s) + 1) =>
       /\ r.visible = SubSeq(s, p, o - 1) \o f[c + 2].visible
       /\ r.reasoning = SubSeq(s, o + 2, c - 1) \o f[c + 2].reasoning

\* A round has one of them, by the first <think> and the first </think> behind it.
LEMMA ParseRound ==
  ASSUME NEW s, NEW f, NEW p, NEW o, o = IndexOf(s, OpenHead, p), NEW c, c = IndexOf(s, CloseHead, o + 2)
  PROVE  Outcome(s, f, p, o, c, ParseStep(s, f, p))
<1>. USE DEF Outcome
<1>1. CASE o >= Len(s) + 1
  BY <1>1 DEF ParseStep
<1>2. CASE ~(o >= Len(s) + 1) /\ c >= Len(s) + 1
  BY <1>2 DEF ParseStep
<1>3. CASE ~(o >= Len(s) + 1) /\ ~(c >= Len(s) + 1)
  <2>. DEFINE v == SubSeq(s, p, o - 1) \o f[c + 2].visible
              w == SubSeq(s, o + 2, c - 1) \o f[c + 2].reasoning
              u == f[c + 2].unclosed
  <2>1. ParseStep(s, f, p) = [visible |-> v, reasoning |-> w, unclosed |-> u]
    BY <1>3 DEF ParseStep
  <2>. HIDE DEF v, w, u
  <2>2. ParseStep(s, f, p).visible = v /\ ParseStep(s, f, p).reasoning = w
    BY <2>1
  <2>. QED BY <1>3, <2>2 DEF v, w
<1>. QED BY <1>1, <1>2, <1>3

\* A round looks only at what comes after it.
LEMMA ParseLooksAhead ==
  ASSUME NEW s \in Text, NEW p \in 1 .. Len(s) + 1 + 1, NEW f, NEW g,
         \A n \in p + 1 .. Len(s) + 1 + 1 : f[n] = g[n]
  PROVE  ParseStep(s, f, p) = ParseStep(s, g, p)
<1>. DEFINE o == IndexOf(s, OpenHead, p)
            c == IndexOf(s, CloseHead, o + 2)
<1>0. Len(s) \in Nat /\ p \in Nat \ {0}
  BY DEF Text
<1>1. \/ o = Len(s) + 1
      \/ o \in p .. Len(s)
  BY <1>0, FirstTag
<1>2. CASE o >= Len(s) + 1
  BY <1>2 DEF ParseStep
<1>3. CASE ~(o >= Len(s) + 1)
  <2>1. o \in p .. Len(s) /\ o + 2 \in Nat \ {0}
    BY <1>0, <1>1, <1>3
  <2>2. c = Len(s) + 1 \/ (c \in o + 2 .. Len(s) /\ IsTag(s, CloseHead, c))
    BY <2>1, FirstTag
  <2>3. CASE c >= Len(s) + 1
    BY <1>3, <2>3 DEF ParseStep
  <2>4. CASE ~(c >= Len(s) + 1)
    <3>1. c + 2 \in p + 1 .. Len(s) + 1 + 1
      BY <1>0, <2>1, <2>2, <2>4 DEF IsTag
    <3>2. f[c + 2] = g[c + 2]
      BY <3>1
    <3>. QED BY <1>3, <2>4, <3>2 DEF ParseStep
  <2>. QED BY <2>3, <2>4
<1>. QED BY <1>2, <1>3

\* There is a function that adds up the rounds.
LEMMA ParseExists ==
  ASSUME NEW s \in Text
  PROVE  \E f : ParseFunction(s, 1, f)
<1>. DEFINE N == Len(s) + 1 + 1
            T == {q \in 1 .. N : ~ \E f : ParseFunction(s, q, f)}
<1>0. Len(s) \in Nat /\ N \in Nat /\ 1 \in 1 .. N
  BY DEF Text
<1>1. SUFFICES ASSUME T # {} PROVE FALSE
  BY <1>0
<1>2. PICK x \in T : \A y \in T : y <= x
  <2>1. T \subseteq 0 .. N
    BY <1>0
  <2>. HIDE DEF T
  <2>. QED BY <1>0, <1>1, <2>1, GreatestNat
<1>3. ASSUME NEW g, \A p \in x + 1 .. N : g[p] = ParseStep(s, g, p)
      PROVE  FALSE
  <2>. DEFINE h == [p \in x .. N |-> IF p = x THEN ParseStep(s, g, x) ELSE g[p]]
  <2>0. x \in 1 .. N
    BY <1>2
  <2>1. ASSUME NEW p \in x + 1 .. N PROVE h[p] = g[p]
    BY <1>0, <2>0
  <2>2. h[x] = ParseStep(s, g, x)
    BY <1>0, <2>0
  <2>3. h = [p \in x .. N |-> h[p]]
    OBVIOUS
  <2>. HIDE DEF h
  <2>4. ASSUME NEW p \in x .. N PROVE h[p] = ParseStep(s, h, p)
    <3>1. p \in 1 .. Len(s) + 1 + 1
      BY <1>0, <2>0
    <3>2. \A n \in p + 1 .. Len(s) + 1 + 1 : h[n] = g[n]
      BY <1>0, <2>0, <2>1
    <3>3. ParseStep(s, h, p) = ParseStep(s, g, p)
      BY <3>1, <3>2, ParseLooksAhead
    <3>4. CASE p = x
      BY <2>2, <3>3, <3>4
    <3>5. CASE p # x
      <4>1. p \in x + 1 .. N
        BY <1>0, <2>0, <3>5
      <4>. QED BY <1>3, <2>1, <3>3, <4>1
    <3>. QED BY <3>4, <3>5
  <2>5. h = [p \in x .. N |-> ParseStep(s, h, p)]
    BY <2>3, <2>4
  <2>6. ParseFunction(s, x, h)
    BY <2>5 DEF ParseFunction
  <2>. QED BY <1>2, <2>6
<1>4. CASE x = N
  <2>1. \A p \in x + 1 .. N : << >>[p] = ParseStep(s, << >>, p)
    BY <1>0, <1>4
  <2>. QED BY <1>3, <2>1
<1>5. CASE x # N
  <2>1. x \in 1 .. N
    BY <1>2
  <2>2. x + 1 \in 1 .. N /\ x + 1 \notin T
    <3>. HIDE DEF T
    <3>. QED BY <1>0, <1>2, <1>5, <2>1
  <2>3. PICK g : ParseFunction(s, x + 1, g)
    BY <2>2
  <2>4. \A p \in x + 1 .. N : g[p] = ParseStep(s, g, p)
    BY <2>3 DEF ParseFunction
  <2>. QED BY <1>3, <2>4
<1>. QED BY <1>4, <1>5

\* A position where a round of the loop may begin: outside, and not inside a tag.
RoundAt(s, p) ==
  ~Inside(s, p) /\ (p > 1 => ~IsTag(s, OpenHead, p - 1) /\ ~IsTag(s, CloseHead, p - 1))

\* Up to the next <think> the text is outside, from there to </think> inside, and
\* behind </think> outside again.
LEMMA Blocks ==
  ASSUME NEW s \in Text, NEW p \in 1 .. Len(s) + 1, RoundAt(s, p),
         NEW o, o = IndexOf(s, OpenHead, p), NEW c, c = IndexOf(s, CloseHead, o + 2)
  PROVE  /\ o \in p .. Len(s) + 1
         /\ \A i \in p .. o - 1 : i \in Visible(s) /\ i \notin Reasoning(s)
         /\ o <= Len(s) =>
              /\ o + 1 <= Len(s) /\ c \in o + 2 .. Len(s) + 1
              /\ \A i \in o .. o + 1 : i \notin Visible(s) /\ i \notin Reasoning(s)
              /\ \A i \in o + 2 .. c - 1 : i \notin Visible(s) /\ i \in Reasoning(s)
              /\ c <= Len(s) =>
                   /\ c + 1 <= Len(s) /\ RoundAt(s, c + 2)
                   /\ \A i \in c .. c + 1 : i \notin Visible(s) /\ i \notin Reasoning(s)
<1>0. /\ Len(s) \in Nat /\ p \in Nat \ {0} /\ p <= Len(s) + 1 /\ ~Inside(s, p)
      /\ p > 1 => ~IsTag(s, OpenHead, p - 1) /\ ~IsTag(s, CloseHead, p - 1)
  BY DEF Text, RoundAt
<1>h. OpenHead # CloseHead /\ OpenHead # TagEnd /\ CloseHead # TagEnd
  BY DEF OpenHead, CloseHead, TagEnd
<1>1. /\ o \in p .. Len(s) + 1
      /\ \A j \in p .. o - 1 : ~IsTag(s, OpenHead, j)
      /\ o <= Len(s) => IsTag(s, OpenHead, o)
  <2>1. \/ o = Len(s) + 1 /\ \A j \in p .. Len(s) : ~IsTag(s, OpenHead, j)
        \/ /\ o \in p .. Len(s) /\ IsTag(s, OpenHead, o)
           /\ \A j \in p .. o - 1 : ~IsTag(s, OpenHead, j)
    BY <1>0, FirstTag
  <2>. QED BY <1>0, <2>1
<1>2. ASSUME NEW i \in p .. o PROVE ~Inside(s, i)
  <2>1. SUFFICES ASSUME NEW j \in 1 .. i - 2, IsTag(s, OpenHead, j),
                        \A k \in j + 2 .. i - 2 : ~IsTag(s, CloseHead, k)
                 PROVE FALSE
    BY DEF Inside
  <2>2. j < p /\ j # p - 1
    <3>1. j \in Nat /\ i \in Nat /\ j <= i - 2 /\ i <= o /\ o \in Nat
      BY <1>0, <1>1, <2>1
    <3>2. j \notin p .. o - 1
      BY <1>1, <2>1
    <3>3. j < p
      BY <1>0, <3>1, <3>2
    <3>4. j = p - 1 => p > 1
      BY <1>0, <2>1
    <3>. QED BY <1>0, <2>1, <3>3, <3>4
  <2>3. j \in 1 .. p - 2 /\ \A k \in j + 2 .. p - 2 : k \in j + 2 .. i - 2
    BY <1>0, <1>1, <2>1, <2>2
  <2>4. \A k \in j + 2 .. p - 2 : ~IsTag(s, CloseHead, k)
    BY <2>1, <2>3
  <2>. QED BY <1>0, <2>1, <2>3, <2>4 DEF Inside
<1>3. ASSUME NEW i \in p .. o - 1 PROVE i \in Visible(s) /\ i \notin Reasoning(s)
  <2>1. i \in 1 .. Len(s) /\ i \in p .. o
    BY <1>0, <1>1
  <2>2. ~Inside(s, i)
    BY <1>2, <2>1
  <2>3. ~Mark(s, i)
    BY <1>1, <2>2 DEF Mark
  <2>4. i > 1 => ~Mark(s, i - 1)
    <3>1. CASE i = p
      BY <1>0, <3>1 DEF Mark
    <3>2. CASE i # p
      <4>1. i - 1 \in p .. o - 1 /\ i - 1 \in p .. o
        BY <1>0, <1>1, <2>1, <3>2
      <4>2. ~Inside(s, i - 1)
        BY <1>2, <4>1
      <4>. QED BY <1>1, <4>1, <4>2 DEF Mark
    <3>. QED BY <3>1, <3>2
  <2>. QED BY <2>1, <2>2, <2>3, <2>4 DEF Visible, Reasoning, TagAt
<1>4. ASSUME o <= Len(s)
      PROVE  /\ o + 1 <= Len(s) /\ c \in o + 2 .. Len(s) + 1
             /\ \A i \in o .. o + 1 : i \notin Visible(s) /\ i \notin Reasoning(s)
             /\ \A i \in o + 2 .. c - 1 : i \notin Visible(s) /\ i \in Reasoning(s)
             /\ c <= Len(s) =>
                  /\ c + 1 <= Len(s) /\ RoundAt(s, c + 2)
                  /\ \A i \in c .. c + 1 : i \notin Visible(s) /\ i \notin Reasoning(s)
  <2>0. /\ o \in 1 .. Len(s) /\ o + 1 <= Len(s) /\ IsTag(s, OpenHead, o) /\ s[o + 1] = TagEnd
        /\ ~Inside(s, o)
    <3>1. o \in 1 .. Len(s) /\ o \in p .. o
      BY <1>0, <1>1, <1>4
    <3>. QED BY <1>1, <1>2, <1>4, <3>1 DEF IsTag
  <2>1. /\ c \in o + 2 .. Len(s) + 1
        /\ \A j \in o + 2 .. c - 1 : ~IsTag(s, CloseHead, j)
        /\ c <= Len(s) => IsTag(s, CloseHead, c)
    <3>1. o + 2 \in Nat \ {0}
      BY <1>0, <2>0
    <3>2. \/ c = Len(s) + 1 /\ \A j \in o + 2 .. Len(s) : ~IsTag(s, CloseHead, j)
          \/ /\ c \in o + 2 .. Len(s) /\ IsTag(s, CloseHead, c)
             /\ \A j \in o + 2 .. c - 1 : ~IsTag(s, CloseHead, j)
      BY <3>1, FirstTag
    <3>. QED BY <1>0, <2>0, <3>2
  <2>2. ASSUME NEW i \in o .. o + 1 PROVE i \notin Visible(s) /\ i \notin Reasoning(s)
    <3>1. Mark(s, o)
      BY <2>0 DEF Mark
    <3>2. i = o \/ (i > 1 /\ i - 1 = o)
      BY <2>0
    <3>3. TagAt(s, i)
      BY <3>1, <3>2 DEF TagAt
    <3>. QED BY <3>3 DEF Visible, Reasoning
  <2>3. ASSUME NEW i \in o + 2 .. c + 1 PROVE Inside(s, i)
    <3>1. o \in 1 .. i - 2 /\ \A k \in o + 2 .. i - 2 : k \in o + 2 .. c - 1
      BY <1>0, <2>0, <2>1
    <3>2. \A k \in o + 2 .. i - 2 : ~IsTag(s, CloseHead, k)
      BY <2>1, <3>1
    <3>. QED BY <2>0, <3>1, <3>2 DEF Inside
  <2>i. o \in Int /\ c \in Int /\ Len(s) \in Int /\ o >= 1 /\ c >= o + 2
    BY <1>0, <2>0, <2>1
  <2>4. ASSUME NEW i \in o + 2 .. c - 1 PROVE i \notin Visible(s) /\ i \in Reasoning(s)
    <3>1. i \in 1 .. Len(s) /\ i \in o + 2 .. c + 1
      BY <1>0, <2>0, <2>1
    <3>2. Inside(s, i)
      BY <2>3, <3>1
    <3>3. ~Mark(s, i)
      BY <2>1, <3>2 DEF Mark
    <3>4. ~Mark(s, i - 1)
      <4>1. CASE i = o + 2
        <5>1. i - 1 = o + 1
          BY <2>0, <4>1
        <5>. QED BY <1>h, <2>0, <5>1 DEF Mark, IsTag
      <4>2. CASE i # o + 2
        <5>1. i - 1 \in o + 2 .. c - 1 /\ i - 1 \in o + 2 .. c + 1
          BY <2>i, <4>2
        <5>2. Inside(s, i - 1)
          BY <2>3, <5>1
        <5>. QED BY <2>1, <5>1, <5>2 DEF Mark
      <4>. QED BY <4>1, <4>2
    <3>. QED BY <3>1, <3>2, <3>3, <3>4 DEF Visible, Reasoning, TagAt
  <2>5. ASSUME c <= Len(s)
        PROVE  /\ c + 1 <= Len(s) /\ RoundAt(s, c + 2)
               /\ \A i \in c .. c + 1 : i \notin Visible(s) /\ i \notin Reasoning(s)
    <3>1. /\ c \in Nat /\ c >= o + 2 /\ o \in Nat /\ c \in o + 2 .. c + 1 /\ c + 1 <= Len(s)
          /\ IsTag(s, CloseHead, c) /\ s[c] = CloseHead /\ s[c + 1] = TagEnd
      <4>1. IsTag(s, CloseHead, c)
        BY <2>1, <2>5
      <4>. QED BY <2>i, <4>1 DEF IsTag
    <3>2. Mark(s, c)
      BY <2>3, <3>1 DEF Mark
    <3>3. ASSUME NEW i \in c .. c + 1 PROVE i \notin Visible(s) /\ i \notin Reasoning(s)
      <4>1. i = c \/ (i > 1 /\ i - 1 = c)
        BY <3>1
      <4>2. TagAt(s, i)
        BY <3>2, <4>1 DEF TagAt
      <4>. QED BY <4>2 DEF Visible, Reasoning
    <3>4. ~Inside(s, c + 2)
      <4>1. SUFFICES ASSUME NEW j \in 1 .. (c + 2) - 2, IsTag(s, OpenHead, j),
                            \A k \in j + 2 .. (c + 2) - 2 : ~IsTag(s, CloseHead, k)
                     PROVE  FALSE
        BY DEF Inside
      <4>2. j # c /\ j + 1 # c
        BY <1>h, <3>1, <4>1 DEF IsTag
      <4>3. c \in j + 2 .. (c + 2) - 2
        BY <2>i, <4>2
      <4>. QED BY <3>1, <4>1, <4>3
    <3>5. ~IsTag(s, OpenHead, (c + 2) - 1) /\ ~IsTag(s, CloseHead, (c + 2) - 1)
      <4>1. (c + 2) - 1 = c + 1
        BY <3>1
      <4>. QED BY <1>h, <3>1, <4>1 DEF IsTag
    <3>. QED BY <3>1, <3>3, <3>4, <3>5 DEF RoundAt
  <2>. QED BY <2>0, <2>1, <2>2, <2>4, <2>5
<1>. QED BY <1>1, <1>3, <1>4

\* What the loop adds from a position outside all blocks on is the rest of the
\* visible text and of the reasoning.
LEMMA ParseRest ==
  ASSUME NEW s \in Text, NEW f, ParseFunction(s, 1, f), NEW p \in 1 .. Len(s) + 1, RoundAt(s, p)
  PROVE  /\ f[p].visible \in Text /\ f[p].reasoning \in Text
         /\ UpTo(s, Visible(s))[p - 1] \o f[p].visible = VisibleOf(s)
         /\ UpTo(s, Reasoning(s))[p - 1] \o f[p].reasoning = ReasoningOf(s)
<1>. DEFINE V == UpTo(s, Visible(s))
            R == UpTo(s, Reasoning(s))
            Good(q) == /\ f[q].visible \in Text /\ f[q].reasoning \in Text
                       /\ V[q - 1] \o f[q].visible = VisibleOf(s)
                       /\ R[q - 1] \o f[q].reasoning = ReasoningOf(s)
            T == {q \in 1 .. Len(s) + 1 : RoundAt(s, q) /\ ~Good(q)}
<1>0. Len(s) \in Nat
  BY DEF Text
<1>1. /\ VisibleOf(s) = V[Len(s)] /\ ReasoningOf(s) = R[Len(s)]
      /\ \A n \in 0 .. Len(s) : V[n] \in Text /\ R[n] \in Text
  BY PickSteps DEF VisibleOf, ReasoningOf
<1>2. \A q \in 1 .. Len(s) + 1 : f[q] = ParseStep(s, f, q)
  <2>1. \A q \in 1 .. Len(s) + 1 + 1 : f[q] = ParseStep(s, f, q)
    BY DEF ParseFunction
  <2>. QED BY <1>0, <2>1
<1>. HIDE DEF Good
<1>3. SUFFICES ASSUME T # {} PROVE FALSE
  BY DEF Good
<1>4. PICK x \in T : \A y \in T : y <= x
  <2>1. T \subseteq 0 .. Len(s) + 1 /\ Len(s) + 1 \in Nat
    BY <1>0
  <2>. HIDE DEF T
  <2>. QED BY <1>3, <2>1, GreatestNat
<1>5. x \in 1 .. Len(s) + 1 /\ RoundAt(s, x) /\ ~Good(x)
  BY <1>4
<1>o. PICK o : o = IndexOf(s, OpenHead, x)
  OBVIOUS
<1>c. PICK c : c = IndexOf(s, CloseHead, o + 2)
  OBVIOUS
<1>6. /\ o \in x .. Len(s) + 1
      /\ \A i \in x .. o - 1 : i \in Visible(s) /\ i \notin Reasoning(s)
      /\ o <= Len(s) =>
           /\ o + 1 <= Len(s) /\ c \in o + 2 .. Len(s) + 1
           /\ \A i \in o .. o + 1 : i \notin Visible(s) /\ i \notin Reasoning(s)
           /\ \A i \in o + 2 .. c - 1 : i \notin Visible(s) /\ i \in Reasoning(s)
           /\ c <= Len(s) =>
                /\ c + 1 <= Len(s) /\ RoundAt(s, c + 2)
                /\ \A i \in c .. c + 1 : i \notin Visible(s) /\ i \notin Reasoning(s)
  BY <1>5, <1>o, <1>c, Blocks
<1>7. Outcome(s, f, x, o, c, f[x])
  <2>1. f[x] = ParseStep(s, f, x)
    BY <1>2, <1>5
  <2>2. Outcome(s, f, x, o, c, ParseStep(s, f, x))
    BY <1>o, <1>c, ParseRound
  <2>. QED BY <2>1, <2>2
<1>8. /\ SubSeq(s, x, o - 1) \in Text
      /\ V[o - 1] = V[x - 1] \o SubSeq(s, x, o - 1)
      /\ R[o - 1] = R[x - 1]
  <2>1. x - 1 \in 0 .. Len(s) /\ o - 1 \in x - 1 .. Len(s) /\ (x - 1) + 1 = x
    BY <1>0, <1>5, <1>6
  <2>2. \A i \in (x - 1) + 1 .. o - 1 : i \in Visible(s) /\ i \notin Reasoning(s)
    BY <1>6, <2>1
  <2>3. V[o - 1] = V[x - 1] \o SubSeq(s, (x - 1) + 1, o - 1)
    BY <2>1, <2>2, PickAll
  <2>4. R[o - 1] = R[x - 1]
    BY <2>1, <2>2, PickNone
  <2>5. SubSeq(s, x, o - 1) \in Text
    BY <1>0, <1>5, <2>1 DEF Text
  <2>. QED BY <2>1, <2>3, <2>4, <2>5
<1>9. V[x - 1] \in Text /\ R[x - 1] \in Text /\ << >> \in Text /\ R[x - 1] \o << >> = R[x - 1]
  <2>1. x - 1 \in 0 .. Len(s)
    BY <1>0, <1>5
  <2>2. V[x - 1] \in Text /\ R[x - 1] \in Text
    BY <1>1, <2>1
  <2>. QED BY <2>2, PrefixTrivial
<1>10. CASE o >= Len(s) + 1
  <2>1. o - 1 = Len(s)
    BY <1>0, <1>6, <1>10
  <2>2. f[x].visible = SubSeq(s, x, Len(s)) /\ f[x].reasoning = << >>
    BY <1>7, <1>10 DEF Outcome
  <2>. HIDE DEF V, R
  <2>. QED BY <1>1, <1>5, <1>8, <1>9, <2>1, <2>2 DEF Good
<1>11. CASE ~(o >= Len(s) + 1)
  <2>1. /\ o \in 1 .. Len(s) /\ o <= Len(s) /\ c \in o + 2 .. Len(s) + 1
        /\ o - 1 \in 0 .. Len(s) /\ o + 1 \in o - 1 .. Len(s) /\ (o - 1) + 1 = o
    BY <1>0, <1>5, <1>6, <1>11
  <2>2. V[o + 1] = V[o - 1] /\ R[o + 1] = R[o - 1]
    <3>1. \A i \in (o - 1) + 1 .. o + 1 : i \notin Visible(s) /\ i \notin Reasoning(s)
      BY <1>6, <2>1
    <3>. QED BY <2>1, <3>1, PickNone
  <2>3. /\ SubSeq(s, o + 2, c - 1) \in Text
        /\ V[c - 1] = V[o + 1]
        /\ R[c - 1] = R[o + 1] \o SubSeq(s, o + 2, c - 1)
    <3>1. o + 1 \in 0 .. Len(s) /\ c - 1 \in o + 1 .. Len(s) /\ (o + 1) + 1 = o + 2
      BY <1>0, <2>1
    <3>2. \A i \in (o + 1) + 1 .. c - 1 : i \notin Visible(s) /\ i \in Reasoning(s)
      BY <1>6, <2>1, <3>1
    <3>3. R[c - 1] = R[o + 1] \o SubSeq(s, (o + 1) + 1, c - 1)
      BY <3>1, <3>2, PickAll
    <3>4. V[c - 1] = V[o + 1]
      <4>. DEFINE a == o + 1  b == c - 1
      <4>1. a \in 0 .. Len(s) /\ b \in a .. Len(s) /\ \A i \in a + 1 .. b : i \notin Visible(s)
        BY <3>1, <3>2
      <4>. HIDE DEF a, b
      <4>2. V[b] = V[a]
        BY <4>1, PickNone
      <4>. QED BY <4>2 DEF a, b
    <3>5. SubSeq(s, o + 2, c - 1) \in Text
      BY <1>0, <2>1, <3>1 DEF Text
    <3>. QED BY <3>1, <3>3, <3>4, <3>5
  <2>4. CASE c >= Len(s) + 1
    <3>1. c - 1 = Len(s)
      BY <1>0, <2>1, <2>4
    <3>2. f[x].visible = SubSeq(s, x, o - 1) /\ f[x].reasoning = SubSeq(s, o + 2, Len(s))
      BY <1>7, <1>11, <2>4 DEF Outcome
    <3>. HIDE DEF V, R
    <3>. QED BY <1>1, <1>5, <1>8, <2>2, <2>3, <3>1, <3>2 DEF Good
  <2>5. CASE ~(c >= Len(s) + 1)
    <3>1. /\ c \in 1 .. Len(s) /\ c <= Len(s) /\ c + 1 <= Len(s) /\ c + 2 \in 1 .. Len(s) + 1
          /\ (c + 2) - 1 = c + 1 /\ c - 1 \in 0 .. Len(s) /\ c + 1 \in c - 1 .. Len(s)
          /\ (c - 1) + 1 = c /\ ~(c + 2 <= x) /\ RoundAt(s, c + 2)
      <4>1. c \in 1 .. Len(s) /\ c <= Len(s) /\ c >= o + 2 /\ o >= x
        BY <1>0, <1>5, <1>6, <2>1, <2>5
      <4>2. c + 1 <= Len(s) /\ RoundAt(s, c + 2)
        BY <1>6, <2>1, <4>1
      <4>. QED BY <1>0, <1>5, <2>1, <4>1, <4>2
    <3>2. V[c + 1] = V[c - 1] /\ R[c + 1] = R[c - 1]
      <4>1. \A i \in (c - 1) + 1 .. c + 1 : i \notin Visible(s) /\ i \notin Reasoning(s)
        BY <1>6, <2>1, <3>1
      <4>. QED BY <3>1, <4>1, PickNone
    <3>. DEFINE later == f[c + 2]
                outer == SubSeq(s, x, o - 1)
                inner == SubSeq(s, o + 2, c - 1)
    <3>3. f[x].visible = outer \o later.visible /\ f[x].reasoning = inner \o later.reasoning
      BY <1>7, <1>11, <2>5 DEF Outcome
    <3>4. Good(c + 2)
      <4>2. c + 2 \notin T
        <5>. HIDE DEF T
        <5>. QED BY <1>4, <3>1
      <4>. QED BY <3>1, <4>2
    <3>5. /\ later.visible \in Text /\ later.reasoning \in Text
          /\ V[c + 1] \o later.visible = VisibleOf(s) /\ R[c + 1] \o later.reasoning = ReasoningOf(s)
      BY <3>1, <3>4 DEF Good
    <3>6. outer \in Text /\ inner \in Text
      BY <1>8, <2>3
    <3>7. V[c + 1] = V[x - 1] \o outer /\ R[c + 1] = R[x - 1] \o inner
      BY <1>8, <2>2, <2>3, <3>2
    <3>. HIDE DEF V, R, later, outer, inner
    <3>8. V[x - 1] \o (outer \o later.visible) = VisibleOf(s)
      <4>0. V[x - 1] \in Text /\ outer \in Text /\ later.visible \in Text
        BY <1>9, <3>5, <3>6
      <4>1. (V[x - 1] \o outer) \o later.visible = V[x - 1] \o (outer \o later.visible)
        BY <4>0, Associative
      <4>. QED BY <3>5, <3>7, <4>1
    <3>9. R[x - 1] \o (inner \o later.reasoning) = ReasoningOf(s)
      <4>0. R[x - 1] \in Text /\ inner \in Text /\ later.reasoning \in Text
        BY <1>9, <3>5, <3>6
      <4>1. (R[x - 1] \o inner) \o later.reasoning = R[x - 1] \o (inner \o later.reasoning)
        BY <4>0, Associative
      <4>. QED BY <3>5, <3>7, <4>1
    <3>10. outer \o later.visible \in Text /\ inner \o later.reasoning \in Text
      BY <3>5, <3>6 DEF Text
    <3>. QED BY <1>5, <3>3, <3>8, <3>9, <3>10 DEF Good
  <2>. QED BY <2>4, <2>5
<1>. QED BY <1>10, <1>11

\* A text without <think> is all visible.
LEMMA Untagged ==
  ASSUME NEW s \in Text, ~HasOpenTag(s)
  PROVE  VisibleOf(s) = s /\ ReasoningOf(s) = << >>
<1>0. Len(s) \in Nat
  BY DEF Text
<1>1. ASSUME NEW i \in 1 .. Len(s) PROVE i \in Visible(s) /\ i \notin Reasoning(s)
  <2>1. ASSUME NEW j \in 1 .. i PROVE ~Inside(s, j) /\ ~Mark(s, j)
    <3>1. j \in 1 .. Len(s) /\ \A k \in 1 .. j - 2 : k \in 1 .. Len(s)
      BY <1>0
    <3>2. ~Inside(s, j)
      BY <3>1 DEF Inside, HasOpenTag
    <3>. QED BY <3>1, <3>2 DEF Mark, HasOpenTag
  <2>2. ~Inside(s, i) /\ ~Mark(s, i) /\ (i > 1 => ~Mark(s, i - 1))
    <3>1. i \in 1 .. i /\ (i > 1 => i - 1 \in 1 .. i)
      BY <1>0
    <3>. QED BY <2>1, <3>1
  <2>. QED BY <2>2 DEF Visible, Reasoning, TagAt
<1>2. UpTo(s, Visible(s))[Len(s)] = UpTo(s, Visible(s))[0] \o SubSeq(s, 0 + 1, Len(s))
  <2>1. \A i \in 0 + 1 .. Len(s) : i \in Visible(s)
    BY <1>1
  <2>2. 0 \in 0 .. Len(s) /\ Len(s) \in 0 .. Len(s)
    BY <1>0
  <2>. QED BY <2>1, <2>2, PickAll
<1>3. SubSeq(s, 0 + 1, Len(s)) = s
  BY <1>0 DEF Text
<1>4. VisibleOf(s) = << >> \o s
  BY <1>2, <1>3, PickSteps DEF VisibleOf
<1>5. Reasoning(s) = {}
  <2>1. Reasoning(s) \subseteq 1 .. Len(s)
    BY DEF Reasoning
  <2>. QED BY <1>1, <2>1
<1>6. ReasoningOf(s) = << >>
  BY <1>5, PickedEmpty DEF ReasoningOf
<1>. QED BY <1>4, <1>6, PrefixTrivial

\* parseThinkTags (message-reasoning-utils.ts) splits every text as the reference
\* says, whatever tags it has: what lies outside the blocks is visible, what lies
\* inside is reasoning, and a text without <think> is all visible.
THEOREM ParseIsReference ==
  ASSUME NEW s \in Text
  PROVE  /\ parseThinkTags(s).visible = VisibleOf(s) /\ VisibleOf(s) \in Text
         /\ parseThinkTags(s).reasoning = ReasoningOf(s) /\ ReasoningOf(s) \in Text
         /\ ~HasOpenTag(s) => VisibleOf(s) = s /\ ReasoningOf(s) = << >>
<1>. DEFINE f == CHOOSE g : ParseFunction(s, 1, g)
<1>0. Len(s) \in Nat /\ 1 \in 1 .. Len(s) + 1
  BY DEF Text
<1>1. parseThinkTags(s) = f[1]
  BY DEF parseThinkTags, ParseFunction, ParseStep
<1>2. ParseFunction(s, 1, f)
  BY ParseExists
<1>. HIDE DEF f
<1>3. RoundAt(s, 1)
  BY DEF RoundAt, Inside
<1>4. /\ f[1].visible \in Text /\ f[1].reasoning \in Text
      /\ UpTo(s, Visible(s))[1 - 1] \o f[1].visible = VisibleOf(s)
      /\ UpTo(s, Reasoning(s))[1 - 1] \o f[1].reasoning = ReasoningOf(s)
  BY <1>0, <1>2, <1>3, ParseRest
<1>5. UpTo(s, Visible(s))[1 - 1] = << >> /\ UpTo(s, Reasoning(s))[1 - 1] = << >>
  <2>1. 1 - 1 = 0
    OBVIOUS
  <2>. QED BY <2>1, PickSteps
<1>6. f[1].visible = VisibleOf(s) /\ f[1].reasoning = ReasoningOf(s)
  BY <1>4, <1>5, PrefixTrivial
<1>. QED BY <1>1, <1>4, <1>6, Untagged

\* A beginning of a text without text in blocks has none either, unless it ends in
\* the middle of a </think>.
LEMMA ReasoningGrows ==
  ASSUME NEW s \in Text, NEW t \in Text, ReasoningOf(s \o t) = << >>, ~EndsInTag(s)
  PROVE  ReasoningOf(s) = << >>
<1>. DEFINE u == s \o t
<1>0. /\ u \in Text /\ Len(s) \in Nat /\ Len(u) \in Nat /\ Len(s) <= Len(u)
      /\ \A i \in 1 .. Len(s) : u[i] = s[i]
  BY DEF Text
<1>1. Reasoning(u) = {}
  <2>1. Reasoning(u) \subseteq 1 .. Len(u)
    BY DEF Reasoning
  <2>. QED BY <1>0, <2>1, PickedEmpty DEF ReasoningOf
<1>. HIDE DEF u
<1>t. \A head : \A i \in 1 .. Len(s) : i # Len(s) => (IsTag(u, head, i) <=> IsTag(s, head, i))
  <2>1. \A i \in 1 .. Len(s) : i # Len(s) =>
          i + 1 \in 1 .. Len(s) /\ i + 1 <= Len(s) /\ i + 1 <= Len(u)
    BY <1>0
  <2>. QED BY <1>0, <2>1 DEF IsTag
<1>2. ASSUME NEW i \in 1 .. Len(s) PROVE Inside(u, i) <=> Inside(s, i)
  <2>1. \A j \in 1 .. i - 2 : /\ j \in 1 .. Len(s) /\ j # Len(s)
                              /\ \A k \in j + 2 .. i - 2 : k \in 1 .. Len(s) /\ k # Len(s)
    BY <1>0
  <2>2. \A j \in 1 .. i - 2 :
          /\ IsTag(u, OpenHead, j) <=> IsTag(s, OpenHead, j)
          /\ \A k \in j + 2 .. i - 2 : IsTag(u, CloseHead, k) <=> IsTag(s, CloseHead, k)
    BY <1>t, <2>1
  <2>. QED BY <2>2 DEF Inside
<1>3. ASSUME NEW i \in 1 .. Len(s), i # Len(s) PROVE Mark(u, i) <=> Mark(s, i)
  BY <1>2, <1>3, <1>t DEF Mark
<1>4. ASSUME NEW i \in Reasoning(s) PROVE i \in Reasoning(u)
  <2>1. i \in 1 .. Len(s) /\ i \in 1 .. Len(u) /\ Inside(s, i) /\ ~TagAt(s, i)
    BY <1>0 DEF Reasoning
  <2>2. Inside(u, i)
    BY <1>2, <2>1
  <2>3. i > 1 => ~Mark(u, i - 1)
    <3>1. i > 1 => i - 1 \in 1 .. Len(s) /\ i - 1 # Len(s)
      BY <1>0, <2>1
    <3>. QED BY <1>3, <2>1, <3>1 DEF TagAt
  <2>4. ~Mark(u, i)
    <3>1. CASE i # Len(s)
      BY <1>3, <2>1, <3>1 DEF TagAt
    <3>2. CASE i = Len(s)
      <4>1. s # << >>
        BY <2>1, <3>2
      <4>2. s[i] # CloseHead
        BY <2>1, <3>2, <4>1 DEF EndsInTag
      <4>3. u[i] # CloseHead
        BY <1>0, <2>1, <4>2
      <4>. QED BY <2>2, <4>3 DEF Mark, IsTag
    <3>. QED BY <3>1, <3>2
  <2>. QED BY <2>1, <2>2, <2>3, <2>4 DEF Reasoning, TagAt
<1>5. Reasoning(s) = {}
  BY <1>1, <1>4
<1>. QED BY <1>5, PickedEmpty DEF ReasoningOf

-----------------------------------------------------------------------------
(* What a flush makes of the message while the answer streams. *)

\* The types that are not loose records in the provers' eyes.
LEMMA Typed ==
  ASSUME TypeOK
  PROVE  /\ pending.content \in Text /\ pending.reasoning \in Text
         /\ sent.content \in Text /\ sent.reasoning \in Text
BY DEF TypeOK, Types

\* The reasoning goes first, and leaves the content alone.
LEMMA ReasoningFirst ==
  ASSUME TypeOK, isAssistantMessagePending(message),
         NEW m, m = applyStreamingChunk(message, "reasoning", pending.reasoning)
  PROVE  /\ DOMAIN m = {"status", "content", "reasoning"}
         /\ isAssistantMessagePending(m)
         /\ m.content = message.content
         /\ m.reasoning = IF pending.reasoning = << >> THEN message.reasoning
              ELSE message.reasoning \o getAppendableChunk(message.reasoning, pending.reasoning)
BY DEF applyStreamingChunk, isAssistantMessagePending, TypeOK

\* The content follows; it touches the reasoning only when it holds a tag.
LEMMA ContentSecond ==
  ASSUME NEW m, DOMAIN m = {"status", "content", "reasoning"}, isAssistantMessagePending(m),
         NEW chunk,
         NEW n, n = applyStreamingChunk(m, "content", chunk)
  PROVE  /\ DOMAIN n = {"status", "content", "reasoning"}
         /\ isAssistantMessagePending(n)
         /\ n.content = IF chunk = << >> THEN m.content
                        ELSE m.content \o getAppendableChunk(m.content, chunk)
         /\ chunk = << >> \/ ~HasOpenTag(m.content \o getAppendableChunk(m.content, chunk))
              => n.reasoning = m.reasoning
<1>1. CASE chunk = << >>
  BY <1>1 DEF applyStreamingChunk
<1>2. CASE chunk # << >>
  <2>. DEFINE add == getAppendableChunk(m.content, chunk)
              p == processStreamingContent(m, add)
  <2>1. n = [p EXCEPT !.status = "streaming"]
    BY <1>2 DEF applyStreamingChunk, isAssistantMessagePending
  <2>. HIDE DEF add
  <2>2. /\ DOMAIN p = {"status", "content", "reasoning"}
        /\ p.content = m.content \o add
        /\ ~HasOpenTag(m.content \o add) => p.reasoning = m.reasoning
    BY DEF processStreamingContent
  <2>. HIDE DEF p
  <2>3. /\ DOMAIN n = {"status", "content", "reasoning"}
        /\ n.status = "streaming"
        /\ n.content = p.content /\ n.reasoning = p.reasoning
    BY <2>1, <2>2
  <2>4. isAssistantMessagePending(n)
    BY <2>3 DEF isAssistantMessagePending
  <2>. QED BY <1>2, <2>2, <2>3, <2>4 DEF add
<1>. QED BY <1>1, <1>2

\* A text with what waits for it.
Joined(shown, waiting) ==
  IF waiting = << >> THEN shown ELSE shown \o getAppendableChunk(shown, waiting)

\* Joining is a concatenation or, of a snapshot, the snapshot; it takes no tag away.
LEMMA JoinedText ==
  ASSUME NEW s \in Text, NEW c \in Text
  PROVE  /\ Joined(s, c) \in Text
         /\ ~TakenAsSnapshot(s, c) \/ c = << >> => Joined(s, c) = s \o c
         /\ StartsWith(c, s) => Joined(s, c) = c
         /\ HasOpenTag(s) => HasOpenTag(Joined(s, c))
<1>1. CASE c = << >>
  <2>1. Joined(s, c) = s /\ s \o c = s
    BY <1>1, PrefixTrivial DEF Joined
  <2>2. StartsWith(c, s) => s = c
    BY <1>1, PrefixTrivial
  <2>. QED BY <2>1, <2>2
<1>2. CASE c # << >>
  <2>. DEFINE add == getAppendableChunk(s, c)
  <2>1. Joined(s, c) = s \o add
    BY <1>2 DEF Joined
  <2>2. /\ add \in Text /\ s \o add \in Text
        /\ StartsWith(c, s) => s \o add = c
        /\ ~TakenAsSnapshot(s, c) => add = c
    BY Appendable
  <2>. HIDE DEF add
  <2>3. HasOpenTag(s) => HasOpenTag(s \o add)
    BY <2>2, TagKept
  <2>. QED BY <1>2, <2>1, <2>2, <2>3
<1>. QED BY <1>1, <1>2

\* Flushing joins what waits to what is shown, reasoning and content.
LEMMA FlushJoins ==
  ASSUME TypeOK, RawText, open, isAssistantMessagePending(message), NEW n, n = Flushed(message)
  PROVE  /\ DOMAIN n = {"status", "content", "reasoning"}
         /\ isAssistantMessagePending(n)
         /\ n.content = Joined(message.content, pending.content)
         /\ ~HasOpenTag(n.content)
              => n.reasoning = Joined(message.reasoning, pending.reasoning)
<1>. DEFINE m == applyStreamingChunk(message, "reasoning", pending.reasoning)
<1>1. n = applyStreamingChunk(m, "content", pending.content)
  BY DEF Flushed
<1>2. /\ DOMAIN m = {"status", "content", "reasoning"}
      /\ isAssistantMessagePending(m)
      /\ m.content = message.content
      /\ m.reasoning = Joined(message.reasoning, pending.reasoning)
  BY ReasoningFirst DEF Joined
<1>. HIDE DEF m
<1>3. /\ DOMAIN n = {"status", "content", "reasoning"}
      /\ isAssistantMessagePending(n)
      /\ n.content = Joined(m.content, pending.content)
      /\ pending.content = << >> \/ ~HasOpenTag(Joined(m.content, pending.content))
           => n.reasoning = m.reasoning
  <2>1. DOMAIN m = {"status", "content", "reasoning"} /\ isAssistantMessagePending(m)
    BY <1>2
  <2>2. /\ DOMAIN n = {"status", "content", "reasoning"}
        /\ isAssistantMessagePending(n)
        /\ n.content = IF pending.content = << >> THEN m.content
                       ELSE m.content \o getAppendableChunk(m.content, pending.content)
        /\ (\/ pending.content = << >>
            \/ ~HasOpenTag(m.content \o getAppendableChunk(m.content, pending.content)))
             => n.reasoning = m.reasoning
    BY <1>1, <2>1, ContentSecond
  <2>3. Joined(m.content, pending.content)
          = IF pending.content = << >> THEN m.content
            ELSE m.content \o getAppendableChunk(m.content, pending.content)
    BY DEF Joined
  <2>. QED BY <2>2, <2>3
<1>. QED BY <1>2, <1>3

-----------------------------------------------------------------------------
(* The steps. *)

\* What the steps keep: the invariant with the two texts of deltas.
Streams == TypeOK /\ EndedIsFinal /\ RawText /\ SnapshotPrefix /\ RawContent /\ RawReasoning

\* The buffer after a flush.
LEMMA NothingWaits ==
  /\ NoChunks \in [Types -> Text]
  /\ NoChunks.content = << >> /\ NoChunks.reasoning = << >>
<1>1. << >> \in Text
  BY DEF Text
<1>. QED BY <1>1 DEF NoChunks, Types

\* A new answer has no text.
LEMMA InitStreams == Init => Streams
<1>. SUFFICES ASSUME Init PROVE Streams
  OBVIOUS
<1>. USE NothingWaits DEF Init
<1>0. << >> \in Text /\ << >> \o << >> = << >> /\ StartsWith(<< >>, << >>)
  BY DEF Text, StartsWith
<1>1. TypeOK
  BY <1>0 DEF TypeOK
<1>2. EndedIsFinal
  BY DEF EndedIsFinal, isAssistantMessagePending
<1>3. RawText
  BY <1>0 DEF RawText, HasOpenTag
<1>4. SnapshotPrefix
  BY <1>0 DEF SnapshotPrefix
<1>5. RawContent /\ RawReasoning
  BY <1>0 DEF RawContent, RawReasoning
<1>. QED BY <1>1, <1>2, <1>3, <1>4, <1>5 DEF Streams

\* The end of an answer: nothing waits any more and the message is final.
LEMMA EndStep ==
  ASSUME Streams, open, open' = FALSE, timer' = FALSE, pending' = NoChunks,
         DOMAIN message' = {"status", "content", "reasoning"},
         message'.status \in {"complete", "error"},
         repeated' = repeated \cup TakenOnFlush,
         UNCHANGED <<sent, latest, cumulative, cut>>
  PROVE  Streams'
<1>. USE NothingWaits DEF Streams
<1>1. TypeOK'
  BY DEF TypeOK, TakenOnFlush
<1>2. ~isAssistantMessagePending(message)'
  BY DEF isAssistantMessagePending
<1>3. EndedIsFinal'
  BY <1>2 DEF EndedIsFinal
<1>4. RawText' /\ SnapshotPrefix'
  BY DEF RawText, SnapshotPrefix
<1>5. RawContent' /\ RawReasoning'
  BY <1>2 DEF RawContent, RawReasoning
<1>. QED BY <1>1, <1>3, <1>4, <1>5

\* The timer: what waits joins what is shown.
LEMMA TimerStep ==
  ASSUME Streams, FlushTimer
  PROVE  Streams'
<1>. USE NothingWaits
<1>0. TypeOK /\ EndedIsFinal /\ RawText /\ SnapshotPrefix /\ RawContent /\ RawReasoning
  BY DEF Streams
<1>1. /\ timer /\ timer' = FALSE /\ pending' = NoChunks /\ message' = Flushed(message)
      /\ repeated' = repeated \cup TakenOnFlush
      /\ open' = open /\ sent' = sent /\ latest' = latest /\ cumulative' = cumulative
  BY DEF FlushTimer, flushStreamUpdates
<1>2. open /\ isAssistantMessagePending(message)
  BY <1>0, <1>1 DEF EndedIsFinal
<1>3. /\ DOMAIN message' = {"status", "content", "reasoning"}
      /\ isAssistantMessagePending(message')
      /\ message'.content = Joined(message.content, pending.content)
      /\ ~HasOpenTag(message'.content)
           => message'.reasoning = Joined(message.reasoning, pending.reasoning)
  BY <1>0, <1>1, <1>2, FlushJoins
<1>4. /\ message.content \in Text /\ pending.content \in Text /\ pending.reasoning \in Text
      /\ ~HasOpenTag(message.content) => message.reasoning \in Text
      /\ sent.content \in Text /\ sent.reasoning \in Text /\ latest \in Text
  BY <1>0, <1>2, Typed DEF RawText, TypeOK
<1>5. /\ message'.content \in Text
      /\ HasOpenTag(message.content) => HasOpenTag(message'.content)
      /\ ~HasOpenTag(message'.content) => message'.reasoning \in Text
  <2>1. message'.content \in Text
    BY <1>3, <1>4, JoinedText
  <2>2. HasOpenTag(message.content) => HasOpenTag(message'.content)
    BY <1>3, <1>4, JoinedText
  <2>3. ~HasOpenTag(message.content) => Joined(message.reasoning, pending.reasoning) \in Text
    BY <1>4, JoinedText
  <2>. QED BY <1>3, <2>1, <2>2, <2>3
<1>6. TypeOK'
  <2>1. message'.status \in {"loading", "streaming", "complete", "error"}
    BY <1>3 DEF isAssistantMessagePending
  <2>2. cut' \in BOOLEAN
    <3>1. cut' = (cut \/ EndsInTag(message'.content))
      BY DEF FlushTimer
    <3>. QED BY <3>1, Zenon
  <2>. QED BY <1>0, <1>1, <1>3, <2>1, <2>2 DEF TypeOK, TakenOnFlush
<1>7. EndedIsFinal'
  BY <1>1, <1>2, <1>3 DEF EndedIsFinal
<1>8. RawText'
  BY <1>5 DEF RawText
<1>9. SnapshotPrefix'
  <2>1. SUFFICES ASSUME cumulative PROVE message'.content = latest
    BY <1>1, <1>4, PrefixTrivial DEF SnapshotPrefix
  <2>2. CASE pending.content = latest
    BY <1>0, <1>2, <1>3, <1>4, <2>1, <2>2, JoinedText DEF SnapshotPrefix
  <2>3. CASE pending.content = << >> /\ message.content = latest
    BY <1>3, <2>3 DEF Joined
  <2>. QED BY <1>0, <1>2, <2>1, <2>2, <2>3 DEF SnapshotPrefix
<1>10. RawContent'
  <2>1. SUFFICES ASSUME "content" \notin repeated' PROVE message'.content \o << >> = sent.content
    BY <1>1 DEF RawContent
  <2>2. /\ "content" \notin repeated
        /\ pending.content = << >> \/ ~TakenAsSnapshot(message.content, pending.content)
    BY <1>1, <2>1 DEF TakenOnFlush, Types
  <2>3. message'.content = message.content \o pending.content
    BY <1>3, <1>4, <2>2, JoinedText
  <2>4. message'.content = sent.content
    BY <1>0, <1>2, <2>2, <2>3 DEF RawContent
  <2>. QED BY <1>4, <2>4, PrefixTrivial
<1>11. RawReasoning'
  <2>1. SUFFICES ASSUME "reasoning" \notin repeated', ~HasOpenTag(message'.content)
                 PROVE message'.reasoning \o << >> = sent.reasoning
    BY <1>1 DEF RawReasoning
  <2>2. /\ "reasoning" \notin repeated
        /\ pending.reasoning = << >> \/ ~TakenAsSnapshot(message.reasoning, pending.reasoning)
    BY <1>1, <2>1 DEF TakenOnFlush, Types
  <2>3. message'.reasoning = message.reasoning \o pending.reasoning
    <3>1. message.reasoning \in Text /\ pending.reasoning \in Text
      BY <1>4, <1>5, <2>1
    <3>2. Joined(message.reasoning, pending.reasoning)
            = message.reasoning \o pending.reasoning
      BY <2>2, <3>1, JoinedText
    <3>. QED BY <1>3, <2>1, <3>2
  <2>4. message'.reasoning = sent.reasoning
    BY <1>0, <1>2, <1>5, <2>1, <2>2, <2>3 DEF RawReasoning
  <2>. QED BY <1>4, <2>4, PrefixTrivial
<1>. QED BY <1>6, <1>7, <1>8, <1>9, <1>10, <1>11 DEF Streams

\* An event: the chunk joins what waits.
LEMMA UpdateStep ==
  ASSUME Streams, NEW type \in Types, NEW chunk \in Chunks[type],
         HandleStreamUpdate(type, chunk)
  PROVE  Streams'
<1>0. TypeOK /\ EndedIsFinal /\ RawText /\ SnapshotPrefix /\ RawContent /\ RawReasoning
  BY DEF Streams
<1>1. /\ open /\ open' = open /\ message' = message /\ timer' = TRUE /\ cut' = cut
      /\ pending' = [pending EXCEPT ![type] = mergePendingStreamChunk(@, chunk)]
      /\ sent' = [sent EXCEPT ![type] = @ \o chunk]
      /\ latest' = IF type = "content" THEN chunk ELSE latest
      /\ cumulative' = (cumulative /\ (type = "content" => StartsWith(chunk, latest)))
      /\ repeated' = IF TakenAsSnapshot(pending[type], chunk)
                     THEN repeated \cup {type} ELSE repeated
  BY DEF HandleStreamUpdate
<1>2. isAssistantMessagePending(message)
  BY <1>0, <1>1 DEF EndedIsFinal
<1>3. chunk \in Text /\ pending[type] \in Text /\ sent[type] \in Text
      /\ pending \in [Types -> Text] /\ sent \in [Types -> Text] /\ latest \in Text
      /\ message.content \in Text
  BY <1>0, <1>1, ChunkIsText DEF TypeOK, RawText
<1>4. mergePendingStreamChunk(pending[type], chunk) \in Text /\ sent[type] \o chunk \in Text
  <2>1. mergePendingStreamChunk(pending[type], chunk) \in Text
    BY <1>3, Merged
  <2>2. sent[type] \o chunk \in Text
    BY <1>3 DEF Text
  <2>. QED BY <2>1, <2>2
<1>5. TypeOK'
  <2>1. pending' \in [Types -> Text] /\ sent' \in [Types -> Text] /\ latest' \in Text
    BY <1>1, <1>3, <1>4
  <2>2. repeated' \subseteq Types
    BY <1>0, <1>1 DEF TypeOK
  <2>3. cumulative' \in BOOLEAN
    <3>1. \/ cumulative' = cumulative
          \/ cumulative' = (cumulative /\ StartsWith(chunk, latest))
      BY <1>1, Zenon
    <3>2. cumulative \in BOOLEAN
      BY <1>0 DEF TypeOK
    <3>. QED BY <1>1, Zenon
  <2>4. open' \in BOOLEAN /\ timer' \in BOOLEAN
    BY <1>0, <1>1 DEF TypeOK
  <2>. QED BY <1>0, <1>1, <2>1, <2>2, <2>3, <2>4 DEF TypeOK
<1>6. EndedIsFinal'
  BY <1>1, <1>2 DEF EndedIsFinal
<1>8. RawText'
  BY <1>0, <1>1 DEF RawText
<1>9. SnapshotPrefix'
  <2>1. SUFFICES ASSUME cumulative'
                 PROVE  /\ StartsWith(latest', message.content)
                        /\ \/ pending'.content = latest'
                           \/ pending'.content = << >> /\ message.content = latest'
    BY <1>1 DEF SnapshotPrefix
  <2>2. cumulative /\ (type = "content" => StartsWith(chunk, latest))
    BY <1>1, <2>1
  <2>3. /\ StartsWith(latest, message.content)
        /\ pending.content = latest \/ (pending.content = << >> /\ message.content = latest)
    BY <1>0, <1>1, <2>2 DEF SnapshotPrefix
  <2>4. CASE type = "content"
    <3>1. latest' = chunk /\ pending'.content = mergePendingStreamChunk(pending.content, chunk)
      BY <1>1, <1>3, <2>4
    <3>2. StartsWith(chunk, message.content)
      BY <1>3, <2>2, <2>3, <2>4, PrefixTransitive
    <3>3. StartsWith(chunk, pending.content)
      BY <1>3, <2>2, <2>3, <2>4, PrefixTrivial
    <3>4. pending'.content = chunk
      BY <1>3, <2>4, <3>1, <3>3, Merged
    <3>. QED BY <3>1, <3>2, <3>4
  <2>5. CASE type = "reasoning"
    <3>1. latest' = latest /\ pending'.content = pending.content
      BY <1>1, <1>3, <2>5 DEF Types
    <3>. QED BY <2>3, <3>1
  <2>. QED BY <2>4, <2>5 DEF Types
<1>10. ASSUME type \notin repeated', NEW shown \in Text, shown \o pending[type] = sent[type]
       PROVE  shown \o pending'[type] = sent'[type]
  <2>1. ~TakenAsSnapshot(pending[type], chunk)
    BY <1>1, <1>10
  <2>2. pending'[type] = pending[type] \o chunk
    BY <1>1, <1>3, <2>1, Merged
  <2>3. sent'[type] = (shown \o pending[type]) \o chunk
    BY <1>1, <1>3, <1>10
  <2>4. shown \in Text /\ pending[type] \in Text /\ chunk \in Text
    BY <1>3, <1>10
  <2>5. (shown \o pending[type]) \o chunk = shown \o (pending[type] \o chunk)
    BY <2>4, Associative
  <2>. QED BY <2>2, <2>3, <2>5
<1>11. \A t \in Types \ {type} : pending'[t] = pending[t] /\ sent'[t] = sent[t]
  BY <1>1, <1>3
<1>12. repeated \subseteq repeated'
  BY <1>1
<1>13. RawContent'
  <2>1. SUFFICES ASSUME "content" \notin repeated'
                 PROVE  message.content \o pending'.content = sent'.content
    BY <1>1 DEF RawContent
  <2>2. message.content \o pending.content = sent.content
    BY <1>0, <1>2, <1>12, <2>1 DEF RawContent
  <2>3. CASE type = "content"
    BY <1>3, <1>10, <2>1, <2>2, <2>3
  <2>4. CASE type # "content"
    BY <1>11, <2>2, <2>4 DEF Types
  <2>. QED BY <2>3, <2>4
<1>14. RawReasoning'
  <2>1. SUFFICES ASSUME "reasoning" \notin repeated', ~HasOpenTag(message.content)
                 PROVE  message.reasoning \o pending'.reasoning = sent'.reasoning
    BY <1>1 DEF RawReasoning
  <2>3. message.reasoning \o pending.reasoning = sent.reasoning /\ message.reasoning \in Text
    BY <1>0, <1>1, <1>2, <1>12, <2>1 DEF RawReasoning, RawText
  <2>4. CASE type = "reasoning"
    BY <1>10, <2>1, <2>3, <2>4
  <2>5. CASE type # "reasoning"
    BY <1>11, <2>3, <2>5 DEF Types
  <2>. QED BY <2>4, <2>5
<1>. QED BY <1>5, <1>6, <1>8, <1>9, <1>13, <1>14 DEF Streams

\* Completed or not, a message keeps its fields.
LEMMA CompletedShape ==
  ASSUME NEW m, DOMAIN m = {"status", "content", "reasoning"},
         NEW n, n = completeAssistantMessage(m) \/ n = updateAssistantMessageWithError(m)
  PROVE  DOMAIN n = {"status", "content", "reasoning"} /\ n.status \in {"complete", "error"}
BY DEF completeAssistantMessage, finalizeMessage, updateAssistantMessageWithError

\* One case per event of the answer.
LEMMA StepStreams == Streams /\ [Next]_vars => Streams'
<1>. SUFFICES ASSUME Streams, [Next]_vars PROVE Streams'
  OBVIOUS
<1>. DEFINE n == Flushed(message)
<1>0. TypeOK /\ EndedIsFinal /\ RawText
  BY DEF Streams
<1>1. ASSUME open
      PROVE  DOMAIN n = {"status", "content", "reasoning"} /\ isAssistantMessagePending(n)
  <2>1. isAssistantMessagePending(message)
    BY <1>0, <1>1 DEF EndedIsFinal
  <2>. QED BY <1>0, <1>1, <2>1, FlushJoins
<1>. HIDE DEF n
<1>2. CASE \E type \in Types : \E chunk \in Chunks[type] : HandleStreamUpdate(type, chunk)
  BY <1>2, UpdateStep
<1>3. CASE FlushTimer
  BY <1>3, TimerStep
<1>4. CASE HandleStreamComplete
  <2>1. /\ open /\ open' = FALSE /\ timer' = FALSE /\ pending' = NoChunks
        /\ message' = IF isAssistantMessageFinal(n) THEN n ELSE completeAssistantMessage(n)
        /\ repeated' = repeated \cup TakenOnFlush
        /\ UNCHANGED <<sent, latest, cumulative, cut>>
    BY <1>4 DEF HandleStreamComplete, flushStreamUpdates, n
  <2>2. message' = completeAssistantMessage(n)
    BY <1>1, <2>1 DEF isAssistantMessagePending, isAssistantMessageFinal
  <2>3. DOMAIN message' = {"status", "content", "reasoning"} /\ message'.status \in {"complete", "error"}
    BY <1>1, <2>1, <2>2, CompletedShape
  <2>. QED BY <2>1, <2>3, EndStep
<1>5. CASE HandleStreamError
  <2>1. /\ open /\ open' = FALSE /\ timer' = FALSE /\ pending' = NoChunks
        /\ message' = updateAssistantMessageWithError(n)
        /\ repeated' = repeated \cup TakenOnFlush
        /\ UNCHANGED <<sent, latest, cumulative, cut>>
    BY <1>5 DEF HandleStreamError, flushStreamUpdates, n
  <2>2. DOMAIN message' = {"status", "content", "reasoning"} /\ message'.status \in {"complete", "error"}
    BY <1>1, <2>1, CompletedShape
  <2>. QED BY <2>1, <2>2, EndStep
<1>6. CASE StopGeneration
  <2>1. /\ open /\ open' = FALSE /\ timer' = FALSE /\ pending' = NoChunks
        /\ message' = IF isAssistantMessagePending(n) THEN completeAssistantMessage(n) ELSE n
        /\ repeated' = repeated \cup TakenOnFlush
        /\ UNCHANGED <<sent, latest, cumulative, cut>>
    BY <1>6 DEF StopGeneration, flushStreamUpdates, n
  <2>2. message' = completeAssistantMessage(n)
    BY <1>1, <2>1
  <2>3. DOMAIN message' = {"status", "content", "reasoning"} /\ message'.status \in {"complete", "error"}
    BY <1>1, <2>1, <2>2, CompletedShape
  <2>. QED BY <2>1, <2>3, EndStep
<1>7. CASE UNCHANGED vars
  BY <1>7 DEF vars, Streams, IInv, TypeOK, EndedIsFinal, RawText, SnapshotPrefix,
              RawContent, RawReasoning, isAssistantMessagePending
<1>. QED BY <1>2, <1>3, <1>4, <1>5, <1>6, <1>7 DEF Next

-----------------------------------------------------------------------------
(* Tags and reasoning. *)

\* Content that arrives replaces the reasoning by what its blocks hold, if anything.
LEMMA ContentReads ==
  ASSUME NEW m, DOMAIN m = {"status", "content", "reasoning"}, isAssistantMessagePending(m),
         m.content \in Text, NEW chunk \in Text,
         NEW full, full = Joined(m.content, chunk),
         NEW n, n = applyStreamingChunk(m, "content", chunk)
  PROVE  n.reasoning = IF chunk = << >> \/ ReasoningOf(full) = << >> THEN m.reasoning
                       ELSE ReasoningOf(full)
<1>0. full \in Text
  BY JoinedText
<1>1. /\ parseThinkTags(full).reasoning = ReasoningOf(full)
      /\ ~HasOpenTag(full) => ReasoningOf(full) = << >>
  BY <1>0, ParseIsReference
<1>2. CASE chunk = << >>
  BY <1>2 DEF applyStreamingChunk
<1>3. CASE chunk # << >>
  <2>. DEFINE add == getAppendableChunk(m.content, chunk)
              q == processStreamingContent(m, add)
  <2>1. n = [q EXCEPT !.status = "streaming"]
    BY <1>3 DEF applyStreamingChunk, isAssistantMessagePending
  <2>2. full = m.content \o add
    BY <1>3 DEF Joined
  <2>. HIDE DEF add
  <2>3. q = IF HasOpenTag(full) /\ parseThinkTags(full).reasoning # << >>
            THEN [m EXCEPT !.content = full, !.reasoning = parseThinkTags(full).reasoning]
            ELSE [m EXCEPT !.content = full]
    BY <2>2 DEF processStreamingContent
  <2>. HIDE DEF q
  <2>4. /\ DOMAIN q = {"status", "content", "reasoning"}
        /\ q.reasoning = IF HasOpenTag(full) /\ parseThinkTags(full).reasoning # << >>
                         THEN parseThinkTags(full).reasoning ELSE m.reasoning
    BY <2>3
  <2>5. n.reasoning = q.reasoning
    BY <2>1, <2>4
  <2>. QED BY <1>1, <1>3, <2>4, <2>5
<1>. QED BY <1>2, <1>3

\* After a flush the message has all content, and the reasoning that goes with it.
LEMMA FlushReads ==
  ASSUME Streams, TagsRead, open, repeated = {}, TakenOnFlush = {},
         NEW n, n = Flushed(message)
  PROVE  /\ n.content = sent.content
         /\ sent.reasoning = << >> /\ (cut => ReasoningOf(sent.content) # << >>) =>
              n.reasoning = ReasoningOf(sent.content)
         /\ ReasoningOf(sent.content) = << >> /\ ~cut =>
              n.reasoning \in Text /\ n.reasoning = sent.reasoning
<1>0. TypeOK /\ EndedIsFinal /\ RawText /\ RawContent
  BY DEF Streams
<1>1. isAssistantMessagePending(message) /\ message.content \in Text
  BY <1>0 DEF EndedIsFinal, RawText
<1>2. /\ pending.content \in Text /\ pending.reasoning \in Text
      /\ sent.content \in Text /\ sent.reasoning \in Text
  BY <1>0, Typed
<1>3. /\ pending.content = << >> \/ ~TakenAsSnapshot(message.content, pending.content)
      /\ pending.reasoning = << >> \/ ~TakenAsSnapshot(message.reasoning, pending.reasoning)
  BY DEF TakenOnFlush, Types
<1>4. /\ Joined(message.content, pending.content) = sent.content
      /\ message.content \o pending.content = sent.content
  <2>1. message.content \o pending.content = sent.content
    BY <1>0, <1>1 DEF RawContent
  <2>. QED BY <1>1, <1>2, <1>3, <2>1, JoinedText
<1>. DEFINE m == applyStreamingChunk(message, "reasoning", pending.reasoning)
<1>5. n = applyStreamingChunk(m, "content", pending.content)
  BY DEF Flushed
<1>6. /\ DOMAIN m = {"status", "content", "reasoning"}
      /\ isAssistantMessagePending(m)
      /\ m.content = message.content
      /\ m.reasoning = Joined(message.reasoning, pending.reasoning)
  BY <1>0, <1>1, ReasoningFirst DEF Joined
<1>. HIDE DEF m
<1>7. n.content = sent.content
  <2>1. n.content = Joined(message.content, pending.content)
    BY <1>0, <1>1, FlushJoins
  <2>. QED BY <1>4, <2>1
<1>8. n.reasoning = IF pending.content = << >> \/ ReasoningOf(sent.content) = << >>
                    THEN Joined(message.reasoning, pending.reasoning)
                    ELSE ReasoningOf(sent.content)
  <2>1. sent.content = Joined(m.content, pending.content) /\ m.content \in Text
    BY <1>1, <1>4, <1>6
  <2>. QED BY <1>2, <1>5, <1>6, <2>1, ContentReads
<1>g. ReasoningOf(sent.content) = << >> /\ ~cut => ReasoningOf(message.content) = << >>
  <2>1. ~cut => ~EndsInTag(message.content)
    BY DEF TagsRead
  <2>. QED BY <1>1, <1>2, <1>4, <2>1, ReasoningGrows
<1>9. ASSUME sent.reasoning = << >>, cut => ReasoningOf(sent.content) # << >>
      PROVE  n.reasoning = ReasoningOf(sent.content)
  <2>1. /\ pending.reasoning = << >>
        /\ (cut => ReasoningOf(message.content) # << >>) =>
             message.reasoning = ReasoningOf(message.content)
    BY <1>9 DEF TagsRead
  <2>2. Joined(message.reasoning, pending.reasoning) = message.reasoning
    BY <2>1 DEF Joined
  <2>3. CASE pending.content = << >>
    <3>1. message.content = sent.content
      BY <1>1, <1>4, <2>3, PrefixTrivial
    <3>. QED BY <1>8, <1>9, <2>1, <2>2, <2>3, <3>1
  <2>4. CASE ReasoningOf(sent.content) = << >>
    <3>1. ReasoningOf(message.content) = << >> /\ ~cut
      BY <1>9, <1>g, <2>4
    <3>. QED BY <1>8, <2>1, <2>2, <2>4, <3>1
  <2>. QED BY <1>8, <2>3, <2>4
<1>10. ASSUME ReasoningOf(sent.content) = << >>, ~cut
       PROVE  n.reasoning \in Text /\ n.reasoning = sent.reasoning
  <2>1. message.reasoning \in Text /\ message.reasoning \o pending.reasoning = sent.reasoning
    BY <1>10, <1>g DEF TagsRead
  <2>2. Joined(message.reasoning, pending.reasoning) = message.reasoning \o pending.reasoning
    BY <1>2, <1>3, <2>1, JoinedText
  <2>. QED BY <1>2, <1>8, <1>10, <2>1, <2>2
<1>. QED BY <1>7, <1>9, <1>10

\* A completed message shows what is outside the blocks, and inside them if no
\* reasoning was there before.
LEMMA CompletedText ==
  ASSUME NEW m, DOMAIN m = {"status", "content", "reasoning"}, m.content \in Text,
         NEW n, n = completeAssistantMessage(m)
  PROVE  /\ n.content = VisibleOf(m.content)
         /\ n.reasoning = IF m.reasoning # << >> THEN m.reasoning ELSE ReasoningOf(m.content)
<1>. DEFINE parsed == parseThinkTags(m.content)
            content == IF HasOpenTag(m.content) THEN parsed.visible ELSE m.content
            reasoning == IF m.reasoning # << >> THEN m.reasoning
                         ELSE IF HasOpenTag(m.content) THEN parsed.reasoning ELSE << >>
<1>1. finalizeMessage(m) = [m EXCEPT !.content = content, !.reasoning = reasoning]
  BY DEF finalizeMessage
<1>2. content = VisibleOf(m.content)
  BY ParseIsReference
<1>3. reasoning = IF m.reasoning # << >> THEN m.reasoning ELSE ReasoningOf(m.content)
  BY ParseIsReference
<1>. HIDE DEF content, reasoning
<1>4. n.content = content /\ n.reasoning = reasoning
  BY <1>1 DEF completeAssistantMessage
<1>. QED BY <1>2, <1>3, <1>4

\* What the steps keep of the tags, and the text of an answer that has ended.
Split == Streams /\ TagsRead /\ FinalText

LEMMA InitSplit == Init => Split
<1>. SUFFICES ASSUME Init PROVE Split
  OBVIOUS
<1>1. << >> \in Text /\ << >> \o << >> = << >>
  BY DEF Text
<1>2. ReasoningOf(<< >>) = << >>
  <2>1. ~HasOpenTag(<< >>)
    BY DEF HasOpenTag
  <2>. QED BY <1>1, <2>1, Untagged
<1>3. TagsRead
  BY <1>1, <1>2, NothingWaits DEF TagsRead, Init, EndsInTag
<1>4. FinalText
  BY DEF FinalText, Init
<1>. QED BY <1>3, <1>4, InitStreams DEF Split

\* [DONE] and the stop button.
LEMMA CompleteSplits ==
  ASSUME Streams, TagsRead, open, open' = FALSE, NEW n, n = Flushed(message),
         message' = completeAssistantMessage(n),
         repeated' = repeated \cup TakenOnFlush, UNCHANGED <<sent, cut>>
  PROVE  TagsRead' /\ FinalText'
<1>1. TagsRead'
  BY DEF TagsRead
<1>2. SUFFICES ASSUME repeated' = {}
               PROVE  /\ message'.content = VisibleOf(sent.content)
                      /\ ReasoningOf(sent.content) # << >> /\ sent.reasoning = << >> =>
                           message'.reasoning = ReasoningOf(sent.content)
                      /\ ReasoningOf(sent.content) = << >> /\ ~cut =>
                           message'.reasoning = sent.reasoning
  BY <1>1 DEF FinalText
<1>3. repeated = {} /\ TakenOnFlush = {}
  BY <1>2
<1>4. /\ n.content = sent.content
      /\ sent.reasoning = << >> /\ (cut => ReasoningOf(sent.content) # << >>) =>
           n.reasoning = ReasoningOf(sent.content)
      /\ ReasoningOf(sent.content) = << >> /\ ~cut =>
           n.reasoning \in Text /\ n.reasoning = sent.reasoning
  BY <1>3, FlushReads
<1>5. DOMAIN n = {"status", "content", "reasoning"} /\ sent.content \in Text
  <2>1. TypeOK /\ RawText /\ isAssistantMessagePending(message)
    BY DEF Streams, EndedIsFinal
  <2>. QED BY <2>1, Typed, FlushJoins
<1>6. /\ message'.content = VisibleOf(sent.content)
      /\ message'.reasoning = IF n.reasoning # << >> THEN n.reasoning
                              ELSE ReasoningOf(sent.content)
  BY <1>4, <1>5, CompletedText
<1>. QED BY <1>4, <1>6

\* The timer.
LEMMA TimerSplits ==
  ASSUME Streams, TagsRead, FlushTimer
  PROVE  TagsRead' /\ FinalText'
<1>1. /\ timer /\ pending' = NoChunks /\ message' = Flushed(message)
      /\ repeated' = repeated \cup TakenOnFlush /\ open' = open /\ sent' = sent
      /\ ~cut' => ~cut /\ ~EndsInTag(message'.content)
  BY DEF FlushTimer, flushStreamUpdates
<1>2. open /\ TypeOK /\ RawText /\ isAssistantMessagePending(message)
  BY <1>1 DEF Streams, EndedIsFinal
<1>3. isAssistantMessagePending(message')
  BY <1>1, <1>2, FlushJoins
<1>4. FinalText'
  BY <1>3 DEF FinalText, isAssistantMessagePending
<1>5. TagsRead'
  <2>1. SUFFICES ASSUME repeated' = {}
                 PROVE  /\ /\ sent.reasoning = << >>
                           /\ cut' => ReasoningOf(message'.content) # << >>
                           => message'.reasoning = ReasoningOf(message'.content)
                        /\ ReasoningOf(message'.content) = << >> /\ ~cut' =>
                             /\ message'.reasoning \in Text
                             /\ message'.reasoning \o << >> = sent.reasoning
    BY <1>1, NothingWaits DEF TagsRead
  <2>2. repeated = {} /\ TakenOnFlush = {}
    BY <1>1, <2>1
  <2>3. /\ message'.content = sent.content
        /\ sent.reasoning = << >> /\ (cut => ReasoningOf(sent.content) # << >>) =>
             message'.reasoning = ReasoningOf(sent.content)
        /\ ReasoningOf(sent.content) = << >> /\ ~cut =>
             message'.reasoning \in Text /\ message'.reasoning = sent.reasoning
    BY <1>1, <1>2, <2>2, FlushReads
  <2>. QED BY <1>1, <2>3, PrefixTrivial
<1>. QED BY <1>4, <1>5

\* An event.
LEMMA UpdateSplits ==
  ASSUME Streams, TagsRead, NEW type \in Types, NEW chunk \in Chunks[type],
         HandleStreamUpdate(type, chunk)
  PROVE  TagsRead' /\ FinalText'
<1>1. /\ open /\ message' = message /\ cut' = cut
      /\ pending' = [pending EXCEPT ![type] = mergePendingStreamChunk(@, chunk)]
      /\ sent' = [sent EXCEPT ![type] = @ \o chunk]
      /\ repeated' = IF TakenAsSnapshot(pending[type], chunk)
                     THEN repeated \cup {type} ELSE repeated
  BY DEF HandleStreamUpdate
<1>2. TypeOK /\ isAssistantMessagePending(message)
  BY <1>1 DEF Streams, EndedIsFinal
<1>3. FinalText'
  BY <1>1, <1>2 DEF FinalText, isAssistantMessagePending
<1>4. /\ chunk \in Text /\ chunk # << >>
      /\ pending \in [Types -> Text] /\ sent \in [Types -> Text]
      /\ pending.reasoning \in Text /\ sent.reasoning \in Text /\ sent.content \in Text
  BY <1>2, ChunkIsText, Typed DEF TypeOK
<1>5. TagsRead'
  <2>1. SUFFICES ASSUME repeated' = {}
                 PROVE  /\ sent'.reasoning = << >> =>
                             /\ pending'.reasoning = << >>
                             /\ (cut => ReasoningOf(message.content) # << >>) =>
                                  message.reasoning = ReasoningOf(message.content)
                        /\ ReasoningOf(message.content) = << >> /\ ~cut =>
                             /\ message.reasoning \in Text
                             /\ message.reasoning \o pending'.reasoning = sent'.reasoning
    BY <1>1 DEF TagsRead
  <2>2. repeated = {} /\ ~TakenAsSnapshot(pending[type], chunk)
    BY <1>1, <2>1
  <2>3. /\ sent.reasoning = << >> =>
             /\ pending.reasoning = << >>
             /\ (cut => ReasoningOf(message.content) # << >>) =>
                  message.reasoning = ReasoningOf(message.content)
        /\ ReasoningOf(message.content) = << >> /\ ~cut =>
             message.reasoning \in Text /\ message.reasoning \o pending.reasoning = sent.reasoning
    BY <1>1, <2>2 DEF TagsRead
  <2>4. CASE type = "content"
    <3>1. /\ pending'.reasoning = pending.reasoning /\ sent'.reasoning = sent.reasoning
          /\ sent'.content = sent.content \o chunk
      BY <1>1, <1>4, <2>4 DEF Types
    <3>. QED BY <2>3, <3>1
  <2>5. CASE type = "reasoning"
    <3>1. /\ sent'.content = sent.content
          /\ sent'.reasoning = sent.reasoning \o chunk
          /\ pending'.reasoning = mergePendingStreamChunk(pending.reasoning, chunk)
      BY <1>1, <1>4, <2>5 DEF Types
    <3>2. pending'.reasoning = pending.reasoning \o chunk
      BY <1>4, <2>2, <2>5, <3>1, Merged
    <3>3. sent.reasoning \o chunk # << >>
      BY <1>4 DEF Text
    <3>4. ASSUME message.reasoning \in Text
          PROVE  message.reasoning \o (pending.reasoning \o chunk)
                   = (message.reasoning \o pending.reasoning) \o chunk
      BY <1>4, <3>4, Associative
    <3>. QED BY <2>3, <3>1, <3>2, <3>3, <3>4
  <2>. QED BY <2>4, <2>5 DEF Types
<1>. QED BY <1>3, <1>5

\* One case per event of the answer.
LEMMA StepSplit == Split /\ [Next]_vars => Split'
<1>. SUFFICES ASSUME Split, [Next]_vars PROVE Split'
  OBVIOUS
<1>0. Streams /\ TagsRead /\ FinalText
  BY DEF Split
<1>1. Streams'
  BY <1>0, StepStreams
<1>2. CASE \E type \in Types : \E chunk \in Chunks[type] : HandleStreamUpdate(type, chunk)
  BY <1>0, <1>1, <1>2, UpdateSplits DEF Split
<1>3. CASE FlushTimer
  BY <1>0, <1>1, <1>3, TimerSplits DEF Split
<1>4. ASSUME open
      PROVE  isAssistantMessagePending(Flushed(message))
  <2>1. TypeOK /\ RawText /\ isAssistantMessagePending(message)
    BY <1>0, <1>4 DEF Streams, EndedIsFinal
  <2>. QED BY <1>4, <2>1, FlushJoins
<1>5. CASE HandleStreamComplete \/ StopGeneration
  <2>. DEFINE n == Flushed(message)
  <2>1. open /\ open' = FALSE /\ repeated' = repeated \cup TakenOnFlush
        /\ sent' = sent /\ cut' = cut
    BY <1>5 DEF HandleStreamComplete, StopGeneration, flushStreamUpdates
  <2>2. message' = completeAssistantMessage(n)
    <3>1. CASE HandleStreamComplete
      <4>1. message' = IF isAssistantMessageFinal(n) THEN n ELSE completeAssistantMessage(n)
        BY <3>1 DEF HandleStreamComplete, flushStreamUpdates
      <4>. QED BY <1>4, <2>1, <4>1 DEF isAssistantMessagePending, isAssistantMessageFinal
    <3>2. CASE StopGeneration
      <4>1. message' = IF isAssistantMessagePending(n) THEN completeAssistantMessage(n) ELSE n
        BY <3>2 DEF StopGeneration, flushStreamUpdates
      <4>. QED BY <1>4, <2>1, <4>1
    <3>. QED BY <1>5, <3>1, <3>2
  <2>. HIDE DEF n
  <2>3. n = Flushed(message)
    BY DEF n
  <2>4. TagsRead' /\ FinalText'
    BY <1>0, <2>1, <2>2, <2>3, CompleteSplits
  <2>. QED BY <1>1, <2>4 DEF Split
<1>6. CASE HandleStreamError
  <2>1. open' = FALSE /\ message' = updateAssistantMessageWithError(Flushed(message))
    BY <1>6 DEF HandleStreamError, flushStreamUpdates
  <2>2. message'.status = "error" \/ ~(message'.status = "complete")
    BY <2>1 DEF updateAssistantMessageWithError
  <2>3. TagsRead' /\ FinalText'
    BY <2>1, <2>2 DEF TagsRead, FinalText
  <2>. QED BY <1>1, <2>3 DEF Split
<1>7. CASE UNCHANGED vars
  BY <1>0, <1>1, <1>7 DEF vars, Split, TagsRead, FinalText
<1>. QED BY <1>2, <1>3, <1>5, <1>6, <1>7 DEF Next

-----------------------------------------------------------------------------
(* The theorems. *)

\* Every reachable state of a streamed answer satisfies the invariant: a chunk that
\* waits has its timer, an ended answer has neither, and the page has a beginning
\* of the last of cumulative chunks.
THEOREM Invariance == Spec => []IInv
<1>1. Split => IInv
  BY DEF Split, Streams, IInv
<1>. QED BY <1>1, InitSplit, StepSplit, PTL DEF Spec

\* The deltas reach the page whole and in order, wherever the flush timer of
\* use-chat-handler.ts falls between them: the content's unless one is taken for a
\* snapshot, reasoning_content's also unless a <think> tag on the page replaces them.
THEOREM DeltasKept == Spec => []DeltasShown
<1>1. Streams => DeltasShown
  BY DEF Streams, DeltasShown
<1>. QED BY <1>1, InitStreams, StepStreams, PTL DEF Spec

\* An upstream that repeats the whole answer in every chunk is shown the last of
\* them, once: mergePendingStreamChunk and getAppendableChunk never append to it.
THEOREM SnapshotsShown == Spec => []SnapshotContent
<1>1. ASSUME Streams PROVE SnapshotContent
  <2>0. TypeOK /\ EndedIsFinal /\ RawText /\ SnapshotPrefix
    BY <1>1 DEF Streams
  <2>1. SUFFICES ASSUME cumulative, isAssistantMessagePending(message)
                 PROVE message.content \o getAppendableChunk(message.content, pending.content) = latest
    BY DEF SnapshotContent, Shown
  <2>2. open
    BY <2>0, <2>1 DEF EndedIsFinal
  <2>3. /\ message.content \in Text /\ pending.content \in Text /\ latest \in Text
        /\ StartsWith(latest, message.content)
        /\ pending.content = latest \/ (pending.content = << >> /\ message.content = latest)
    BY <2>0, <2>1, <2>2, Typed DEF SnapshotPrefix, RawText, TypeOK
  <2>4. CASE pending.content = latest
    BY <2>3, <2>4, Appendable
  <2>5. CASE pending.content = << >> /\ message.content = latest
    <3>1. CASE latest = << >>
      BY <2>3, <2>5, <3>1, Appendable, PrefixTrivial
    <3>2. CASE latest # << >>
      <4>1. ~TakenAsSnapshot(message.content, pending.content)
        BY <2>3, <2>5, <3>2, PrefixTrivial DEF TakenAsSnapshot
      <4>2. getAppendableChunk(message.content, pending.content) = << >>
        BY <2>3, <2>5, <4>1, Appendable
      <4>. QED BY <2>3, <2>5, <4>2, PrefixTrivial
    <3>. QED BY <3>1, <3>2
  <2>. QED BY <2>3, <2>4, <2>5
<1>. QED BY <1>1, InitStreams, StepStreams, PTL DEF Spec

\* An answer that ends with [DONE] or is stopped shows the text outside its <think>
\* blocks, and as its reasoning the text inside them or the reasoning_content deltas,
\* for any text, cut into chunks and flushed in any way, inside a tag too; only the
\* reasoning of blocks without text is left open when a flush ended inside the
\* </think> of one (finalizeMessage, processStreamingContent, parseThinkTags).
THEOREM AnswerEndsSplit == Spec => []FinalText
<1>1. Split => FinalText
  BY DEF Split
<1>. QED BY <1>1, InitSplit, StepSplit, PTL DEF Spec
=============================================================================
