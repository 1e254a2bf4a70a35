-------------------------- MODULE FeedWindowProofs --------------------------
(* The real feed in its window, for all captions, window sizes and orders of *)
(* messages: what pal/pal_win32.c promises any feed, put together with what  *)
(* the three walks of ui/feed.c over the cards have in common; what of its   *)
(* caption a card shows; what the calls that draw the cards change; and that *)
(* texts, cards and bars are drawn as they are measured.                     *)
EXTENDS FeedWindow, MCCaption, MCRaster, MCDrawing, WellFoundedInduction, SequenceTheorems, TLAPS

Pal == INSTANCE PalWindowProofs WITH
  ChromeH <- ChromeHeight,
  Users <- Feeds,
  InitUser <- [i \in Posts |-> FALSE],
  Renderings <- BOOLEAN

-----------------------------------------------------------------------------
(* Induction over the naturals, by the least element of a set of them.       *)

Below == {ss \in Nat \X Nat : ss[1] < ss[2]}

(* No number has infinitely many below it. *)
LEMMA BelowIsWellFounded == IsWellFoundedOn(Below, Nat)
BY NatLessThanWellFounded DEF OpToRel, Below

(* A set of naturals has a least element. *)
LEMMA LeastNatural ==
  ASSUME NEW T, T \subseteq Nat, T # {}
  PROVE  \E m \in T : \A k \in T : m <= k
<1>1. PICK m \in T : \A k \in T : <<k, m>> \notin Below
  BY BelowIsWellFounded, WFMin
<1>2. ASSUME NEW k \in T PROVE m <= k
  <2>1. ~(k < m)
    BY <1>1 DEF Below
  <2>2. QED
    BY <2>1
<1>3. QED
  BY <1>1, <1>2

(* A set that holds a, and each number up to n after the one before it,     *)
(* holds all of them.                                                       *)
LEMMA UpFrom ==
  ASSUME NEW a \in Nat, NEW n \in Nat, NEW T, a \in T,
         \A i \in a .. n : i # a /\ i - 1 \in T => i \in T
  PROVE  a .. n \subseteq T
<1>1. SUFFICES ASSUME NEW S, S = (a .. n) \ T, S # {} PROVE FALSE
  OBVIOUS
<1>2. PICK m \in S : \A k \in S : m <= k
  <2>1. S \subseteq Nat
    BY <1>1
  <2>2. QED
    BY <1>1, <2>1, LeastNatural
<1>3. m - 1 \in a .. n /\ m # a /\ m \in a .. n
  BY <1>1, <1>2
<1>4. m - 1 \in T
  BY <1>1, <1>2, <1>3
<1>5. QED
  BY <1>1, <1>2, <1>3, <1>4

-----------------------------------------------------------------------------
(* Recursive functions                                                       *)

(* A sum of integers, with a gap after each.                                *)
IsSum(f, a, n, first, part, gap) ==
  \A i \in a .. n : f[i] = IF i = a THEN first ELSE f[i - 1] + part[i] + gap

AreInts(part, a, n) == \A i \in a .. n : i # a => part[i] \in Int

(* It exists, and is one of integers. *)
LEMMA SumsExist ==
  ASSUME NEW a \in Nat, NEW n \in Nat, NEW first \in Int, NEW part, NEW gap \in Int,
         AreInts(part, a, n)
  PROVE  \E f \in [a .. n -> Int] : IsSum(f, a, n, first, part, gap)
<1> DEFINE Sum(f, k) == f \in [a .. k -> Int] /\ IsSum(f, a, k, first, part, gap)
           T == {k \in a .. n : \E f : Sum(f, k)}
<1> USE DEF IsSum, AreInts
<1>1. CASE n < a
  <2>1. PICK f : f = [i \in a .. n |-> first]
    OBVIOUS
  <2>2. f \in [a .. n -> Int] /\ a .. n = {}
    BY <1>1, <2>1
  <2>3. QED
    BY <2>2
<1>2. CASE a <= n
  <2>1. a \in T
    <3>1. PICK f : f = [i \in a .. a |-> first]
      OBVIOUS
    <3>2. Sum(f, a)
      BY <3>1
    <3>3. QED
      BY <1>2, <3>2
  <2>2. ASSUME NEW i \in a .. n, i # a, i - 1 \in T PROVE i \in T
    <3>1. PICK f : Sum(f, i - 1)
      BY <2>2
    <3> DEFINE g == [k \in a .. i |-> IF k = i THEN f[i - 1] + part[i] + gap ELSE f[k]]
    <3>2. i - 1 \in a .. i - 1 /\ i - 1 \in a .. i
      BY <2>2
    <3>3. f[i - 1] + part[i] + gap \in Int
      BY <2>2, <3>1, <3>2
    <3>4. g \in [a .. i -> Int]
      BY <3>1, <3>3
    <3>5. ASSUME NEW k \in a .. i
          PROVE  g[k] = IF k = a THEN first ELSE g[k - 1] + part[k] + gap
      <4>1. CASE k = i
        BY <2>2, <3>1, <3>2, <4>1
      <4>2. CASE k # i
        <5>1. k \in a .. i - 1 /\ f[k] = IF k = a THEN first ELSE f[k - 1] + part[k] + gap
          BY <3>1, <4>2
        <5>2. k = a \/ (k - 1 \in a .. i /\ k - 1 # i)
          BY <4>2
        <5>3. QED
          BY <4>2, <5>1, <5>2
      <4>3. QED
        BY <4>1, <4>2
    <3>6. QED
      BY <3>4, <3>5
  <2>3. n \in T
    <3> HIDE DEF T
    <3>1. a .. n \subseteq T
      BY <2>1, <2>2, UpFrom
    <3>2. QED
      BY <1>2, <3>1
  <2>4. QED
    BY <2>3
<1>3. a <= n \/ n < a
  OBVIOUS
<1>4. QED
  BY <1>1, <1>2, <1>3, Zenon

(* Whatever is such a sum is made of integers.                              *)
LEMMA SumsAreInts ==
  ASSUME NEW a \in Nat, NEW n \in Nat, NEW first \in Int, NEW part, NEW gap \in Int,
         AreInts(part, a, n),
         NEW f, IsSum(f, a, n, first, part, gap)
  PROVE  \A i \in a .. n : f[i] \in Int
<1>1. SUFFICES ASSUME NEW k \in a .. n PROVE f[k] \in Int
  OBVIOUS
<1> DEFINE T == {i \in a .. n : f[i] \in Int}
<1>2. a \in T
  BY <1>1 DEF IsSum
<1>3. ASSUME NEW i \in a .. n, i # a, i - 1 \in T PROVE i \in T
  BY <1>3 DEF IsSum, AreInts
<1>4. a .. n \subseteq T
  <2> HIDE DEF T
  <2>1. QED
    BY <1>2, <1>3, UpFrom
<1>5. QED
  BY <1>4

(* So does a list that is built from its end: at each place an item, then    *)
(* the list from a later place on.                                           *)
Onward(n, S, item, next) == \A p \in 1 .. n : item[p] \in S /\ next[p] \in p + 1 .. n + 1
IsChain(f, n, item, next) ==
  \A p \in 1 .. n + 1 : f[p] = IF p > n THEN << >> ELSE <<item[p]>> \o f[next[p]]

(* Such a function exists whatever the items are: it is defined from the    *)
(* end, where the list is empty, to the front.                              *)
LEMMA ChainsExist ==
  ASSUME NEW n \in Nat, NEW S, NEW item, NEW next, Onward(n, S, item, next)
  PROVE  \E f \in [1 .. n + 1 -> Seq(S)] : IsChain(f, n, item, next)
<1> DEFINE From(k) == n + 1 - k .. n + 1
           Chain(f, k) ==
             /\ f \in [From(k) -> Seq(S)]
             /\ \A p \in From(k) : f[p] = IF p > n THEN << >> ELSE <<item[p]>> \o f[next[p]]
           T == {k \in 0 .. n : \E f : Chain(f, k)}
<1> USE DEF Onward
<1>1. 0 \in T
  <2>1. PICK f : f = [p \in n + 1 .. n + 1 |-> << >>]
    OBVIOUS
  <2>2. << >> \in Seq(S)
    BY EmptySeq
  <2>3. Chain(f, 0)
    BY <2>1, <2>2
  <2> HIDE DEF Chain
  <2>4. QED
    BY <2>3
<1>2. ASSUME NEW k \in 0 .. n, k # 0, k - 1 \in T PROVE k \in T
  <2>1. PICK f : Chain(f, k - 1)
    BY <1>2
  <2> DEFINE m == n + 1 - k
             g == [p \in m .. n + 1 |-> IF p = m THEN <<item[m]>> \o f[next[m]] ELSE f[p]]
  <2>2. m \in 1 .. n /\ From(k - 1) = m + 1 .. n + 1 /\ From(k) = m .. n + 1
    BY <1>2
  <2> HIDE DEF m
  <2>3. f \in [m + 1 .. n + 1 -> Seq(S)]
    BY <2>1, <2>2
  <2>4. \A p \in m + 1 .. n + 1 : f[p] = IF p > n THEN << >> ELSE <<item[p]>> \o f[next[p]]
    BY <2>1, <2>2
  <2>5. <<item[m]>> \o f[next[m]] \in Seq(S)
    <3>1. <<item[m]>> \in Seq(S) /\ f[next[m]] \in Seq(S)
      BY <2>2, <2>3
    <3>2. QED
      BY <3>1, ConcatProperties
  <2>6. g \in [m .. n + 1 -> Seq(S)]
    BY <2>2, <2>3, <2>5
  <2>7. ASSUME NEW p \in m .. n + 1
        PROVE  g[p] = IF p > n THEN << >> ELSE <<item[p]>> \o g[next[p]]
    <3>1. p <= n => next[p] \in m + 1 .. n + 1
      BY <2>2
    <3>2. p <= n => g[next[p]] = f[next[p]]
      BY <2>2, <3>1
    <3>3. CASE p = m
      BY <2>2, <3>2, <3>3
    <3>4. CASE p # m
      <4>1. p \in m + 1 .. n + 1
        BY <2>2, <3>4
      <4>2. g[p] = f[p]
        BY <3>4
      <4>3. QED
        BY <2>4, <3>2, <4>1, <4>2
    <3>5. QED
      BY <3>3, <3>4
  <2>8. Chain(g, k)
    BY <2>2, <2>6, <2>7
  <2>9. QED
    BY <2>8
<1>3. n \in T
  <2> HIDE DEF T
  <2>1. 0 .. n \subseteq T
    BY <1>1, <1>2, UpFrom
  <2>2. QED
    BY <2>1
<1>4. PICK f : Chain(f, n)
  BY <1>3
<1>5. From(n) = 1 .. n + 1
  OBVIOUS
<1>6. QED
  BY <1>4, <1>5 DEF IsChain

(* A function that is such a list at every place has only sequences.        *)
LEMMA ChainsAreSeqs ==
  ASSUME NEW n \in Nat, NEW S, NEW item, NEW next, NEW f,
         Onward(n, S, item, next), IsChain(f, n, item, next)
  PROVE  \A p \in 1 .. n + 1 : f[p] \in Seq(S)
<1> DEFINE T == {k \in 0 .. n : \A p \in n + 1 - k .. n + 1 : f[p] \in Seq(S)}
<1> USE DEF Onward, IsChain
<1>1. 0 \in T
  <2>1. n + 1 - 0 .. n + 1 = {n + 1} /\ n + 1 \in 1 .. n + 1 /\ n + 1 > n
    OBVIOUS
  <2>2. f[n + 1] \in Seq(S)
    BY <2>1, EmptySeq
  <2>3. QED
    BY <2>1, <2>2
<1>2. ASSUME NEW k \in 0 .. n, k # 0, k - 1 \in T PROVE k \in T
  <2>1. PICK m \in 1 .. n : m = n + 1 - k
    BY <1>2
  <2>2. \A p \in m + 1 .. n + 1 : f[p] \in Seq(S)
    BY <1>2, <2>1
  <2>3. f[m] \in Seq(S)
    <3>1. f[m] = <<item[m]>> \o f[next[m]]
      <4>1. m \in 1 .. n + 1 /\ ~(m > n)
        OBVIOUS
      <4>2. QED
        BY <4>1
    <3>3. <<item[m]>> \in Seq(S) /\ f[next[m]] \in Seq(S)
      BY <2>2
    <3>2. QED
      BY <3>1, <3>3, ConcatProperties
  <2>4. \A p \in m .. n + 1 : f[p] \in Seq(S)
    BY <2>2, <2>3
  <2>5. QED
    BY <2>1, <2>4
<1>3. n \in T
  <2> HIDE DEF T
  <2>1. 0 .. n \subseteq T
    BY <1>1, <1>2, UpFrom
  <2>2. QED
    BY <2>1
<1>4. QED
  BY <1>3

-----------------------------------------------------------------------------
(* Captions and cards                                                        *)

Glyphs == DOMAIN Adv
Runs == [off : Nat, len : Int]

(* The least of some naturals is one of them and no more than the others.    *)
LEMMA LeastIsLeast ==
  ASSUME NEW T, T \subseteq Nat, T # {}
  PROVE  Least(T) \in T /\ \A k \in T : Least(T) <= k
BY LeastNatural DEF Least

(* measure stops within the caption; it takes no glyph at all only at a      *)
(* break.                                                                    *)
LEMMA FitEndStops ==
  ASSUME NEW c \in Seq(Glyphs), NEW p \in 1 .. Len(c), NEW maxw
  PROVE  /\ FitEnd(c, p, maxw) \in p .. Len(c) + 1
         /\ FitEnd(c, p, maxw) = p => c[p] = Break
<1>1. Len(c) \in Nat
  BY LenProperties
<1> DEFINE adv == Advance(c)
           stops(q) == \/ q > Len(c)
                       \/ c[q] = Break
                       \/ maxw >= 0 /\ q > p /\ adv[q] - adv[p - 1] - 1 > maxw
           T == {q \in p .. Len(c) + 1 : stops(q)}
<1>2. FitEnd(c, p, maxw) = Least(T)
  BY DEF FitEnd
<1>3. T \subseteq Nat /\ Len(c) + 1 \in T
  BY <1>1
<1>4. Least(T) \in T
  <2> HIDE DEF T
  <2>1. QED
    BY <1>3, LeastIsLeast
<1>5. p \in T => c[p] = Break
  BY <1>1
<1>6. QED
  BY <1>2, <1>4, <1>5

(* The line that begins at a glyph, and where the next one begins.           *)
LineAt(c, maxw) == [p \in 1 .. Len(c) |-> [off |-> p, len |-> FitEnd(c, p, maxw) - p]]
Onwards(c, maxw) ==
  [p \in 1 .. Len(c) |->
     LET q == FitEnd(c, p, maxw) IN IF q <= Len(c) /\ c[q] = Break THEN q + 1 ELSE q]

(* A line is a run of the caption, and the next begins after it. *)
LEMMA LinesGoOnward ==
  ASSUME NEW c \in Seq(Glyphs), NEW maxw
  PROVE  Onward(Len(c), Runs, LineAt(c, maxw), Onwards(c, maxw))
<1> DEFINE n == Len(c)
           end(p) == FitEnd(c, p, maxw)
<1>1. n \in Nat
  BY LenProperties
<1>2. SUFFICES ASSUME NEW p \in 1 .. n
               PROVE  LineAt(c, maxw)[p] \in Runs /\ Onwards(c, maxw)[p] \in p + 1 .. n + 1
  BY DEF Onward
<1>3. end(p) \in p .. n + 1 /\ (end(p) = p => c[p] = Break)
  BY FitEndStops
<1>4. /\ LineAt(c, maxw)[p] = [off |-> p, len |-> end(p) - p]
      /\ Onwards(c, maxw)[p] = IF end(p) <= n /\ c[end(p)] = Break THEN end(p) + 1 ELSE end(p)
  BY DEF LineAt, Onwards
<1> HIDE DEF end, n
<1>5. QED
  BY <1>1, <1>3, <1>4 DEF Runs

(* wrap_caption ends, and its lines follow one another up to the cap.        *)
LEMMA WrapIsChain ==
  ASSUME NEW c \in Seq(Glyphs), NEW maxw
  PROVE  \E f : /\ IsChain(f, Len(c), LineAt(c, maxw), Onwards(c, maxw))
                /\ WrapCaption(c, maxw) = IF Len(f[1]) > LinesHardCap
                                          THEN SubSeq(f[1], 1, LinesHardCap) ELSE f[1]
<1> DEFINE n == Len(c)
           item == LineAt(c, maxw)
           next == Onwards(c, maxw)
<1>1. n \in Nat
  BY LenProperties
<1>2. Onward(n, Runs, item, next)
  BY LinesGoOnward
<1> DEFINE Lines(f) == f = [p \in 1 .. n + 1 |->
                             IF p > n THEN << >>
                             ELSE LET q == FitEnd(c, p, maxw)
                                      m == IF q <= n /\ c[q] = Break THEN q + 1 ELSE q
                                  IN <<[off |-> p, len |-> q - p]>> \o f[m]]
           rest == CHOOSE f : Lines(f)
<1>3. \A f : \A p \in 1 .. n : <<item[p]>> \o f[next[p]] =
        LET q == FitEnd(c, p, maxw)
            m == IF q <= n /\ c[q] = Break THEN q + 1 ELSE q
        IN <<[off |-> p, len |-> q - p]>> \o f[m]
  BY DEF LineAt, Onwards
<1>4. \E f : Lines(f)
  <2>1. PICK f \in [1 .. n + 1 -> Seq(Runs)] : IsChain(f, n, item, next)
    <3> HIDE DEF item, next, n
    <3>1. QED
      BY <1>1, <1>2, ChainsExist
  <2>2. \A p \in 1 .. n + 1 : ~(p > n) => p \in 1 .. n
    BY <1>1
  <2>3. Lines(f)
    <3> HIDE DEF n, item, next
    <3>1. QED
      BY <1>3, <2>1, <2>2 DEF IsChain
  <2>4. QED
    BY <2>3
<1>5. Lines(rest)
  BY <1>4
<1>6. IsChain(rest, n, item, next)
  <2>1. SUFFICES ASSUME NEW p \in 1 .. n + 1
                 PROVE  rest[p] = IF p > n THEN << >> ELSE <<item[p]>> \o rest[next[p]]
    BY DEF IsChain
  <2> HIDE DEF rest, item, next
  <2>2. CASE p > n
    BY <1>5, <2>2
  <2>3. CASE ~(p > n)
    <3>1. p \in 1 .. n
      BY <1>1, <2>3
    <3>2. QED
      BY <1>3, <1>5, <2>3, <3>1
  <2>4. QED
    BY <2>2, <2>3
<1>7. WrapCaption(c, maxw) = IF Len(rest[1]) > LinesHardCap THEN SubSeq(rest[1], 1, LinesHardCap) ELSE rest[1]
  BY DEF WrapCaption
<1> HIDE DEF rest
<1>8. QED
  BY <1>6, <1>7

(* wrap_caption gives a list of lines.                                       *)
LEMMA WrapIsLines ==
  ASSUME NEW c \in Seq(Glyphs), NEW maxw
  PROVE  WrapCaption(c, maxw) \in Seq(Runs) /\ Len(WrapCaption(c, maxw)) \in 0 .. LinesHardCap
<1>1. PICK f : /\ IsChain(f, Len(c), LineAt(c, maxw), Onwards(c, maxw))
               /\ WrapCaption(c, maxw) = IF Len(f[1]) > LinesHardCap
                                         THEN SubSeq(f[1], 1, LinesHardCap) ELSE f[1]
  BY WrapIsChain
<1>2. PICK n \in Nat : n = Len(c)
  BY LenProperties
<1>3. \A p \in 1 .. n + 1 : f[p] \in Seq(Runs)
  BY <1>1, <1>2, LinesGoOnward, ChainsAreSeqs
<1>4. f[1] \in Seq(Runs)
  BY <1>3
<1>5. QED
  BY <1>1, <1>4, CaptionAssumption, LenProperties, SubSeqProperties

(* In such a list each item is followed by the next, and the last one by     *)
(* nothing.                                                                  *)
IsLinked(s, p, n, item, next) ==
  /\ p <= n => Len(s) > 0 /\ s[1] = item[p]
  /\ \A i \in 1 .. Len(s) : \E at \in 1 .. n :
       /\ s[i] = item[at]
       /\ i < Len(s) => next[at] \in 1 .. n /\ s[i + 1] = item[next[at]]
       /\ i = Len(s) => next[at] = n + 1

(* An item before a linked list makes a linked list.                         *)
LEMMA LinkOneMore ==
  ASSUME NEW n \in Nat, NEW S, NEW item, NEW next, Onward(n, S, item, next),
         NEW m \in 1 .. n, NEW t \in Seq(S), IsLinked(t, next[m], n, item, next),
         next[m] > n => t = << >>
  PROVE  IsLinked(<<item[m]>> \o t, m, n, item, next)
<1>1. PICK s : s = <<item[m]>> \o t
  OBVIOUS
<1>2. PICK k \in Nat : k = Len(t)
  BY LenProperties
<1>3. item[m] \in S /\ next[m] \in m + 1 .. n + 1
  BY DEF Onward
<1>4. /\ Len(s) = k + 1 /\ s[1] = item[m]
      /\ \A i \in 1 .. k : s[i + 1] = t[i]
  <2>1. <<item[m]>> \in Seq(S) /\ Len(<<item[m]>>) = 1 /\ <<item[m]>>[1] = item[m]
    BY <1>3
  <2>2. PICK u \in Seq(S) : u = <<item[m]>> /\ Len(u) = 1 /\ u[1] = item[m]
    BY <2>1
  <2>3. s = u \o t
    BY <1>1, <2>2
  <2>4. QED
    BY <1>2, <2>2, <2>3, ConcatProperties
<1>5. next[m] <= n => k > 0 /\ t[1] = item[next[m]]
  BY <1>2 DEF IsLinked
<1>6. next[m] > n => k = 0 /\ next[m] = n + 1
  <2>1. Len(<< >>) = 0
    OBVIOUS
  <2>2. QED
    BY <1>2, <1>3, <2>1
<1>7. ASSUME NEW i \in 1 .. k + 1
      PROVE  \E at \in 1 .. n :
               /\ s[i] = item[at]
               /\ i < k + 1 => next[at] \in 1 .. n /\ s[i + 1] = item[next[at]]
               /\ i = k + 1 => next[at] = n + 1
  <2>1. CASE i = 1
    <3>1. next[m] <= n \/ next[m] > n
      BY <1>3
    <3>2. CASE next[m] <= n
      <4>1. next[m] \in 1 .. n /\ s[2] = item[next[m]] /\ i < k + 1 /\ i # k + 1
        <5>1. 1 \in 1 .. k /\ 1 + 1 = 2
          BY <1>5, <3>2
        <5>2. s[2] = t[1]
          BY <1>4, <5>1
        <5>3. QED
          BY <1>3, <1>5, <2>1, <3>2, <5>1, <5>2
      <4>2. QED
        BY <1>4, <2>1, <4>1
    <3>3. CASE next[m] > n
      BY <1>4, <1>6, <2>1, <3>3
    <3>4. QED
      BY <3>1, <3>2, <3>3
  <2>2. CASE i # 1
    <3>1. PICK j \in 1 .. k : i = j + 1
      BY <2>2
    <3>2. PICK at \in 1 .. n :
            /\ t[j] = item[at]
            /\ j < k => next[at] \in 1 .. n /\ t[j + 1] = item[next[at]]
            /\ j = k => next[at] = n + 1
      BY <1>2 DEF IsLinked
    <3>3. s[i] = t[j] /\ (j < k => s[i + 1] = t[j + 1])
      BY <1>4, <3>1
    <3>4. (i < k + 1 <=> j < k) /\ (i = k + 1 <=> j = k)
      BY <3>1
    <3>5. QED
      BY <3>2, <3>3, <3>4
  <2>3. QED
    BY <2>1, <2>2
<1>8. m <= n => Len(s) > 0 /\ s[1] = item[m]
  BY <1>4
<1>9. IsLinked(s, m, n, item, next)
  BY <1>4, <1>7, <1>8 DEF IsLinked
<1>10. QED
  BY <1>1, <1>9

(* So a list that is built from its end is linked from any place on.         *)
LEMMA ChainsLink ==
  ASSUME NEW n \in Nat, NEW S, NEW item, NEW next, NEW f,
         Onward(n, S, item, next), IsChain(f, n, item, next)
  PROVE  \A p \in 1 .. n + 1 : IsLinked(f[p], p, n, item, next)
<1> DEFINE Linked(p) == IsLinked(f[p], p, n, item, next)
           T == {k \in 0 .. n : \A p \in n + 1 - k .. n + 1 : Linked(p)}
<1>1. f[n + 1] = << >>
  <2>1. n + 1 \in 1 .. n + 1 /\ n + 1 > n
    OBVIOUS
  <2>2. QED
    BY <2>1 DEF IsChain
<1>2. 0 \in T
  <2>1. n + 1 - 0 .. n + 1 = {n + 1} /\ ~(n + 1 <= n)
    OBVIOUS
  <2>2. Len(<< >>) = 0 /\ 1 .. 0 = {}
    OBVIOUS
  <2>3. Linked(n + 1)
    BY <1>1, <2>1, <2>2 DEF IsLinked
  <2> HIDE DEF Linked
  <2>4. QED
    BY <2>1, <2>3
<1>3. ASSUME NEW k \in 0 .. n, k # 0, k - 1 \in T PROVE k \in T
  <2>1. PICK m \in 1 .. n : m = n + 1 - k
    BY <1>3
  <2> HIDE DEF Linked
  <2>2. \A p \in m + 1 .. n + 1 : Linked(p)
    BY <1>3, <2>1
  <2>3. Linked(m)
    <3>1. f[m] = <<item[m]>> \o f[next[m]]
      <4>1. m \in 1 .. n + 1 /\ ~(m > n)
        OBVIOUS
      <4>2. QED
        BY <4>1 DEF IsChain
    <3>2. next[m] \in m + 1 .. n + 1
      BY DEF Onward
    <3>3. next[m] > n => f[next[m]] = << >>
      BY <1>1, <3>2
    <3>4. f[next[m]] \in Seq(S)
      <4>1. next[m] \in 1 .. n + 1
        BY <3>2
      <4>2. QED
        BY <4>1, ChainsAreSeqs
    <3>5. IsLinked(f[next[m]], next[m], n, item, next)
      BY <2>2, <3>2 DEF Linked
    <3>6. QED
      BY <3>1, <3>3, <3>4, <3>5, LinkOneMore DEF Linked
  <2>4. \A p \in m .. n + 1 : Linked(p)
    BY <2>2, <2>3
  <2>5. QED
    BY <2>1, <2>4
<1>4. n \in T
  <2> HIDE DEF T
  <2>1. 0 .. n \subseteq T
    BY <1>2, <1>3, UpFrom
  <2>2. QED
    BY <2>1
<1> HIDE DEF Linked
<1>5. \A p \in 1 .. n + 1 : Linked(p)
  BY <1>4
<1>6. QED
  BY <1>5 DEF Linked

(* A card has a height at every width the buffer can have. *)
LEMMA CardHeights ==
  ASSUME NEW width \in Widths, NEW i \in Posts, NEW expanded \in BOOLEAN
  PROVE  CardHeight[width][i][expanded] \in Nat \ {0}
<1> DEFINE inner == CardWidth(width) - 2 * PostPad
           total == Len(WrapCaption(Captions[i], inner))
           lines == VisibleLines(total, expanded)
<1>1. width \in Nat /\ Captions[i] \in Seq(Glyphs)
  BY FeedAssumption, LenProperties DEF Posts, Glyphs
<1>2. total \in Nat
  BY <1>1, CaptionAssumption, WrapIsLines
<1>3. lines \in Nat
  <2> HIDE DEF total
  <2>1. QED
    BY <1>2, CaptionAssumption DEF VisibleLines
<1>4. CardHeight[width][i][expanded] = 40 + inner + 26 + CaptionBlockHeight(lines, FALSE) + PostPad
  BY DEF CardHeight
<1>5. inner = width - 28
  BY <1>1 DEF CardWidth, PostPad
<1>6. CaptionBlockHeight(lines, FALSE) = 28 + 19 * lines + 0
  <2> HIDE DEF lines
  <2>1. QED
    BY <1>3 DEF CaptionBlockHeight, FontLine, FontWideLine
<1> HIDE DEF inner, total, lines
<1>7. 40 + inner + 26 + CaptionBlockHeight(lines, FALSE) + 8 = width + 74 + 19 * lines
  <2>1. PICK x, k, b : x = inner /\ k = lines /\ b = CaptionBlockHeight(lines, FALSE)
    OBVIOUS
  <2>2. k \in Nat /\ x = width - 28 /\ b = 28 + 19 * k + 0 /\ width \in Nat
    BY <1>1, <1>3, <1>5, <1>6, <2>1
  <2>3. 40 + x + 26 + b + 8 = width + 74 + 19 * k
    BY <2>2
  <2>4. QED
    BY <2>1, <2>3
<1>8. CardHeight[width][i][expanded] = width + 74 + 19 * lines
  BY <1>4, <1>7 DEF PostPad
<1>9. PICK k \in Nat : k = lines
  BY <1>3
<1>10. width + 74 + 19 * k \in Nat \ {0}
  BY <1>1
<1>11. QED
  BY <1>8, <1>9, <1>10

-----------------------------------------------------------------------------
(* The three walks over the cards                                            *)

N == Len(Captions)
Height(width, feed, i) == CardHeight[width][i][feed[i]]
Heights(width, feed) == [i \in 1 .. N |-> Height(width, feed, i - 1)]
All(width, feed) == [i \in 0 .. N |-> Height(width, feed, i)]

(* The posts are numbered from 1 on. *)
LEMMA PostsAreNumbered == N \in Nat /\ Posts = 1 .. N
BY FeedAssumption, LenProperties DEF N, Posts

(* Every card has a height, shut or open. *)
LEMMA HeightsAreHeights ==
  ASSUME NEW width \in Widths, NEW feed \in Feeds, NEW i \in 1 .. N
  PROVE  Height(width, feed, i) \in Nat \ {0}
BY PostsAreNumbered, CardHeights DEF Height, Feeds

(* The cards are drawn one below the other ...                               *)
LEMMA TopsAreSums ==
  ASSUME NEW width \in Widths, NEW feed \in Feeds
  PROVE  /\ IsSum(DrawnTop(width, feed), 1, N, 6, Heights(width, feed), 6)
         /\ \A i \in 1 .. N : DrawnTop(width, feed)[i] \in Int
<1> DEFINE Walk(f) == f = [i \in 1 .. N |-> IF i = 1 THEN 6
                                           ELSE f[i - 1] + CardHeight[width][i - 1][feed[i - 1]] + 6]
           y == CHOOSE f : Walk(f)
<1>1. N \in Nat /\ AreInts(Heights(width, feed), 1, N)
  <2>1. \A i \in 1 .. N : i # 1 => i - 1 \in 1 .. N
    BY PostsAreNumbered
  <2>2. QED
    BY <2>1, PostsAreNumbered, HeightsAreHeights DEF Heights, AreInts
<1>2. PICK f \in [1 .. N -> Int] : IsSum(f, 1, N, 6, Heights(width, feed), 6)
  BY <1>1, SumsExist
<1>3. Walk(f)
  BY <1>2 DEF IsSum, Heights, Height
<1>4. Walk(y)
  BY <1>3
<1>5. DrawnTop(width, feed) = y
  BY DEF DrawnTop, PostGap, N
<1>6. IsSum(DrawnTop(width, feed), 1, N, 6, Heights(width, feed), 6)
  <2> HIDE DEF y
  <2>1. QED
    BY <1>4, <1>5 DEF IsSum, Heights, Height
<1>7. QED
  BY <1>1, <1>6, SumsAreInts

(* ... tested for a click from the same tops ...                             *)
LEMMA TopsAgree == ASSUME NEW width, NEW feed PROVE HitTop(width, feed) = DrawnTop(width, feed)
BY DEF HitTop, DrawnTop, PostGap

(* ... and measured for the scroll bar.                                      *)
LEMMA ContentIsHeight ==
  ASSUME NEW width \in Widths, NEW feed \in Feeds
  PROVE  ContentHeight(width, feed) \in Int
<1> DEFINE Walk(f) == f = [i \in 0 .. N |-> IF i = 0 THEN 6
                                           ELSE f[i - 1] + CardHeight[width][i][feed[i]] + 6]
           total == CHOOSE f : Walk(f)
<1>1. N \in Nat /\ AreInts(All(width, feed), 0, N)
  <2>1. \A i \in 0 .. N : i # 0 => i \in 1 .. N
    BY PostsAreNumbered
  <2>2. QED
    BY <2>1, PostsAreNumbered, HeightsAreHeights DEF All, AreInts
<1>2. PICK f \in [0 .. N -> Int] : IsSum(f, 0, N, 6, All(width, feed), 6)
  <2>1. 0 \in Nat /\ 6 \in Int
    OBVIOUS
  <2>2. QED
    BY <1>1, <2>1, SumsExist, Zenon
<1>3. Walk(f)
  BY <1>2 DEF IsSum, All, Height
<1>4. Walk(total)
  BY <1>3
<1>5. ContentHeight(width, feed) = total[N]
  BY DEF ContentHeight, PostGap, N
<1>6. IsSum(total, 0, N, 6, All(width, feed), 6)
  <2> HIDE DEF total
  <2>1. QED
    BY <1>4 DEF IsSum, All, Height
<1>7. \A i \in 0 .. N : total[i] \in Int
  <2> HIDE DEF total
  <2>1. QED
    BY <1>1, <1>6, SumsAreInts
<1>8. QED
  BY <1>1, <1>5, <1>7

(* A card ends above the next, with a gap, and so above all that follow.     *)
LEMMA CardsAreApart ==
  ASSUME NEW width \in Widths, NEW feed \in Feeds, NEW i \in 1 .. N
  PROVE  /\ 6 <= DrawnTop(width, feed)[i]
         /\ \A j \in i + 1 .. N :
              DrawnTop(width, feed)[i] + Height(width, feed, i) + 6 <= DrawnTop(width, feed)[j]
<1> DEFINE t == DrawnTop(width, feed)
<1>1. N \in Nat /\ IsSum(t, 1, N, 6, Heights(width, feed), 6) /\ \A k \in 1 .. N : t[k] \in Int
  BY PostsAreNumbered, TopsAreSums
<1> HIDE DEF t
<1>2. \A k \in 1 .. N : Height(width, feed, k) \in Nat \ {0}
  BY HeightsAreHeights
<1>3. ASSUME NEW k \in 1 .. N, k # 1
      PROVE  k - 1 \in 1 .. N /\ t[k] = t[k - 1] + Height(width, feed, k - 1) + 6
  BY <1>1, <1>3 DEF IsSum, Heights
<1>4. \A k \in 1 .. N : 6 <= t[k]
  <2> DEFINE T == {k \in 1 .. N : 6 <= t[k]}
  <2>1. CASE N = 0
    BY <2>1
  <2>2. CASE N # 0
    <3>1. 1 \in T
      BY <1>1, <2>2 DEF IsSum
    <3>2. ASSUME NEW k \in 1 .. N, k # 1, k - 1 \in T PROVE k \in T
      <4>1. /\ t[k] = t[k - 1] + Height(width, feed, k - 1) + 6 /\ t[k - 1] \in Int
            /\ Height(width, feed, k - 1) \in Nat /\ 6 <= t[k - 1] /\ t[k] \in Int
        BY <1>1, <1>2, <1>3, <3>2
      <4>2. QED
        BY <4>1
    <3> HIDE DEF T
    <3>3. 1 .. N \subseteq T
      BY <1>1, <3>1, <3>2, UpFrom
    <3>4. QED
      BY <3>3 DEF T
  <2>3. QED
    BY <2>1, <2>2
<1>5. ASSUME NEW j \in i + 1 .. N PROVE t[i] + Height(width, feed, i) + 6 <= t[j]
  <2> DEFINE T == {k \in i + 1 .. N : t[i] + Height(width, feed, i) + 6 <= t[k]}
  <2>1. i + 1 \in 1 .. N /\ i + 1 # 1 /\ i + 1 \in Nat
    BY <1>1
  <2>2. i + 1 \in T
    <3>1. t[i + 1] = t[i] + Height(width, feed, i) + 6 /\ t[i + 1] \in Int
      <4>1. i + 1 - 1 = i
        OBVIOUS
      <4>2. QED
        BY <1>1, <1>3, <2>1, <4>1
    <3>2. QED
      BY <2>1, <3>1
  <2>3. ASSUME NEW k \in i + 1 .. N, k # i + 1, k - 1 \in T PROVE k \in T
    <3>1. k \in 1 .. N /\ k # 1
      BY <2>1
    <3>2. /\ t[k] = t[k - 1] + Height(width, feed, k - 1) + 6 /\ t[k - 1] \in Int /\ t[k] \in Int
          /\ Height(width, feed, k - 1) \in Nat
          /\ t[i] + Height(width, feed, i) + 6 <= t[k - 1]
          /\ t[i] \in Int /\ Height(width, feed, i) \in Nat
      BY <1>1, <1>2, <1>3, <2>3, <3>1
    <3>3. t[i] + Height(width, feed, i) + 6 <= t[k]
      BY <3>2
    <3>4. QED
      BY <3>3
  <2> HIDE DEF T
  <2>4. i + 1 .. N \subseteq T
    BY <1>1, <2>1, <2>2, <2>3, UpFrom
  <2>5. QED
    BY <2>4 DEF T
<1>6. QED
  BY <1>4, <1>5 DEF t

(* No row of the content is in two cards, and none above the first gap in    *)
(* any.                                                                      *)
LEMMA OneCardAtMost ==
  ASSUME NEW width \in Widths, NEW feed \in Feeds, NEW row \in Int,
         NEW i \in CardsAt(DrawnTop(width, feed), width, feed, row),
         NEW j \in CardsAt(DrawnTop(width, feed), width, feed, row)
  PROVE  i = j /\ ~(row < PostGap)
<1> DEFINE t == DrawnTop(width, feed)
<1>1. \A k \in 1 .. N : t[k] \in Int /\ Height(width, feed, k) \in Nat
  BY TopsAreSums, HeightsAreHeights
<1>2. /\ i \in 1 .. N /\ t[i] <= row /\ row < t[i] + Height(width, feed, i)
      /\ j \in 1 .. N /\ t[j] <= row /\ row < t[j] + Height(width, feed, j)
  BY PostsAreNumbered DEF CardsAt, Height
<1>3. 6 <= t[i]
  BY <1>2, CardsAreApart
<1>4. i < j => t[i] + Height(width, feed, i) + 6 <= t[j]
  <2>1. i < j => j \in i + 1 .. N
    BY <1>2
  <2>2. QED
    BY <1>2, <2>1, CardsAreApart
<1>5. j < i => t[j] + Height(width, feed, j) + 6 <= t[i]
  <2>1. j < i => i \in j + 1 .. N
    BY <1>2
  <2>2. QED
    BY <1>2, <2>1, CardsAreApart
<1> HIDE DEF t
<1>6. QED
  BY <1>1, <1>2, <1>3, <1>4, <1>5 DEF PostGap

(* A click toggles the one card that is drawn over the row, if there is one. *)
LEMMA ClickToggles ==
  ASSUME NEW width \in Widths, NEW feed \in Feeds, NEW y \in Int, NEW scroll \in Int
  PROVE  LET hit == CardsAt(DrawnTop(width, feed), width, feed, y - BarH + scroll)
         IN \/ hit = {} /\ Click(y, scroll, width, feed) = feed
            \/ \E i \in Posts : hit = {i} /\ Click(y, scroll, width, feed) = [feed EXCEPT ![i] = ~@]
<1> DEFINE row == y - BarH + scroll
           hit == CardsAt(DrawnTop(width, feed), width, feed, row)
<1>1. row \in Int
  BY DEF BarH
<1>2. Click(y, scroll, width, feed) =
        IF row < PostGap \/ hit = {} THEN feed ELSE [feed EXCEPT ![Least(hit)] = ~@]
  BY TopsAgree DEF Click
<1>3. hit \subseteq Posts
  BY DEF CardsAt
<1>4. ASSUME NEW i \in hit, NEW j \in hit PROVE i = j /\ ~(row < PostGap)
  BY <1>1, OneCardAtMost
<1> HIDE DEF row, hit
<1>5. CASE hit = {}
  BY <1>2, <1>5 DEF row, hit
<1>6. CASE hit # {}
  <2>1. PICK i : i \in hit
    BY <1>6
  <2>2. hit = {i} /\ ~(row < PostGap)
    BY <1>4, <2>1
  <2>3. Least(hit) = i
    <3>1. hit \subseteq Nat
      BY <1>3, PostsAreNumbered
    <3>2. QED
      BY <2>1, <2>2, <3>1, LeastIsLeast
  <2>4. i \in Posts /\ Click(y, scroll, width, feed) = [feed EXCEPT ![i] = ~@]
    BY <1>2, <1>3, <1>6, <2>1, <2>2, <2>3
  <2>5. QED
    BY <2>2, <2>4 DEF hit, row
<1>7. QED
  BY <1>5, <1>6

(* What is above a card that is toggled stays where it is, and so does its   *)
(* own top.                                                                  *)
LEMMA TopsStay ==
  ASSUME NEW width \in Widths, NEW feed \in Feeds, NEW other \in Feeds, NEW i \in 1 .. N,
         \A k \in 1 .. N : k # i => other[k] = feed[k]
  PROVE  \A j \in 1 .. i : DrawnTop(width, other)[j] = DrawnTop(width, feed)[j]
<1> DEFINE s == DrawnTop(width, feed)
           t == DrawnTop(width, other)
           T == {j \in 1 .. i : t[j] = s[j]}
<1>1. N \in Nat /\ IsSum(s, 1, N, 6, Heights(width, feed), 6) /\ IsSum(t, 1, N, 6, Heights(width, other), 6)
  BY PostsAreNumbered, TopsAreSums
<1> HIDE DEF s, t
<1>2. 1 \in T
  BY <1>1 DEF IsSum
<1>3. ASSUME NEW j \in 1 .. i, j # 1, j - 1 \in T PROVE j \in T
  <2>1. j \in 1 .. N /\ j - 1 \in 1 .. N /\ j - 1 # i
    BY <1>1, <1>3
  <2>2. Height(width, other, j - 1) = Height(width, feed, j - 1)
    BY <2>1 DEF Height
  <2>3. /\ t[j] = t[j - 1] + Height(width, other, j - 1) + 6
        /\ s[j] = s[j - 1] + Height(width, feed, j - 1) + 6
    BY <1>1, <1>3, <2>1 DEF IsSum, Heights
  <2>4. QED
    BY <1>3, <2>2, <2>3
<1>4. 1 .. i \subseteq T
  <2> HIDE DEF T
  <2>1. QED
    BY <1>2, <1>3, UpFrom
<1>5. QED
  BY <1>4 DEF s, t

-----------------------------------------------------------------------------
(* What pal promises any feed holds of this one                              *)

(* The window with the feed behind its callbacks is PalWindow's.             *)
LEMMA SameStep == [Next]_vars <=> [Pal!Next]_(Pal!vars)
BY
DEF AtLeast, AtMost, Minimised, FrameStates, ClientW, ClientH, MaxScroll,
    Clamp, ThumbLimit, BarNeeded, SetScrollInfo, SyncScrollbar, ScrollTo,
    Page, CreateBackbuffer, Idle, Usable, WmCreate, WmSize, UserResize,
    NestedWmSize, WmVScroll, WmKeyDown, Notches, WmMouseWheel, WmLButtonDown,
    UserClick, Rendered, WmPaint, WmDestroy, Terminated, Next, vars, Pal!AtLeast,
    Pal!AtMost, Pal!Minimised, Pal!FrameStates, Pal!ClientW, Pal!ClientH,
    Pal!MaxScroll, Pal!Clamp, Pal!ThumbLimit, Pal!BarNeeded,
    Pal!SetScrollInfo, Pal!SyncScrollbar, Pal!ScrollTo, Pal!Page,
    Pal!CreateBackbuffer, Pal!Idle, Pal!Usable, Pal!WmCreate, Pal!WmSize,
    Pal!UserResize, Pal!NestedWmSize, Pal!WmVScroll, Pal!WmKeyDown,
    Pal!Notches, Pal!WmMouseWheel, Pal!WmLButtonDown, Pal!UserClick,
    Pal!Rendered, Pal!WmPaint, Pal!WmDestroy, Pal!Terminated, Pal!Next, Pal!vars

(* The same, for the whole of its runs.                                      *)
LEMMA SameSpec == Spec <=> Pal!Spec
<1>1. Init <=> Pal!Init
  BY DEF Init, Pal!Init
<1>2. QED
  BY <1>1, SameStep, PTL DEF Spec, Pal!Spec

(* The callbacks of ui/feed.c keep the contract of pal.h.                    *)
LEMMA PalAssumptions == Pal!WindowAssumption /\ Pal!HeightAssumption /\ Pal!ClickAssumption
<1>1. Pal!BufferWidths \subseteq Widths
  BY FeedWindowAssumption
  DEF BufferWidths, AtLeast, ClientW, Pal!BufferWidths, Pal!AtLeast, Pal!ClientW
<1>2. Pal!WindowAssumption
  <2>1. ChromeHeight \in Nat
    BY DEF ChromeHeight, BarH, NavH
  <2>2. [i \in Posts |-> FALSE] \in Feeds
    BY DEF Feeds
  <2>3. QED
    BY <2>1, <2>2, FeedWindowAssumption DEF Pal!WindowAssumption
<1>3. Pal!HeightAssumption
  BY <1>1, ContentIsHeight DEF Pal!HeightAssumption
<1>4. ASSUME NEW width \in Pal!BufferWidths, NEW feed \in Feeds,
             NEW scroll \in 0 .. Pal!AtLeast(ContentHeight(width, feed), 0), NEW y \in ClickYs
      PROVE  Click(y, scroll, width, feed) \in Feeds
  <2>1. width \in Widths /\ y \in Int /\ scroll \in Int
    BY <1>1, FeedWindowAssumption
  <2>2. CASE Click(y, scroll, width, feed) = feed
    BY <2>2
  <2>3. CASE Click(y, scroll, width, feed) # feed
    <3>1. PICK i \in Posts : Click(y, scroll, width, feed) = [feed EXCEPT ![i] = ~@]
      BY <2>1, <2>3, ClickToggles
    <3>2. QED
      BY <3>1 DEF Feeds
  <2>4. QED
    BY <2>2, <2>3
<1>5. Pal!ClickAssumption
  BY <1>4 DEF Pal!ClickAssumption
<1>6. QED
  BY <1>2, <1>3, <1>5

(* So PalWindow's inductive invariant holds of the real feed.                *)
LEMMA PalInvariant == Spec => []Pal!IInv
BY PalAssumptions, Pal!IInvHolds, SameSpec, PTL

(* Its parts that speak of what the feed is asked.                           *)
Answered ==
  /\ w \in Widths /\ h \in Int /\ scroll_y \in Int /\ user \in Feeds
  /\ phase = "open" => scroll_y \in 0 .. AtLeast(ContentHeight(w, user) - AtLeast(h - 58, 0), 0)
  /\ phase = "open" /\ ~dirty =>
       \E drawn \in BOOLEAN :
         screen = [width |-> w, height |-> h, scroll |-> scroll_y, user |-> user,
                   content |-> drawn]

(* They follow from it.                                                      *)
LEMMA InvariantAnswers == Pal!IInv => Answered
<1> SUFFICES ASSUME Pal!IInv PROVE Answered
  OBVIOUS
<1>1. w \in Widths
  BY FeedWindowAssumption
  DEF BufferWidths, AtLeast, ClientW, Pal!BufferWidths, Pal!AtLeast, Pal!ClientW,
      Pal!IInv, Pal!TypeOK
<1>2. h \in Int
  <2>1. Pal!BufferHeights \subseteq Nat
    BY PalAssumptions, Pal!BufferTypes
  <2>2. h \in Pal!BufferHeights
    BY DEF Pal!IInv, Pal!TypeOK
  <2>3. QED
    BY <2>1, <2>2
<1>3. scroll_y \in Int /\ user \in Feeds
  BY DEF Pal!IInv, Pal!TypeOK
<1>4. phase = "open" => scroll_y \in 0 .. AtLeast(ContentHeight(w, user) - AtLeast(h - 58, 0), 0)
  <2>1. ChromeHeight = 58
    BY DEF ChromeHeight, BarH, NavH
  <2>2. QED
    BY <2>1 DEF Pal!IInv, Pal!ScrollInRange, Pal!MaxScroll, Pal!AtLeast, AtLeast
<1>5. phase = "open" /\ ~dirty =>
        \E drawn \in BOOLEAN :
          screen = [width |-> w, height |-> h, scroll |-> scroll_y, user |-> user,
                    content |-> drawn]
  BY DEF Pal!IInv, Pal!ScreenCurrent
<1>6. QED
  BY <1>1, <1>2, <1>3, <1>4, <1>5 DEF Answered

(* In a window that has a viewport the feed's clamp moves no offset that     *)
(* pal's has let pass.                                                       *)
LEMMA ClampMovesNothing ==
  ASSUME Answered, phase = "open", NEW y, InViewport(y, h), y \in Int
  PROVE  DrawnScroll(w, h, scroll_y, user) = scroll_y
<1>1. PICK c \in Int : c = ContentHeight(w, user)
  BY ContentIsHeight DEF Answered
<1>2. h > 58 /\ h \in Int /\ scroll_y \in Int
  BY DEF Answered, InViewport, BarH, NavH
<1>3. scroll_y \in 0 .. AtLeast(c - AtLeast(h - 58, 0), 0)
  BY <1>1 DEF Answered
<1>4. DrawnScroll(w, h, scroll_y, user) =
        LET m == c - (h - 30 - 28)
            most == IF m < 0 THEN 0 ELSE m
            low == IF scroll_y < 0 THEN 0 ELSE scroll_y
        IN IF low > most THEN most ELSE low
  BY <1>1 DEF DrawnScroll, BarH, NavH
<1>5. QED
  BY <1>2, <1>3, <1>4 DEF AtLeast

(* What one step does to the feed.                                           *)
LEMMA StepClicks ==
  ASSUME Answered, [Next]_vars, user' # user
  PROVE  \E i \in Posts : user' = [user EXCEPT ![i] = ~@]
<1>1. PICK y \in ClickYs : WmLButtonDown(y)
  BY DEF Next, vars, WmCreate, UserResize, NestedWmSize, WmSize, WmVScroll, WmKeyDown,
         WmMouseWheel, ScrollTo, UserClick, WmPaint, WmDestroy, Terminated
<1>2. user' = Click(y, scroll_y, w, user) /\ y \in Int
  BY <1>1, FeedWindowAssumption DEF WmLButtonDown
<1>3. w \in Widths /\ user \in Feeds /\ scroll_y \in Int
  BY DEF Answered
<1>4. QED
  BY <1>2, <1>3, ClickToggles

-----------------------------------------------------------------------------
(* Theorems                                                                  *)

(* The clamp in draw_scrollable never moves the offset the window keeps, for *)
(* every feed, window size and order of messages: what is drawn is what a    *)
(* click is tested against.                                                  *)
THEOREM FeedClampsAgree == Spec => []ClampsAgree
<1>1. Answered => ClampsAgree
  <2>1. BarH \in Int
    BY DEF BarH
  <2>2. QED
    BY <2>1, ClampMovesNothing DEF ClampsAgree
<1>2. QED
  BY <1>1, PalInvariant, InvariantAnswers, PTL

(* A click toggles the card that the glass shows under it: the three walks   *)
(* of ui/feed.c over the cards and the two clamps never come apart.  If the  *)
(* glass shows no cards for want of memory, it is the card that would be     *)
(* there, and a repaint is due.                                              *)
THEOREM FeedClickHits == Spec => ClickHitsWhatIsSeen
<1>1. ASSUME Answered, NEW y \in ClickYs, WmLButtonDown(y), ~dirty,
             InViewport(y, screen.height)
      PROVE  LET toggled == {i \in Posts : user'[i] # user[i]}
             IN \/ toggled = CardsShownAt(y)
                \/ /\ ~screen.content
                   /\ toggled = CardsOn(y, TRUE)
                   /\ toggled # {} => dirty'
  <2>1. phase = "open" /\ user' = Click(y, scroll_y, w, user)
    BY <1>1 DEF WmLButtonDown, Usable, Idle
  <2>2. /\ screen.width = w /\ screen.height = h /\ screen.scroll = scroll_y
        /\ screen.user = user /\ screen.content \in BOOLEAN
    BY <1>1, <2>1 DEF Answered
  <2>3. y \in Int /\ w \in Widths /\ user \in Feeds /\ scroll_y \in Int
    BY <1>1, FeedWindowAssumption DEF Answered
  <2> DEFINE hit == CardsAt(DrawnTop(w, user), w, user, y - BarH + scroll_y)
  <2>4. CardsOn(y, TRUE) = hit
    <3>1. InViewport(y, h)
      BY <1>1, <2>2
    <3>2. DrawnScroll(w, h, scroll_y, user) = scroll_y
      BY <1>1, <2>1, <2>3, <3>1, ClampMovesNothing
    <3>3. QED
      BY <2>2, <3>1, <3>2 DEF CardsOn, CardsDrawn, ShownRow
  <2>5. \/ hit = {} /\ user' = user
        \/ \E i \in Posts : hit = {i} /\ user' = [user EXCEPT ![i] = ~@]
    BY <2>1, <2>3, ClickToggles
  <2> HIDE DEF hit
  <2>6. {i \in Posts : user'[i] # user[i]} = hit
    BY <2>3, <2>5 DEF Feeds
  <2>7. hit # {} => dirty'
    <3>1. hit # {} => user' # user
      BY <2>6
    <3>2. QED
      BY <1>1, <3>1 DEF WmLButtonDown
  <2>8. CASE screen.content = TRUE
    <3>1. CardsShownAt(y) = CardsOn(y, TRUE)
      BY <2>8 DEF CardsShownAt
    <3>2. QED
      BY <2>4, <2>6, <3>1
  <2>9. CASE screen.content = FALSE
    BY <2>4, <2>6, <2>7, <2>9
  <2>10. QED
    BY <2>2, <2>8, <2>9
<1>2. Answered /\ [Next]_vars =>
        [\A y \in ClickYs :
           ~dirty /\ InViewport(y, screen.height) /\ WmLButtonDown(y) =>
             LET toggled == {i \in Posts : user'[i] # user[i]}
             IN \/ toggled = CardsShownAt(y)
                \/ /\ ~screen.content
                   /\ toggled = CardsOn(y, TRUE)
                   /\ toggled # {} => dirty']_vars
  BY <1>1
<1>3. QED
  BY <1>2, PalInvariant, InvariantAnswers, PTL DEF Spec, ClickHitsWhatIsSeen

(* Only a click changes the feed, it toggles one card, and nothing at or     *)
(* above that card's top moves.                                              *)
THEOREM FeedToggles == Spec => ToggleKeepsAbove
<1>1. ASSUME Answered, [Next]_vars, user' # user
      PROVE  \E i \in Posts :
               /\ user' = [user EXCEPT ![i] = ~@]
               /\ \A j \in Posts : j <= i => DrawnTop(w, user')[j] = DrawnTop(w, user)[j]
  <2>1. PICK i \in Posts : user' = [user EXCEPT ![i] = ~@]
    BY <1>1, StepClicks
  <2>2. w \in Widths /\ user \in Feeds /\ user' \in Feeds
    BY <1>1, <2>1 DEF Answered, Feeds
  <2>3. N \in Nat /\ Posts = 1 .. N
    BY PostsAreNumbered
  <2>4. \A k \in 1 .. N : k # i => user'[k] = user[k]
    BY <2>1, <2>2, <2>3 DEF Feeds
  <2>5. \A j \in 1 .. i : DrawnTop(w, user')[j] = DrawnTop(w, user)[j]
    <3>1. PICK width \in Widths, feed \in Feeds, other \in Feeds :
            width = w /\ feed = user /\ other = user'
      BY <2>2
    <3>2. \A j \in 1 .. i : DrawnTop(width, other)[j] = DrawnTop(width, feed)[j]
      <4>1. \A k \in 1 .. N : k # i => other[k] = feed[k]
        BY <2>4, <3>1
      <4>2. i \in 1 .. N
        BY <2>3
      <4>3. QED
        BY <4>1, <4>2, TopsStay
    <3>3. QED
      BY <3>1, <3>2
  <2>6. \A j \in Posts : j <= i => j \in 1 .. i
    BY <2>3
  <2>7. QED
    BY <2>1, <2>5, <2>6, Zenon
<1>2. Answered /\ [Next]_vars =>
        [user' # user =>
           \E i \in Posts :
             /\ user' = [user EXCEPT ![i] = ~@]
             /\ \A j \in Posts : j <= i => DrawnTop(w, user')[j] = DrawnTop(w, user)[j]]_vars
  BY <1>1
<1>3. QED
  BY <1>2, PalInvariant, InvariantAnswers, PTL DEF Spec, ToggleKeepsAbove

-----------------------------------------------------------------------------
(* What a caption shows                                                      *)

(* What wrap_caption returns: the line of the first glyph, then that of the  *)
(* glyph after each, as far as the cap; all of them, if it is not reached.   *)
AreWrapped(lines, c, maxw) ==
  /\ lines \in Seq(Runs)
  /\ Len(c) > 0 => Len(lines) > 0
  /\ Len(c) > 0 => lines[1] = LineAt(c, maxw)[1]
  /\ \A i \in 1 .. Len(lines) : \E at \in 1 .. Len(c) :
       /\ lines[i] = LineAt(c, maxw)[at]
       /\ i < Len(lines) => /\ Onwards(c, maxw)[at] \in 1 .. Len(c)
                            /\ lines[i + 1] = LineAt(c, maxw)[Onwards(c, maxw)[at]]
       /\ i = Len(lines) /\ ~Capped(lines) => Onwards(c, maxw)[at] = Len(c) + 1

(* The cap keeps a beginning of the linked list. *)
LEMMA WrapsLinked ==
  ASSUME NEW c \in Seq(Glyphs), NEW maxw
  PROVE  AreWrapped(WrapCaption(c, maxw), c, maxw)
<1> DEFINE item == LineAt(c, maxw)
           next == Onwards(c, maxw)
<1>1. PICK f : /\ IsChain(f, Len(c), item, next)
               /\ WrapCaption(c, maxw) = IF Len(f[1]) > LinesHardCap
                                         THEN SubSeq(f[1], 1, LinesHardCap) ELSE f[1]
  BY WrapIsChain
<1>2. PICK n \in Nat : n = Len(c)
  BY LenProperties
<1>3. Onward(n, Runs, item, next)
  BY <1>2, LinesGoOnward
<1> HIDE DEF item, next
<1>4. 1 \in 1 .. n + 1
  OBVIOUS
<1>5. IsLinked(f[1], 1, n, item, next) /\ f[1] \in Seq(Runs)
  BY <1>1, <1>2, <1>3, <1>4, ChainsLink, ChainsAreSeqs
<1>6. PICK all \in Seq(Runs) : all = f[1]
  BY <1>5
<1>7. PICK k \in Nat : k = Len(all)
  BY LenProperties
<1>8. PICK lines : lines = WrapCaption(c, maxw)
  OBVIOUS
<1>9. PICK l \in Nat : /\ lines \in Seq(Runs) /\ Len(lines) = l
                       /\ l = IF k > LinesHardCap THEN LinesHardCap ELSE k
                       /\ \A i \in 1 .. l : lines[i] = all[i]
  <2>1. CASE k > LinesHardCap
    <3>1. lines = SubSeq(all, 1, LinesHardCap)
      BY <1>1, <1>6, <1>7, <1>8, <2>1
    <3>2. lines \in Seq(Runs) /\ Len(lines) = LinesHardCap /\ \A i \in 1 .. LinesHardCap : lines[i] = all[i]
      BY <1>7, <2>1, <3>1, CaptionAssumption, SubSeqProperties
    <3>3. QED
      BY <2>1, <3>2, CaptionAssumption
  <2>2. CASE ~(k > LinesHardCap)
    BY <1>1, <1>6, <1>7, <1>8, <2>2
  <2>3. QED
    BY <2>1, <2>2
<1>10. 1 <= n => k > 0 /\ all[1] = item[1]
  BY <1>5, <1>6, <1>7 DEF IsLinked
<1>11. n > 0 => l > 0 /\ lines[1] = item[1]
  BY <1>9, <1>10, CaptionAssumption
<1>12. ASSUME NEW i \in 1 .. l
       PROVE  \E at \in 1 .. n :
                /\ lines[i] = item[at]
                /\ i < l => next[at] \in 1 .. n /\ lines[i + 1] = item[next[at]]
                /\ i = l /\ l # LinesHardCap => next[at] = n + 1
  <2>1. i \in 1 .. k /\ (i < l => i < k /\ i + 1 \in 1 .. l) /\ (i = l /\ l # LinesHardCap => i = k)
    BY <1>9, CaptionAssumption
  <2>2. PICK at \in 1 .. n :
          /\ all[i] = item[at]
          /\ i < k => next[at] \in 1 .. n /\ all[i + 1] = item[next[at]]
          /\ i = k => next[at] = n + 1
    BY <1>5, <1>6, <1>7, <2>1 DEF IsLinked
  <2>3. lines[i] = all[i] /\ (i < l => lines[i + 1] = all[i + 1])
    BY <1>9, <2>1
  <2>4. QED
    BY <2>1, <2>2, <2>3
<1>13. AreWrapped(lines, c, maxw)
  BY <1>2, <1>9, <1>11, <1>12 DEF AreWrapped, Capped, item, next
<1>14. QED
  BY <1>8, <1>13

(* The width of a beginning of a caption is that of what comes before its    *)
(* last glyph, and that glyph's.                                             *)
LEMMA AdvanceAdds ==
  ASSUME NEW c \in Seq(Glyphs)
  PROVE  /\ Advance(c) \in [0 .. Len(c) -> Int]
         /\ \A k \in 1 .. Len(c) : Advance(c)[k] = Advance(c)[k - 1] + Adv[c[k]]
<1> DEFINE n == Len(c)
           part == [k \in 1 .. n |-> Adv[c[k]]]
           Is(f) == f = [k \in 0 .. n |-> IF k = 0 THEN 0 ELSE f[k - 1] + Adv[c[k]]]
           sum == CHOOSE f : Is(f)
<1>1. n \in Nat
  BY LenProperties
<1>2. \A k \in 1 .. n : Adv[c[k]] \in Int
  BY DEF Glyphs, Adv
<1>3. AreInts(part, 0, n)
  <2>1. \A k \in 0 .. n : k # 0 => k \in 1 .. n
    BY <1>1
  <2>2. QED
    BY <1>2, <2>1 DEF AreInts
<1>4. \E f : Is(f)
  <2>1. PICK f \in [0 .. n -> Int] : IsSum(f, 0, n, 0, part, 0)
    <3> HIDE DEF n, part
    <3>1. QED
      BY <1>1, <1>3, SumsExist
  <2>2. ASSUME NEW k \in 0 .. n
        PROVE  f[k] = IF k = 0 THEN 0 ELSE f[k - 1] + Adv[c[k]]
    <3>1. CASE k = 0
      BY <2>1, <3>1 DEF IsSum
    <3>2. CASE k # 0
      <4>1. k \in 1 .. n /\ k - 1 \in 0 .. n
        BY <1>1, <3>2
      <4>2. part[k] = Adv[c[k]] /\ part[k] \in Int /\ f[k - 1] \in Int
        BY <1>2, <2>1, <4>1
      <4> HIDE DEF part, n
      <4>3. f[k] = f[k - 1] + part[k] + 0
        BY <2>1, <3>2 DEF IsSum
      <4>4. QED
        BY <3>2, <4>2, <4>3
    <3>3. QED
      BY <3>1, <3>2
  <2> HIDE DEF n
  <2>3. Is(f)
    BY <2>1, <2>2
  <2>4. QED
    BY <2>3
<1>5. Is(sum)
  BY <1>4
<1>6. Advance(c) = sum
  BY DEF Advance
<1> HIDE DEF n, part, sum
<1>7. sum[0] = 0 /\ \A k \in 1 .. n : sum[k] = sum[k - 1] + Adv[c[k]]
  BY <1>1, <1>5
<1>8. ASSUME NEW k \in 0 .. n PROVE sum[k] \in Int
  <2> DEFINE T == {i \in 0 .. n : sum[i] \in Int}
  <2>1. 0 \in T
    BY <1>1, <1>7
  <2>2. ASSUME NEW i \in 0 .. n, i # 0, i - 1 \in T PROVE i \in T
    BY <1>2, <1>7, <2>2
  <2> HIDE DEF T
  <2>3. 0 .. n \subseteq T
    BY <1>1, <2>1, <2>2, UpFrom
  <2>4. k \in T
    BY <2>3
  <2>5. QED
    BY <2>4 DEF T
<1>9. sum \in [0 .. n -> Int]
  BY <1>5, <1>8
<1>10. QED
  BY <1>6, <1>7, <1>9 DEF n

(* Where measure stops, and where it goes on.                                *)
StopsAt(c, p, maxw, q) ==
  \/ q > Len(c)
  \/ c[q] = Break
  \/ maxw >= 0 /\ q > p /\ Advance(c)[q] - Advance(c)[p - 1] - 1 > maxw

(* measure stops at the first glyph it may stop at. *)
LEMMA FitEndIsFirst ==
  ASSUME NEW c \in Seq(Glyphs), NEW p \in 1 .. Len(c), NEW maxw
  PROVE  /\ StopsAt(c, p, maxw, FitEnd(c, p, maxw))
         /\ \A q \in p .. Len(c) + 1 : StopsAt(c, p, maxw, q) => FitEnd(c, p, maxw) <= q
<1>1. Len(c) \in Nat
  BY LenProperties
<1> DEFINE T == {q \in p .. Len(c) + 1 : StopsAt(c, p, maxw, q)}
<1>2. FitEnd(c, p, maxw) = Least(T)
  BY DEF FitEnd, StopsAt
<1>3. T \subseteq Nat /\ Len(c) + 1 \in T
  BY <1>1 DEF StopsAt
<1>4. Least(T) \in T /\ \A k \in T : Least(T) <= k
  <2> HIDE DEF T
  <2>1. QED
    BY <1>3, LeastIsLeast
<1>5. QED
  BY <1>2, <1>4

(* No glyph of a line is one to stop at.                                     *)
LEMMA LineGoesOn ==
  ASSUME NEW c \in Seq(Glyphs), NEW p \in 1 .. Len(c), NEW maxw,
         NEW k \in p .. FitEnd(c, p, maxw) - 1
  PROVE  /\ k \in 1 .. Len(c) /\ c[k] # Break
         /\ maxw >= 0 /\ k > p => ~(Advance(c)[k] - Advance(c)[p - 1] - 1 > maxw)
<1>1. PICK n \in Nat : n = Len(c)
  BY LenProperties
<1>2. PICK q \in Nat : q = FitEnd(c, p, maxw) /\ q \in p .. n + 1
  BY <1>1, FitEndStops
<1>3. k \in p .. n + 1 /\ ~(q <= k) /\ k \in 1 .. n
  BY <1>1, <1>2
<1>4. ~StopsAt(c, p, maxw, k)
  BY <1>1, <1>2, <1>3, FitEndIsFirst
<1>5. QED
  BY <1>1, <1>3, <1>4 DEF StopsAt

(* The line of a glyph begins with it and ends where measure stopped; the    *)
(* next begins there, or after the break.                                    *)
LEMMA LineOf ==
  ASSUME NEW c \in Seq(Glyphs), NEW maxw, NEW at \in 1 .. Len(c)
  PROVE  /\ LineAt(c, maxw)[at].off = at
         /\ LineAt(c, maxw)[at].len = FitEnd(c, at, maxw) - at
         /\ LineEnd(LineAt(c, maxw)[at]) = FitEnd(c, at, maxw)
         /\ FitEnd(c, at, maxw) \in at .. Len(c) + 1
         /\ Onwards(c, maxw)[at] =
              LET q == FitEnd(c, at, maxw) IN IF q <= Len(c) /\ c[q] = Break THEN q + 1 ELSE q
<1>1. PICK n \in Nat : n = Len(c)
  BY LenProperties
<1>2. PICK q \in at .. n + 1 : q = FitEnd(c, at, maxw)
  BY <1>1, FitEndStops
<1>3. LineAt(c, maxw)[at] = [off |-> at, len |-> q - at]
  BY <1>2 DEF LineAt
<1>4. at + (q - at) = q
  BY <1>1, <1>2
<1>5. Onwards(c, maxw)[at] = IF q <= Len(c) /\ c[q] = Break THEN q + 1 ELSE q
  BY <1>2 DEF Onwards
<1>6. QED
  BY <1>1, <1>2, <1>3, <1>4, <1>5 DEF LineEnd

(* No glyph but breaks between lines is left out or shown twice. *)
LEMMA WrapCovers ==
  ASSUME NEW c \in Seq(Glyphs), NEW maxw
  PROVE  Covers(WrapCaption(c, maxw), c)
<1>1. PICK n \in Nat : n = Len(c)
  BY LenProperties
<1>2. PICK lines \in Seq(Runs) : lines = WrapCaption(c, maxw) /\ AreWrapped(lines, c, maxw)
  BY WrapsLinked DEF AreWrapped
<1>3. PICK l \in Nat : l = Len(lines)
  BY LenProperties
<1>4. ASSUME NEW i \in 1 .. l
      PROVE  \E at \in 1 .. n, q \in 1 .. n + 1 :
               /\ at <= q /\ q = FitEnd(c, at, maxw) /\ lines[i].off = at /\ LineEnd(lines[i]) = q
               /\ LET next == IF q <= n /\ c[q] = Break THEN q + 1 ELSE q
                  IN /\ i < l => lines[i + 1].off = next
                     /\ i = l /\ ~Capped(lines) => next = n + 1
  <2>1. PICK at \in 1 .. n :
          /\ lines[i] = LineAt(c, maxw)[at]
          /\ i < l => /\ Onwards(c, maxw)[at] \in 1 .. n
                      /\ lines[i + 1] = LineAt(c, maxw)[Onwards(c, maxw)[at]]
          /\ i = l /\ ~Capped(lines) => Onwards(c, maxw)[at] = n + 1
    BY <1>1, <1>2, <1>3 DEF AreWrapped
  <2>2. PICK q \in at .. n + 1 : q = FitEnd(c, at, maxw)
    BY <1>1, LineOf
  <2>3. lines[i].off = at /\ LineEnd(lines[i]) = q
    BY <1>1, <2>1, <2>2, LineOf
  <2>4. Onwards(c, maxw)[at] = IF q <= n /\ c[q] = Break THEN q + 1 ELSE q
    BY <1>1, <2>2, LineOf
  <2>5. i < l => lines[i + 1].off = Onwards(c, maxw)[at]
    BY <1>1, <2>1, LineOf
  <2>6. QED
    BY <2>1, <2>2, <2>3, <2>4, <2>5
<1>5. l > 0 => lines[1].off = 1
  <2>1. SUFFICES ASSUME l > 0 PROVE lines[1].off = 1
    OBVIOUS
  <2>2. n > 0
    BY <1>3, <1>4, <2>1
  <2>3. lines[1] = LineAt(c, maxw)[1] /\ 1 \in 1 .. n
    BY <1>1, <1>2, <2>2 DEF AreWrapped
  <2>4. QED
    BY <1>1, <2>3, LineOf
<1>6. ASSUME NEW i \in 1 .. l - 1
      PROVE  \/ lines[i + 1].off = LineEnd(lines[i])
             \/ lines[i + 1].off = LineEnd(lines[i]) + 1 /\ c[LineEnd(lines[i])] = Break
  <2>1. i \in 1 .. l /\ i < l
    BY <1>3
  <2>2. QED
    BY <1>4, <2>1
<1>7. ASSUME NEW i \in 1 .. l, NEW k \in lines[i].off .. LineEnd(lines[i]) - 1
      PROVE  c[k] # Break
  <2>1. PICK at \in 1 .. n, q \in 1 .. n + 1 :
          at <= q /\ q = FitEnd(c, at, maxw) /\ lines[i].off = at /\ LineEnd(lines[i]) = q
    BY <1>4
  <2>2. at \in 1 .. Len(c) /\ k \in at .. FitEnd(c, at, maxw) - 1
    BY <1>1, <1>7, <2>1
  <2>3. QED
    BY <2>2, LineGoesOn
<1>8. ASSUME ~Capped(lines), n > 0
      PROVE  LineEnd(lines[l]) > n \/ (LineEnd(lines[l]) = n /\ c[LineEnd(lines[l])] = Break)
  <2>1. l \in 1 .. l
    BY <1>1, <1>2, <1>3, <1>8 DEF AreWrapped
  <2>2. PICK at \in 1 .. n, q \in 1 .. n + 1 :
          /\ LineEnd(lines[l]) = q
          /\ (IF q <= n /\ c[q] = Break THEN q + 1 ELSE q) = n + 1
    BY <1>4, <1>8, <2>1
  <2>3. q > n \/ (q = n /\ c[q] = Break)
    BY <1>1, <2>2
  <2>4. QED
    BY <2>2, <2>3
<1>9. Covers(lines, c)
  BY <1>1, <1>3, <1>5, <1>6, <1>7, <1>8 DEF Covers
<1>10. QED
  BY <1>2, <1>9

(* A run of the caption is as wide as its glyphs, less the last gap.         *)
LEMMA RunIsWide ==
  ASSUME NEW c \in Seq(Glyphs), NEW p \in 1 .. Len(c), NEW q \in p .. Len(c) + 1
  PROVE  /\ RunWidth(c, p, q) \in Int
         /\ RunWidth(c, p, q) = IF q = p THEN 0 ELSE Advance(c)[q - 1] - Advance(c)[p - 1] - 1
<1>1. PICK n \in Nat : n = Len(c)
  BY LenProperties
<1>2. p - 1 \in 0 .. n /\ (q # p => q - 1 \in 0 .. n)
  BY <1>1
<1>3. PICK a \in [0 .. n -> Int] : a = Advance(c)
  BY <1>1, AdvanceAdds
<1>4. a[p - 1] \in Int /\ (q # p => a[q - 1] \in Int)
  BY <1>2, <1>3
<1>5. RunWidth(c, p, q) = IF q = p THEN 0 ELSE a[q - 1] - a[p - 1] - 1
  BY <1>3 DEF RunWidth
<1>6. QED
  BY <1>3, <1>4, <1>5

(* A line takes all that fits, and no more than that but for one glyph.      *)
LEMMA WrapFills ==
  ASSUME NEW c \in Seq(Glyphs), NEW width \in Int, width >= 0,
         NEW i \in DOMAIN WrapCaption(c, width)
  PROVE  Fills(WrapCaption(c, width)[i], c, width)
<1>1. PICK n \in Nat : n = Len(c)
  BY LenProperties
<1>2. PICK lines \in Seq(Runs) : lines = WrapCaption(c, width) /\ AreWrapped(lines, c, width)
  BY WrapsLinked DEF AreWrapped
<1>3. i \in 1 .. Len(lines)
  BY <1>2, LenProperties
<1>4. PICK p \in 1 .. n : lines[i] = LineAt(c, width)[p]
  BY <1>1, <1>2, <1>3 DEF AreWrapped
<1>5. PICK q \in p .. n + 1 : q = FitEnd(c, p, width)
  BY <1>1, LineOf
<1>6. lines[i].off = p /\ LineEnd(lines[i]) = q
  BY <1>1, <1>4, <1>5, LineOf
<1>7. PICK a \in [0 .. n -> Int] : a = Advance(c)
  BY <1>1, AdvanceAdds
<1>8. p - 1 \in 0 .. n /\ a[p - 1] \in Int
  BY <1>7
<1>9. RunWidth(c, p, q) <= width \/ q = p + 1
  <2>1. CASE q = p
    BY <1>1, <1>5, <2>1, RunIsWide
  <2>2. CASE q > p + 1
    <3>1. q - 1 \in p .. q - 1 /\ q - 1 > p /\ q - 1 \in 0 .. n /\ q # p
      BY <2>2
    <3>2. ~(a[q - 1] - a[p - 1] - 1 > width)
      BY <1>1, <1>5, <1>7, <3>1, LineGoesOn
    <3>3. a[q - 1] \in Int
      BY <1>7, <3>1
    <3>4. RunWidth(c, p, q) = a[q - 1] - a[p - 1] - 1
      BY <1>1, <1>7, <3>1, RunIsWide
    <3>5. QED
      BY <1>8, <3>2, <3>3, <3>4
  <2>3. q = p \/ q = p + 1 \/ q > p + 1
    OBVIOUS
  <2>4. QED
    BY <2>1, <2>2, <2>3
<1>10. ASSUME q <= n, c[q] # Break
      PROVE  RunWidth(c, p, q + 1) > width
  <2>1. StopsAt(c, p, width, q)
    BY <1>1, <1>5, FitEndIsFirst
  <2>2. a[q] - a[p - 1] - 1 > width
    BY <1>1, <1>7, <1>10, <2>1 DEF StopsAt
  <2>3. q + 1 \in p .. n + 1 /\ q + 1 # p /\ (q + 1) - 1 = q
    BY <1>10
  <2>4. RunWidth(c, p, q + 1) = a[q] - a[p - 1] - 1
    BY <1>1, <1>7, <2>3, RunIsWide
  <2>5. QED
    BY <2>2, <2>4
<1>11. QED
  BY <1>1, <1>2, <1>9, <1>10, <1>6 DEF Fills

(* The bytes of the first glyphs of a run, as draw_line copies them.         *)
RunBytes(c, p, len) ==
  LET size[k \in 0 .. len] == IF k = 0 THEN 0 ELSE size[k - 1] + Bytes[c[p + k - 1]]
  IN size

(* Every glyph takes some bytes. *)
LEMMA BytesAdd ==
  ASSUME NEW c \in Seq(Glyphs), NEW p \in 1 .. Len(c), NEW len \in Nat, p + len - 1 <= Len(c)
  PROVE  /\ RunBytes(c, p, len) \in [0 .. len -> Int]
         /\ RunBytes(c, p, len)[0] = 0
         /\ \A k \in 1 .. len : /\ RunBytes(c, p, len)[k] = RunBytes(c, p, len)[k - 1] + Bytes[c[p + k - 1]]
                                /\ Bytes[c[p + k - 1]] \in Nat
<1> DEFINE part == [k \in 1 .. len |-> Bytes[c[p + k - 1]]]
           Is(f) == f = [k \in 0 .. len |-> IF k = 0 THEN 0 ELSE f[k - 1] + Bytes[c[p + k - 1]]]
           sum == CHOOSE f : Is(f)
<1>1. PICK n \in Nat : n = Len(c)
  BY LenProperties
<1>2. \A k \in 1 .. len : p + k - 1 \in 1 .. n
  BY <1>1
<1>3. \A k \in 1 .. len : Bytes[c[p + k - 1]] \in Nat
  <2>1. \A j \in 1 .. n : Bytes[c[j]] \in Nat
    BY <1>1 DEF Glyphs, Adv, Bytes
  <2>2. QED
    BY <1>2, <2>1
<1>4. AreInts(part, 0, len)
  <2>1. \A k \in 0 .. len : k # 0 => k \in 1 .. len
    OBVIOUS
  <2>2. QED
    BY <1>3, <2>1 DEF AreInts
<1>5. \E f : Is(f)
  <2>1. PICK f \in [0 .. len -> Int] : IsSum(f, 0, len, 0, part, 0)
    <3> HIDE DEF part
    <3>1. QED
      BY <1>4, SumsExist
  <2>2. ASSUME NEW k \in 0 .. len
        PROVE  f[k] = IF k = 0 THEN 0 ELSE f[k - 1] + Bytes[c[p + k - 1]]
    <3>1. CASE k = 0
      BY <2>1, <3>1 DEF IsSum
    <3>2. CASE k # 0
      <4>1. k \in 1 .. len /\ k - 1 \in 0 .. len
        BY <3>2
      <4>2. part[k] = Bytes[c[p + k - 1]] /\ part[k] \in Nat /\ f[k - 1] \in Int
        BY <1>3, <2>1, <4>1
      <4> HIDE DEF part
      <4>3. f[k] = f[k - 1] + part[k] + 0
        BY <2>1, <3>2 DEF IsSum
      <4>4. QED
        BY <3>2, <4>2, <4>3
    <3>3. QED
      BY <3>1, <3>2
  <2>3. Is(f)
    BY <2>1, <2>2
  <2>4. QED
    BY <2>3
<1>6. Is(sum)
  BY <1>5
<1>7. RunBytes(c, p, len) = sum
  BY DEF RunBytes
<1> HIDE DEF part, sum
<1>8. sum[0] = 0
  BY <1>6
<1>9. ASSUME NEW k \in 1 .. len PROVE sum[k] = sum[k - 1] + Bytes[c[p + k - 1]]
  <2>1. k \in 0 .. len /\ k # 0
    OBVIOUS
  <2>2. QED
    BY <1>6, <2>1
<1>10. ASSUME NEW k \in 0 .. len PROVE sum[k] \in Int
  <2> DEFINE T == {i \in 0 .. len : sum[i] \in Int}
  <2>1. 0 \in T
    BY <1>8
  <2>2. ASSUME NEW i \in 0 .. len, i # 0, i - 1 \in T PROVE i \in T
    <3>1. i \in 1 .. len /\ sum[i - 1] \in Int
      BY <2>2
    <3>2. PICK b \in Nat : b = Bytes[c[p + i - 1]]
      BY <1>3, <3>1
    <3>3. sum[i] = sum[i - 1] + b
      BY <1>9, <3>1, <3>2
    <3>4. QED
      BY <3>1, <3>2, <3>3
  <2> HIDE DEF T
  <2>3. 0 .. len \subseteq T
    BY <2>1, <2>2, UpFrom
  <2>4. k \in T
    BY <2>3
  <2>5. QED
    BY <2>4 DEF T
<1>11. sum \in [0 .. len -> Int]
  BY <1>6, <1>10
<1>12. QED
  BY <1>3, <1>7, <1>8, <1>9, <1>11

(* A longer part of a run is no shorter in bytes.                            *)
LEMMA BytesGrow ==
  ASSUME NEW c \in Seq(Glyphs), NEW p \in 1 .. Len(c), NEW len \in Nat, p + len - 1 <= Len(c),
         NEW j \in 0 .. len, NEW k \in j .. len
  PROVE  RunBytes(c, p, len)[j] <= RunBytes(c, p, len)[k]
<1>1. PICK size \in [0 .. len -> Int] : size = RunBytes(c, p, len)
  BY BytesAdd
<1>2. \A i \in 1 .. len : size[i] = size[i - 1] + Bytes[c[p + i - 1]] /\ Bytes[c[p + i - 1]] \in Nat
  BY <1>1, BytesAdd
<1>3. ASSUME NEW i \in 1 .. len PROVE size[i - 1] <= size[i]
  <2>1. PICK b \in Nat : b = Bytes[c[p + i - 1]]
    BY <1>2
  <2>2. size[i] = size[i - 1] + b
    BY <1>2, <2>1
  <2>3. i - 1 \in 0 .. len
    OBVIOUS
  <2>4. PICK before \in Int : before = size[i - 1]
    BY <1>1, <2>3
  <2>5. QED
    BY <2>2, <2>4
<1> DEFINE T == {i \in j .. len : size[j] <= size[i]}
<1>4. j \in T
  BY <1>1
<1>5. ASSUME NEW i \in j .. len, i # j, i - 1 \in T PROVE i \in T
  <2>1. i \in 1 .. len /\ i - 1 \in 0 .. len /\ i \in 0 .. len
    BY <1>5
  <2>2. size[i - 1] <= size[i] /\ size[j] <= size[i - 1]
    BY <1>3, <1>5, <2>1
  <2>3. size[i] \in Int /\ size[i - 1] \in Int /\ size[j] \in Int
    BY <1>1, <2>1
  <2>4. size[j] <= size[i]
    BY <2>2, <2>3
  <2>5. QED
    BY <2>4
<1> HIDE DEF T
<1>6. j .. len \subseteq T
  <2>1. j \in Nat
    OBVIOUS
  <2>2. QED
    BY <1>4, <1>5, <2>1, UpFrom
<1>7. k \in T
  BY <1>6
<1>8. QED
  BY <1>1, <1>7 DEF T

(* Two runs from one place begin with the same bytes.                        *)
LEMMA BytesAgree ==
  ASSUME NEW c \in Seq(Glyphs), NEW p \in 1 .. Len(c),
         NEW less \in Nat, NEW more \in Nat, less <= more, p + more - 1 <= Len(c),
         NEW k \in 0 .. less
  PROVE  RunBytes(c, p, less)[k] = RunBytes(c, p, more)[k]
<1>1. PICK one, other : one = RunBytes(c, p, less) /\ other = RunBytes(c, p, more)
  OBVIOUS
<1>2. p + less - 1 <= Len(c)
  BY LenProperties
<1>3. /\ one[0] = 0 /\ \A i \in 1 .. less : one[i] = one[i - 1] + Bytes[c[p + i - 1]]
      /\ other[0] = 0 /\ \A i \in 1 .. more : other[i] = other[i - 1] + Bytes[c[p + i - 1]]
  BY <1>1, <1>2, BytesAdd
<1> DEFINE T == {i \in 0 .. less : one[i] = other[i]}
<1>4. 0 \in T
  BY <1>3
<1>5. ASSUME NEW i \in 0 .. less, i # 0, i - 1 \in T PROVE i \in T
  <2>1. i \in 1 .. less /\ i \in 1 .. more
    BY <1>5
  <2>2. one[i - 1] = other[i - 1]
    BY <1>5
  <2>3. one[i] = other[i]
    BY <1>3, <2>1, <2>2
  <2>4. QED
    BY <2>3
<1> HIDE DEF T
<1>6. 0 .. less \subseteq T
  BY <1>4, <1>5, UpFrom
<1>7. k \in T
  BY <1>6
<1>8. QED
  BY <1>1, <1>7 DEF T

(* draw_line copies glyphs until the next would not fit its buffer, or all.  *)
FillsBuffer(c, p, len, k) ==
  /\ RunBytes(c, p, len)[k] < LineBufCap
  /\ k < len => RunBytes(c, p, len)[k + 1] >= LineBufCap

(* There is such a number of glyphs. *)
LEMMA CopiedFills ==
  ASSUME NEW c \in Seq(Glyphs), NEW p \in 1 .. Len(c), NEW len \in Nat, p + len - 1 <= Len(c)
  PROVE  Copied(c, p, len) \in 0 .. len /\ FillsBuffer(c, p, len, Copied(c, p, len))
<1>1. Copied(c, p, len) = CHOOSE k \in 0 .. len : FillsBuffer(c, p, len, k)
  BY DEF Copied, FillsBuffer, RunBytes
<1>2. PICK size \in [0 .. len -> Int] : size = RunBytes(c, p, len) /\ size[0] = 0
  BY BytesAdd
<1>3. \E k \in 0 .. len : FillsBuffer(c, p, len, k)
  <2>1. SUFFICES ASSUME \A k \in 0 .. len : ~FillsBuffer(c, p, len, k) PROVE FALSE
    OBVIOUS
  <2> DEFINE T == {k \in 0 .. len : size[k] < LineBufCap}
  <2>2. 0 \in T
    BY <1>2, CaptionAssumption
  <2>3. ASSUME NEW k \in 0 .. len, k # 0, k - 1 \in T PROVE k \in T
    <3>1. k - 1 \in 0 .. len /\ k - 1 < len /\ (k - 1) + 1 = k /\ size[k - 1] < LineBufCap
      BY <2>3
    <3>2. ~(size[k] >= LineBufCap)
      BY <1>2, <2>1, <3>1 DEF FillsBuffer
    <3>3. size[k] \in Int
      BY <1>2
    <3>4. size[k] < LineBufCap
      BY <3>2, <3>3, CaptionAssumption
    <3>5. QED
      BY <3>4
  <2> HIDE DEF T
  <2>4. 0 .. len \subseteq T
    BY <2>2, <2>3, UpFrom
  <2>5. len \in T
    BY <2>4
  <2>6. FillsBuffer(c, p, len, len)
    BY <1>2, <2>5 DEF FillsBuffer, T
  <2>7. QED
    BY <2>1, <2>6
<1>4. QED
  BY <1>1, <1>3

(* Of a part of a run it copies no more than of the whole. *)
LEMMA CopiedLess ==
  ASSUME NEW c \in Seq(Glyphs), NEW p \in 1 .. Len(c),
         NEW less \in Nat, NEW more \in Nat, less <= more, p + more - 1 <= Len(c)
  PROVE  Copied(c, p, less) <= Copied(c, p, more)
<1>1. p + less - 1 <= Len(c)
  BY LenProperties
<1>2. PICK j \in 0 .. less : j = Copied(c, p, less) /\ FillsBuffer(c, p, less, j)
  BY <1>1, CopiedFills
<1>3. PICK k \in 0 .. more : k = Copied(c, p, more) /\ FillsBuffer(c, p, more, k)
  BY CopiedFills
<1>4. SUFFICES ASSUME k < j PROVE FALSE
  BY <1>2, <1>3
<1>5. PICK size \in [0 .. more -> Int] : size = RunBytes(c, p, more)
  BY BytesAdd
<1>6. k + 1 \in 0 .. more /\ j \in k + 1 .. more /\ k < more /\ j \in 0 .. more
  BY <1>4
<1>7. size[k + 1] <= size[j]
  BY <1>5, <1>6, BytesGrow
<1>8. size[k + 1] >= LineBufCap
  BY <1>3, <1>5, <1>6 DEF FillsBuffer
<1>9. size[j] < LineBufCap
  BY <1>2, <1>5, BytesAgree DEF FillsBuffer
<1>10. size[k + 1] \in Int /\ size[j] \in Int
  BY <1>5, <1>6
<1>11. QED
  BY <1>7, <1>8, <1>9, <1>10, CaptionAssumption

(* What one visible line draws, and where the next glyph would be.           *)
Budget(cw) == IF cw - MoreWidth < 0 THEN 0 ELSE cw - MoreWidth

WholeLine(c, l) == [off |-> l.off, len |-> Copied(c, l.off, l.len), more |-> FALSE]
ShortLine(c, l, cw) ==
  [off |-> l.off, len |-> Copied(c, l.off, FitEnd(c, l.off, Budget(cw)) - l.off), more |-> TRUE]

AreDrawn(drawn, c, cw, lines, visible, short) ==
  /\ DOMAIN drawn = 1 .. visible /\ Len(drawn) = visible
  /\ \A i \in 1 .. visible :
       drawn[i] = IF i = short THEN ShortLine(c, lines[i], cw) ELSE WholeLine(c, lines[i])

(* A card draws each visible line whole, and the last of a collapsed caption *)
(* as far as there is room for the suffix.                                   *)
LEMMA DrawnAre ==
  ASSUME NEW c \in Seq(Glyphs), NEW cw \in Int, NEW expanded \in BOOLEAN,
         NEW lines, lines = WrapCaption(c, cw), NEW total \in Nat, total = Len(lines),
         NEW visible, visible = VisibleLines(total, expanded),
         NEW short, short = IF Truncated(total, expanded) THEN visible ELSE 0
  PROVE  AreDrawn(DrawnLines(c, cw, expanded), c, cw, lines, visible, short)
<1>1. visible \in 0 .. total
  BY CaptionAssumption DEF VisibleLines, Truncated
<1>2. PICK drawn : drawn = DrawnLines(c, cw, expanded)
  OBVIOUS
<1>3. drawn = [i \in 1 .. visible |-> IF Truncated(total, expanded) /\ i = visible
                                      THEN ShortLine(c, lines[i], cw) ELSE WholeLine(c, lines[i])]
  BY <1>2 DEF DrawnLines, ShortLine, WholeLine, Budget
<1>4. \A i \in 1 .. visible : Truncated(total, expanded) /\ i = visible <=> i = short
  BY <1>1
<1>5. DOMAIN drawn = 1 .. visible
  BY <1>3
<1>6. Len(drawn) = visible
  <2>1. PICK S : \A i \in 1 .. visible : drawn[i] \in S
    <3>1. \A i \in 1 .. visible : drawn[i] \in {drawn[j] : j \in 1 .. visible}
      OBVIOUS
    <3>2. QED
      BY <3>1
  <2>2. drawn \in [1 .. visible -> S]
    BY <1>3, <2>1
  <2>3. drawn \in Seq(S)
    BY <1>1, <2>2, SeqDef
  <2>4. PICK n \in Nat : n = Len(drawn) /\ DOMAIN drawn = 1 .. n
    BY <2>3, LenProperties
  <2>5. n = visible
    BY <1>1, <1>5, <2>4
  <2>6. QED
    BY <2>4, <2>5
<1>7. AreDrawn(drawn, c, cw, lines, visible, short)
  BY <1>3, <1>4, <1>5, <1>6 DEF AreDrawn
<1>8. QED
  BY <1>2, <1>7

(* A line of a caption, and what of it is drawn.                             *)
LEMMA LinesAreRuns ==
  ASSUME NEW c \in Seq(Glyphs), NEW cw \in Int, NEW i \in 1 .. Len(WrapCaption(c, cw))
  PROVE  /\ WrapCaption(c, cw)[i].off \in 1 .. Len(c)
         /\ WrapCaption(c, cw)[i].len = FitEnd(c, WrapCaption(c, cw)[i].off, cw) - WrapCaption(c, cw)[i].off
<1>1. PICK at \in 1 .. Len(c) : WrapCaption(c, cw)[i] = LineAt(c, cw)[at]
  BY WrapsLinked DEF AreWrapped
<1>2. QED
  BY <1>1, LineOf

(* Less room, no longer a line. *)
LEMMA LessRoomLess ==
  ASSUME NEW c \in Seq(Glyphs), NEW cw \in Int, NEW p \in 1 .. Len(c)
  PROVE  FitEnd(c, p, Budget(cw)) <= FitEnd(c, p, cw)
<1>1. PICK n \in Nat : n = Len(c)
  BY LenProperties
<1>2. PICK q \in p .. n + 1 : q = FitEnd(c, p, cw)
  BY <1>1, LineOf
<1>3. Budget(cw) \in Int /\ Budget(cw) >= 0 /\ (cw >= 0 => Budget(cw) <= cw)
  BY CaptionAssumption DEF Budget
<1>4. StopsAt(c, p, cw, q)
  BY <1>1, <1>2, FitEndIsFirst
<1>5. StopsAt(c, p, Budget(cw), q)
  <2>1. CASE q > n \/ c[q] = Break
    BY <1>1, <2>1 DEF StopsAt
  <2>2. CASE ~(q > n \/ c[q] = Break)
    <3>1. PICK a \in [0 .. n -> Int] : a = Advance(c)
      BY <1>1, AdvanceAdds
    <3>2. cw >= 0 /\ q > p /\ a[q] - a[p - 1] - 1 > cw
      BY <1>1, <1>4, <2>2, <3>1 DEF StopsAt
    <3>3. PICK x \in Int, y \in Int : x = a[q] /\ y = a[p - 1]
      <4>1. q \in 0 .. n /\ p - 1 \in 0 .. n
        BY <1>2, <2>2
      <4>2. QED
        BY <3>1, <4>1
    <3>4. PICK b \in Int : b = Budget(cw)
      BY <1>3
    <3>5. x - y - 1 > b /\ b >= 0
      BY <1>3, <3>2, <3>3, <3>4
    <3>6. QED
      BY <3>1, <3>2, <3>3, <3>4, <3>5 DEF StopsAt
  <2>3. QED
    BY <2>1, <2>2
<1>6. q \in p .. Len(c) + 1
  BY <1>1, <1>2
<1>7. QED
  BY <1>2, <1>5, <1>6, FitEndIsFirst

(* The last line of a collapsed caption leaves room for its suffix, unless   *)
(* it is one glyph.                                                          *)
LEMMA DrawnLeaveRoom ==
  ASSUME NEW c \in Seq(Glyphs), NEW cw \in Int, NEW lines, lines = WrapCaption(c, cw),
         NEW visible \in 0 .. Len(lines), NEW short,
         NEW drawn, AreDrawn(drawn, c, cw, lines, visible, short),
         NEW i \in DOMAIN drawn
  PROVE  LeavesRoom(drawn[i], c, cw)
<1>1. PICK d : d = drawn[i]
  OBVIOUS
<1>2. SUFFICES ASSUME d.more, d.len > 1
               PROVE  RunWidth(c, d.off, LineEnd(d)) + MoreWidth <= cw
  BY <1>1 DEF LeavesRoom
<1>3. PICK total \in Nat : total = Len(lines)
  BY WrapIsLines
<1>4. i \in 1 .. visible /\ i \in 1 .. total
  <2>1. i \in 1 .. visible
    BY DEF AreDrawn
  <2>2. QED
    BY <1>3, <2>1
<1>5. d = ShortLine(c, lines[i], cw)
  <2>1. d = ShortLine(c, lines[i], cw) \/ d = WholeLine(c, lines[i])
    BY <1>1, <1>4 DEF AreDrawn
  <2>2. QED
    BY <1>2, <2>1 DEF WholeLine
<1>6. PICK n \in Nat : n = Len(c)
  BY LenProperties
<1>7. PICK p \in 1 .. n : p = lines[i].off
  BY <1>3, <1>4, <1>6, LinesAreRuns
<1>8. PICK b \in Int : b = Budget(cw) /\ b >= 0 /\ (b = 0 \/ b = cw - MoreWidth) /\ (cw - MoreWidth >= 0 => b = cw - MoreWidth)
  BY CaptionAssumption DEF Budget
<1>9. PICK f \in p .. n + 1 : f = FitEnd(c, p, b)
  BY <1>6, LineOf
<1>10. f - p \in Nat /\ p + (f - p) - 1 <= n
  BY <1>9
<1>11. PICK k \in 0 .. f - p : k = Copied(c, p, f - p)
  BY <1>6, <1>10, CopiedFills
<1>12. d.off = p /\ d.len = k
  BY <1>5, <1>7, <1>8, <1>9, <1>11 DEF ShortLine
<1>13. PICK q \in p .. n + 1 : LineEnd(d) = q /\ q = p + k /\ k > 1
  BY <1>2, <1>12 DEF LineEnd
<1>14. PICK a \in [0 .. n -> Int] :
         a = Advance(c) /\ \A j \in 1 .. n : a[j] = a[j - 1] + Adv[c[j]]
  BY <1>6, AdvanceAdds
<1>15. PICK last \in 1 .. n, second \in 1 .. n :
         /\ last = q - 1 /\ last \in p .. f - 1 /\ last > p
         /\ second = p + 1 /\ second \in p .. f - 1 /\ second > p /\ second - 1 = p
         /\ p \in p .. f - 1 /\ q # p
  BY <1>13
<1>16. PICK x \in Int, y \in Int : x = a[last] /\ y = a[p - 1]
  <2>1. last \in 0 .. n /\ p - 1 \in 0 .. n
    OBVIOUS
  <2>2. QED
    BY <1>14, <2>1
<1>17. ~(x - y - 1 > b)
  BY <1>6, <1>8, <1>9, <1>14, <1>15, <1>16, LineGoesOn
<1>18. RunWidth(c, p, q) = x - y - 1
  BY <1>6, <1>14, <1>15, <1>16, RunIsWide
<1>19. ~(cw - MoreWidth < 0)
  <2>1. SUFFICES ASSUME b = 0 PROVE FALSE
    BY <1>8
  <2>2. c[p] # Break /\ c[second] # Break
    BY <1>6, <1>9, <1>15, LineGoesOn
  <2>3. ASSUME NEW j \in 1 .. n, c[j] # Break PROVE Adv[c[j]] \in Int /\ Adv[c[j]] >= 6
    BY <1>6, <2>3 DEF Glyphs, Adv, Break
  <2>4. PICK z \in Int : z = a[second]
    <3>1. second \in 0 .. n
      OBVIOUS
    <3>2. QED
      BY <1>14, <3>1
  <2>5. PICK g \in Int, e \in Int : g = Adv[c[p]] /\ e = Adv[c[second]] /\ g >= 6 /\ e >= 6
    BY <2>2, <2>3
  <2>6. a[p] = y + g
    BY <1>14, <1>16, <2>5
  <2>7. z = (y + g) + e
    BY <1>14, <1>15, <2>4, <2>5, <2>6
  <2>8. ~(z - y - 1 > b)
    BY <1>6, <1>8, <1>9, <1>14, <1>15, <1>16, <2>4, LineGoesOn
  <2>9. g \in Int /\ e \in Int /\ g >= 6 /\ e >= 6
    BY <2>5
  <2>10. z - y - 1 >= 11
    BY <2>7, <2>9
  <2>11. QED
    BY <2>1, <2>8, <2>10
<1>20. b = cw - MoreWidth
  BY <1>8, <1>19, CaptionAssumption
<1>21. (x - y - 1) + MoreWidth <= cw
  BY <1>17, <1>20, CaptionAssumption
<1>22. QED
  BY <1>12, <1>13, <1>18, <1>21

(* What is drawn of a line that gives way to the suffix is a part of it.     *)
LEMMA ShortIsPart ==
  ASSUME NEW c \in Seq(Glyphs), NEW cw \in Int, NEW lines, lines = WrapCaption(c, cw),
         NEW i \in 1 .. Len(lines),
         NEW d \in {ShortLine(c, lines[i], cw), WholeLine(c, lines[i])},
         NEW whole, whole = WholeLine(c, lines[i])
  PROVE  d.off .. LineEnd(d) - 1 \subseteq whole.off .. LineEnd(whole) - 1
<1>1. PICK n \in Nat : n = Len(c)
  BY LenProperties
<1>2. PICK p \in 1 .. n : p = lines[i].off /\ lines[i].len = FitEnd(c, p, cw) - p
  BY <1>1, LinesAreRuns
<1>3. PICK q \in p .. n + 1 : q = FitEnd(c, p, cw)
  BY <1>1, LineOf
<1>4. PICK b : b = Budget(cw)
  OBVIOUS
<1>5. PICK f \in p .. n + 1 : f = FitEnd(c, p, b) /\ f <= q
  BY <1>1, <1>3, <1>4, LineOf, LessRoomLess
<1>6. f - p \in Nat /\ q - p \in Nat /\ f - p <= q - p /\ p + (q - p) - 1 <= n /\ p + (f - p) - 1 <= n
  BY <1>5
<1>7. PICK j \in Nat, k \in Nat : j = Copied(c, p, f - p) /\ k = Copied(c, p, q - p)
  <2>1. Copied(c, p, f - p) \in Nat /\ Copied(c, p, q - p) \in Nat
    BY <1>1, <1>6, CopiedFills
  <2>2. QED
    BY <2>1
<1>8. j <= k
  BY <1>1, <1>6, <1>7, CopiedLess
<1>9. whole.off = p /\ whole.len = k
  BY <1>2, <1>3, <1>7 DEF WholeLine
<1>10. d.off = p /\ d.len \in {j, k}
  BY <1>2, <1>3, <1>4, <1>5, <1>7 DEF ShortLine, WholeLine
<1>11. QED
  BY <1>8, <1>9, <1>10 DEF LineEnd

(* "More" says that something is hidden, and nothing is hidden without it.   *)
LEMMA DrawnHideMore ==
  ASSUME NEW c \in Seq(Glyphs), NEW cw \in Int, NEW lines, lines = WrapCaption(c, cw),
         NEW total \in Nat, total = Len(lines), NEW v \in 0 .. total, NEW short \in 0 .. total,
         NEW shut, AreDrawn(shut, c, cw, lines, v, short),
         NEW open, AreDrawn(open, c, cw, lines, total, 0),
         (short = 0 /\ v = total) \/ (short = v /\ 0 < v /\ v < total)
  PROVE  HidesMore(shut, open)
<1>1. /\ DOMAIN open = 1 .. total /\ Len(open) = total
      /\ \A i \in 1 .. total : open[i] = WholeLine(c, lines[i])
  <2>1. \A i \in 1 .. total : i # 0
    OBVIOUS
  <2>2. QED
    BY <2>1 DEF AreDrawn
<1>2. /\ DOMAIN shut = 1 .. v /\ Len(shut) = v
      /\ \A i \in 1 .. v : i \in 1 .. total
      /\ \A i \in 1 .. v : shut[i] = IF i = short THEN ShortLine(c, lines[i], cw) ELSE WholeLine(c, lines[i])
  BY DEF AreDrawn
<1>3. ASSUME NEW i \in 1 .. v
      PROVE  shut[i].off .. LineEnd(shut[i]) - 1 \subseteq open[i].off .. LineEnd(open[i]) - 1
  BY <1>1, <1>2, ShortIsPart
<1>4. GlyphsOf(shut) \subseteq GlyphsOf(open)
  <2>1. ASSUME NEW g \in GlyphsOf(shut) PROVE g \in GlyphsOf(open)
    <3>1. PICK i \in 1 .. v : g \in shut[i].off .. LineEnd(shut[i]) - 1
      BY <1>2 DEF GlyphsOf
    <3>2. i \in DOMAIN open /\ g \in open[i].off .. LineEnd(open[i]) - 1
      BY <1>1, <1>2, <1>3, <3>1
    <3>3. QED
      BY <3>2 DEF GlyphsOf
  <2>2. QED
    BY <2>1
<1>5. CASE short = v /\ 0 < v /\ v < total
  <2>1. v \in 1 .. v
    BY <1>5
  <2>2. shut[v] = ShortLine(c, lines[v], cw)
    BY <1>2, <1>5, <2>1
  <2>3. shut[v].more /\ v \in DOMAIN shut
    BY <1>2, <2>1, <2>2 DEF ShortLine
  <2>4. Len(open) > Len(shut)
    BY <1>1, <1>2, <1>5
  <2>5. QED
    BY <1>4, <2>3, <2>4 DEF HidesMore
<1>6. CASE short = 0 /\ v = total
  <2>1. ASSUME NEW i \in 1 .. v PROVE shut[i] = open[i] /\ ~shut[i].more
    <3>1. shut[i] = WholeLine(c, lines[i])
      <4>1. i # short
        BY <1>6
      <4>2. QED
        BY <1>2, <4>1
    <3>2. open[i] = WholeLine(c, lines[i])
      BY <1>1, <1>2
    <3>3. QED
      BY <3>1, <3>2 DEF WholeLine
  <2>2. GlyphsOf(shut) = GlyphsOf(open)
    BY <1>1, <1>2, <1>6, <2>1 DEF GlyphsOf
  <2>3. ~(Len(open) > Len(shut))
    BY <1>1, <1>2, <1>6
  <2>4. \A i \in DOMAIN shut : ~shut[i].more
    BY <1>2, <2>1
  <2>5. QED
    BY <1>4, <2>2, <2>3, <2>4 DEF HidesMore
<1>7. QED
  BY <1>5, <1>6

(* What a card shows, collapsed and expanded. *)
LEMMA CardsDraw ==
  ASSUME NEW c \in Seq(Glyphs), NEW cw \in Int
  PROVE  /\ \A i \in DOMAIN DrawnLines(c, cw, FALSE) : LeavesRoom(DrawnLines(c, cw, FALSE)[i], c, cw)
         /\ HidesMore(DrawnLines(c, cw, FALSE), DrawnLines(c, cw, TRUE))
<1>1. PICK lines : lines = WrapCaption(c, cw)
  OBVIOUS
<1>2. PICK total \in Nat : total = Len(lines)
  BY <1>1, WrapIsLines
<1>3. PICK shut, open : shut = DrawnLines(c, cw, FALSE) /\ open = DrawnLines(c, cw, TRUE)
  OBVIOUS
<1>4. PICK v \in 0 .. total : v = IF total > LinesCollapsed THEN LinesCollapsed ELSE total
  BY CaptionAssumption
<1>5. PICK short \in 0 .. total : short = IF total > LinesCollapsed THEN v ELSE 0
  OBVIOUS
<1>6. (short = 0 /\ v = total) \/ (short = v /\ 0 < v /\ v < total)
  BY <1>5, <1>4, CaptionAssumption
<1>7. AreDrawn(shut, c, cw, lines, v, short)
  <2>1. Truncated(total, FALSE) <=> total > LinesCollapsed
    BY DEF Truncated
  <2>2. v = VisibleLines(total, FALSE) /\ short = IF Truncated(total, FALSE) THEN v ELSE 0
    BY <1>5, <1>4, <2>1 DEF VisibleLines
  <2>3. QED
    BY <1>1, <1>2, <1>3, <2>2, DrawnAre
<1>8. AreDrawn(open, c, cw, lines, total, 0)
  <2>1. total = VisibleLines(total, TRUE) /\ 0 = IF Truncated(total, TRUE) THEN total ELSE 0
    BY DEF VisibleLines, Truncated
  <2>2. QED
    BY <1>1, <1>2, <1>3, <2>1, DrawnAre
<1>9. HidesMore(shut, open)
  BY <1>1, <1>2, <1>6, <1>7, <1>8, DrawnHideMore
<1>10. \A i \in DOMAIN shut : LeavesRoom(shut[i], c, cw)
  BY <1>1, <1>2, <1>7, DrawnLeaveRoom
<1>11. QED
  BY <1>3, <1>9, <1>10

(* Every caption that is tried is one of glyphs, shown as the code shows it. *)
Tried ==
  /\ subject \in {"none", "caption"}
  /\ subject = "caption" =>
       /\ input.text \in Seq(Glyphs) /\ input.width \in Int
       /\ DOMAIN input = {"text", "width"}
       /\ input = [text |-> input.text, width |-> input.width]
       /\ result = Shown(input.text, input.width)

(* Captions grow by glyphs of the font, at the width they were opened with.  *)
LEMMA TriedAlways == CaptionSpec => []Tried
<1>1. Start => Tried
  BY DEF Start, AtStart, Tried
<1>2. Tried /\ [CaptionNext]_trialVars => Tried'
  <2> SUFFICES ASSUME Tried, [CaptionNext]_trialVars PROVE Tried'
    OBVIOUS
  <2>1. CASE OpenCaption
    <3>1. PICK width \in CaptionWidths :
            /\ subject' = "caption" /\ input' = [text |-> << >>, width |-> width]
            /\ result' = Shown(<< >>, width)
      BY <2>1 DEF OpenCaption, Try
    <3>2. << >> \in Seq(Glyphs) /\ width \in Int
      BY MCCaptionAssumption
    <3>3. input'.text = << >> /\ input'.width = width
      BY <3>1
    <3>4. QED
      BY <3>1, <3>2, <3>3 DEF Tried
  <2>2. CASE GrowCaption
    <3>1. PICK g \in CaptionGlyphs :
            /\ subject = "caption" /\ subject' = subject
            /\ input' = [input EXCEPT !.text = Append(input.text, g)]
            /\ result' = Shown(Append(input.text, g), input.width)
      BY <2>2 DEF GrowCaption
    <3>2. PICK text \in Seq(Glyphs), width \in Int :
            /\ text = input.text /\ width = input.width
            /\ input = [text |-> text, width |-> width]
      BY <3>1 DEF Tried
    <3>3. PICK longer : longer = Append(text, g)
      OBVIOUS
    <3>4. longer \in Seq(Glyphs)
      BY <3>3, MCCaptionAssumption, AppendProperties DEF Glyphs
    <3>5. input' = [text |-> longer, width |-> width]
      BY <3>1, <3>2, <3>3
    <3>6. input'.text = longer /\ input'.width = width
      BY <3>5
    <3>7. result' = Shown(longer, width)
      BY <3>1, <3>2, <3>3
    <3>8. QED
      BY <3>1, <3>4, <3>5, <3>6, <3>7 DEF Tried
  <2>3. CASE Again
    BY <2>3 DEF Again, Tried
  <2>4. CASE UNCHANGED trialVars
    BY <2>4 DEF trialVars, Tried
  <2>5. QED
    BY <2>1, <2>2, <2>3, <2>4 DEF CaptionNext
<1>3. QED
  BY <1>1, <1>2, PTL DEF CaptionSpec

(* For every caption, width, cap and number of collapsed lines: the wrapped  *)
(* lines hold every glyph once, but for the breaks between them.             *)
THEOREM CaptionsKeepText == CaptionSpec => []WrapKeepsText
<1>1. Tried => WrapKeepsText
  BY WrapCovers DEF Tried, Shown, WrapKeepsText
<1>2. QED
  BY <1>1, TriedAlways, PTL

(* Every line holds what fits it, and the suffix fits after the last one.    *)
THEOREM CaptionsFillLines == CaptionSpec => []WrapIsGreedy
<1>1. Tried => WrapIsGreedy
  <2>1. SUFFICES ASSUME Tried, subject = "caption" PROVE WrapIsGreedy
    BY DEF WrapIsGreedy
  <2>2. PICK c \in Seq(Glyphs), width \in Int :
          c = input.text /\ width = input.width /\ result = Shown(c, width)
    BY <2>1 DEF Tried
  <2>3. result.lines = WrapCaption(c, width) /\ result.drawn[FALSE] = DrawnLines(c, width, FALSE)
    BY <2>2 DEF Shown
  <2>4. QED
    BY <2>2, <2>3, WrapFills, CardsDraw DEF WrapIsGreedy
<1>2. QED
  BY <1>1, TriedAlways, PTL

(* "More" is there exactly when there is more, however short the lines and   *)
(* the buffer they are drawn from.                                           *)
THEOREM CaptionsHideMore == CaptionSpec => []MoreMeansMore
<1>1. Tried => MoreMeansMore
  <2>1. SUFFICES ASSUME Tried, subject = "caption" PROVE MoreMeansMore
    BY DEF MoreMeansMore
  <2>2. PICK c \in Seq(Glyphs), width \in Int :
          c = input.text /\ width = input.width /\ result = Shown(c, width)
    BY <2>1 DEF Tried
  <2>3. \A expanded \in BOOLEAN : result.drawn[expanded] = DrawnLines(c, width, expanded)
    BY <2>2 DEF Shown
  <2>4. QED
    BY <2>2, <2>3, CardsDraw DEF MoreMeansMore
<1>2. QED
  BY <1>1, TriedAlways, PTL

-----------------------------------------------------------------------------
(* What a call draws                                                         *)

(* A natural is the quotient times the divisor and the remainder.            *)
LEMMA Division ==
  ASSUME NEW n \in Nat, NEW d \in Nat \ {0}
  PROVE  /\ n \div d \in Nat /\ n % d \in 0 .. d - 1
         /\ (n \div d) * d + (n % d) = n
<1>1. n % d \in 0 .. d - 1
  OBVIOUS
<1>2. n \div d \in Int /\ n \div d >= 0
  OBVIOUS
<1>3. PICK q \in Nat, r \in 0 .. d - 1 : q = n \div d /\ r = n % d
  BY <1>1, <1>2
<1>4. n - (n \div d) * d = n % d
  OBVIOUS
<1>5. n - q * d = r
  BY <1>3, <1>4
<1>6. q * d + r = n
  BY <1>5
<1>. QED BY <1>3, <1>6

(* There is one such quotient, and one such remainder.                       *)
LEMMA OneQuotient ==
  ASSUME NEW d \in Nat, NEW x \in 0 .. d - 1, NEW u \in 0 .. d - 1, NEW y \in Int, NEW v \in Int,
         y * d + x = v * d + u
  PROVE  x = u /\ y = v
OBVIOUS

(* Every address after the first of a surface is one column of one row.      *)
LEMMA Place ==
  ASSUME NEW s \in Surfaces, NEW a \in Nat, a >= s.base
  PROVE  /\ Column(s, a) \in 0 .. s.stride - 1 /\ Line(s, a) \in Nat
         /\ Addr(s, Column(s, a), Line(s, a)) = a
<1>1. PICK n \in Nat : n = a - s.base
  BY DEF Surfaces
<1>2. PICK d \in Nat \ {0} : d = s.stride
  BY DEF Surfaces
<1>3. Column(s, a) = n % d /\ Line(s, a) = n \div d
  BY <1>1, <1>2 DEF Column, Line
<1>4. /\ n \div d \in Nat /\ n % d \in 0 .. d - 1
      /\ (n \div d) * d + (n % d) = n
  BY Division
<1>5. PICK q \in Nat, r \in 0 .. d - 1 : q = n \div d /\ r = n % d /\ q * d + r = n
  BY <1>4
<1>6. PICK b \in Nat : b = s.base
  BY DEF Surfaces
<1>7. Addr(s, r, q) = b + (q * d) + r
  BY <1>2, <1>6 DEF Addr
<1>8. a = b + n
  BY <1>1, <1>6
<1>9. Addr(s, r, q) = a
  BY <1>5, <1>7, <1>8
<1>. QED BY <1>2, <1>3, <1>5, <1>9

(* The address of a point of a surface is that of no other point of it.      *)
LEMMA Position ==
  ASSUME NEW s \in Surfaces, NEW a \in Nat, NEW x \in Int, NEW y \in Int,
         0 <= x, x < s.w, 0 <= y
  PROVE  a = Addr(s, x, y) <=> a >= s.base /\ x = Column(s, a) /\ y = Line(s, a)
<1>0. s.base \in Nat /\ s.w \in Nat /\ s.stride \in Nat \ {0} /\ s.w <= s.stride
  BY DEF Surfaces
<1>1. CASE a = Addr(s, x, y)
  <2>1. PICK d \in Nat : d = s.stride
    BY <1>0
  <2>2. y * d >= 0
    BY <2>1
  <2>3. a >= s.base
    BY <1>0, <1>1, <2>1, <2>2 DEF Addr
  <2>4. PICK u \in 0 .. d - 1, v \in Nat : u = Column(s, a) /\ v = Line(s, a) /\ Addr(s, u, v) = a
    BY <2>1, <2>3, Place
  <2>5. v * d + u = y * d + x
    BY <1>0, <1>1, <2>1, <2>4 DEF Addr
  <2>6. x \in 0 .. d - 1
    BY <1>0, <2>1
  <2>7. x = u /\ y = v
    BY <2>5, <2>6, OneQuotient
  <2>. QED BY <1>1, <2>3, <2>4, <2>7
<1>2. CASE a >= s.base /\ x = Column(s, a) /\ y = Line(s, a)
  BY <1>2, Place
<1>. QED BY <1>1, <1>2

(* The addresses of a surface that a rectangle covers.                       *)
Touched(s, r, a) == OnSurface(s, a) /\ Within(r, Column(s, a), Line(s, a))

(* clip_rect leaves the points of the rectangle that lie on the surface.     *)
LEMMA ClipIs ==
  ASSUME NEW s \in Surfaces, NEW r \in Rectangles, NEW x \in Int, NEW y \in Int
  PROVE  /\ Clip(s, r) \in Rectangles
         /\ (/\ x \in Clip(s, r).x .. Clip(s, r).x + Clip(s, r).w - 1
             /\ y \in Clip(s, r).y .. Clip(s, r).y + Clip(s, r).h - 1)
            <=> (Within(r, x, y) /\ 0 <= x /\ x < s.w /\ 0 <= y /\ y < s.h)
<1>1. PICK cols \in Nat, rows \in Nat : cols = s.w /\ rows = s.h
  BY DEF Surfaces
<1>2. PICK rx \in Int, ry \in Int, rw \in Int, rh \in Int :
        r.x = rx /\ r.y = ry /\ r.w = rw /\ r.h = rh
  BY DEF Rectangles
<1>. QED BY <1>1, <1>2 DEF Clip, Within, Greater, Smaller, Empty, Rectangle, Rectangles

(* So a loop over what it leaves visits these addresses and no others.       *)
LEMMA CellsTouched ==
  ASSUME NEW s \in Surfaces, NEW r \in Rectangles, NEW a \in Nat
  PROVE  a \in Cells(s, Clip(s, r)) <=> Touched(s, r, a)
<1>1. PICK c \in Rectangles : c = Clip(s, r)
  BY ClipIs
<1>2. \A x, y \in Int : (x \in c.x .. c.x + c.w - 1 /\ y \in c.y .. c.y + c.h - 1)
            <=> (Within(r, x, y) /\ 0 <= x /\ x < s.w /\ 0 <= y /\ y < s.h)
  BY <1>1, ClipIs
<1>3. s.w \in Nat /\ s.h \in Nat
  BY DEF Surfaces
<1>4. ASSUME a \in Cells(s, c) PROVE Touched(s, r, a)
  <2>1. PICK x \in c.x .. c.x + c.w - 1, y \in c.y .. c.y + c.h - 1 : a = Addr(s, x, y)
    BY <1>4 DEF Cells
  <2>2. x \in Int /\ y \in Int
    BY <1>1 DEF Rectangles
  <2>3. Within(r, x, y) /\ 0 <= x /\ x < s.w /\ 0 <= y /\ y < s.h
    BY <1>2, <2>1, <2>2
  <2>4. a >= s.base /\ x = Column(s, a) /\ y = Line(s, a)
    BY <2>1, <2>2, <2>3, Position
  <2>. QED BY <2>3, <2>4 DEF Touched, OnSurface
<1>5. ASSUME Touched(s, r, a) PROVE a \in Cells(s, c)
  <2>1. PICK x \in Int, y \in Int : /\ x = Column(s, a) /\ y = Line(s, a) /\ Addr(s, x, y) = a
                                    /\ 0 <= x /\ 0 <= y
    BY <1>5, Place DEF Touched, OnSurface, Surfaces
  <2>2. x < s.w /\ y < s.h /\ Within(r, x, y)
    BY <1>5, <2>1 DEF Touched, OnSurface
  <2>3. x \in c.x .. c.x + c.w - 1 /\ y \in c.y .. c.y + c.h - 1
    BY <1>2, <2>1, <2>2
  <2>. QED BY <2>1, <2>3 DEF Cells
<1>. QED BY <1>1, <1>4, <1>5

(* A filled rectangle.                                                       *)
LEMMA Filled ==
  ASSUME NEW s \in Surfaces, NEW r \in Rectangles, NEW m, DOMAIN m \subseteq Nat, NEW c
  PROVE  FillRect(m, s, r, c) = [a \in DOMAIN m |-> IF Touched(s, r, a) THEN c ELSE m[a]]
BY CellsTouched DEF FillRect

(* Filling the surface is filling the rectangle that it is.                  *)
LEMMA Cleared ==
  ASSUME NEW s \in Surfaces, NEW m, NEW c
  PROVE  Fill(m, s, c) = FillRect(m, s, Rectangle(0, 0, s.w, s.h), c)
<1>1. PICK cols \in Nat, rows \in Nat : cols = s.w /\ rows = s.h
  BY DEF Surfaces
<1>2. CASE cols = 0 \/ rows = 0
  <2>1. Clip(s, Rectangle(0, 0, s.w, s.h)) = Empty
    BY <1>1, <1>2 DEF Clip, Rectangle, Greater, Smaller
  <2>2. Cells(s, Empty) = {}
    BY DEF Cells, Empty, Rectangle
  <2>3. Cells(s, Rectangle(0, 0, s.w, s.h)) = {}
    BY <1>1, <1>2 DEF Cells, Rectangle
  <2>. QED BY <2>1, <2>2, <2>3 DEF Fill, FillRect
<1>3. CASE cols > 0 /\ rows > 0
  <2>1. Clip(s, Rectangle(0, 0, s.w, s.h)) = Rectangle(0, 0, s.w, s.h)
    BY <1>1, <1>3 DEF Clip, Rectangle, Greater, Smaller
  <2>. QED BY <2>1 DEF Fill, FillRect
<1>. QED BY <1>1, <1>2, <1>3

(* A memory is a function of addresses.                                      *)
IsMemory(m) == DOMAIN m \subseteq Nat /\ m = [a \in DOMAIN m |-> m[a]]

(* Where an address of a surface lies.                                       *)
LEMMA PlacedAt ==
  ASSUME NEW s \in Surfaces, NEW a \in Nat, OnSurface(s, a)
  PROVE  /\ Column(s, a) \in Int /\ Line(s, a) \in Int
         /\ 0 <= Column(s, a) /\ 0 <= Line(s, a) /\ Addr(s, Column(s, a), Line(s, a)) = a
BY Place DEF OnSurface, Surfaces

(* A memory with one rectangle of a colour.                                  *)
Painted(m, s, r, c) == [a \in DOMAIN m |-> IF Touched(s, r, a) THEN c ELSE m[a]]

(* Lines are rectangles of one row or one column.                            *)
LEMMA LinesDrawn ==
  ASSUME NEW s \in Surfaces, NEW m, DOMAIN m \subseteq Nat, NEW c, NEW x \in Int,
         NEW y \in Int, NEW n \in Int
  PROVE  /\ HLine(m, s, x, y, n, c) = Painted(m, s, Rectangle(x, y, n, 1), c)
         /\ VLine(m, s, x, y, n, c) = Painted(m, s, Rectangle(x, y, 1, n), c)
<1>1. Rectangle(x, y, n, 1) \in Rectangles /\ Rectangle(x, y, 1, n) \in Rectangles
  BY DEF Rectangle, Rectangles
<1>. QED BY <1>1, Filled DEF HLine, VLine, Painted

(* A memory with the edge of a rectangle in two colours.                     *)
Edged(m, s, r, first, last) ==
  [a \in DOMAIN m |->
     IF OnSurface(s, a) /\ OnEdge(r, Column(s, a), Line(s, a))
     THEN IF LastEdge(r, Column(s, a), Line(s, a)) THEN last ELSE first
     ELSE m[a]]

(* The four lines of a bevel are its edge, the later two over the first.     *)
LEMMA Beveled ==
  ASSUME NEW s \in Surfaces, NEW r \in Rectangles, NEW m, IsMemory(m), NEW light, NEW dark
  PROVE  Bevel(m, s, r, light, dark) = Edged(m, s, r, light, dark)
<1>1. PICK x \in Int, y \in Int, cols \in Int, rows \in Int :
        r.x = x /\ r.y = y /\ r.w = cols /\ r.h = rows
  BY DEF Rectangles
<1>2. CASE cols <= 0 \/ rows <= 0
  <2>1. \A u, v \in Int : ~OnEdge(r, u, v)
    BY <1>1, <1>2 DEF OnEdge, Within
  <2>2. \A a \in DOMAIN m : ~(OnSurface(s, a) /\ OnEdge(r, Column(s, a), Line(s, a)))
    BY <2>1, PlacedAt DEF IsMemory
  <2>3. Edged(m, s, r, light, dark) = [a \in DOMAIN m |-> m[a]]
    BY <2>2 DEF Edged
  <2>. QED BY <1>1, <1>2, <2>3 DEF Bevel, IsMemory
<1>3. CASE ~(cols <= 0 \/ rows <= 0)
  <2>1. PICK top : top = Painted(m, s, Rectangle(x, y, cols, 1), light)
    OBVIOUS
  <2>2. PICK left : left = Painted(top, s, Rectangle(x, y, 1, rows), light)
    OBVIOUS
  <2>3. PICK bottom : bottom = Painted(left, s, Rectangle(x, y + rows - 1, cols, 1), dark)
    OBVIOUS
  <2>4. PICK right : right = Painted(bottom, s, Rectangle(x + cols - 1, y, 1, rows), dark)
    OBVIOUS
  <2>5. DOMAIN top = DOMAIN m /\ DOMAIN left = DOMAIN m /\ DOMAIN bottom = DOMAIN m
        /\ DOMAIN right = DOMAIN m
    BY <2>1, <2>2, <2>3, <2>4 DEF Painted
  <2>6. Bevel(m, s, r, light, dark) = right
    BY <1>1, <1>3, <2>1, <2>2, <2>3, <2>4, <2>5, LinesDrawn DEF Bevel, IsMemory
  <2>7. ASSUME NEW a \in DOMAIN m PROVE right[a] = Edged(m, s, r, light, dark)[a]
    <3>1. CASE OnSurface(s, a)
      <4>1. PICK u \in Int, v \in Int : u = Column(s, a) /\ v = Line(s, a)
        BY <3>1, PlacedAt DEF IsMemory
      <4>2. /\ top[a] = IF Within(Rectangle(x, y, cols, 1), u, v) THEN light ELSE m[a]
            /\ left[a] = IF Within(Rectangle(x, y, 1, rows), u, v) THEN light ELSE top[a]
            /\ bottom[a] = IF Within(Rectangle(x, y + rows - 1, cols, 1), u,
                 v) THEN dark ELSE left[a]
            /\ right[a] = IF Within(Rectangle(x + cols - 1, y, 1, rows), u,
                 v) THEN dark ELSE bottom[a]
        BY <2>1, <2>2, <2>3, <2>4, <2>5, <3>1, <4>1 DEF Painted, Touched
      <4>3. Edged(m, s, r, light, dark)[a] =
              IF OnEdge(r, u, v) THEN IF LastEdge(r, u, v) THEN dark ELSE light ELSE m[a]
        BY <3>1, <4>1 DEF Edged
      <4>. QED BY <1>1, <1>3, <4>2, <4>3 DEF Within, OnEdge, LastEdge, Inner, Rectangle
    <3>2. CASE ~OnSurface(s, a)
      BY <2>1, <2>2, <2>3, <2>4, <2>5, <3>2 DEF Painted, Touched, Edged
    <3>. QED BY <3>1, <3>2
  <2>8. right = [a \in DOMAIN m |-> right[a]]
    BY <2>4, <2>5 DEF Painted
  <2>9. DOMAIN Edged(m, s, r, light, dark) = DOMAIN m
    BY DEF Edged
  <2>. QED BY <2>6, <2>7, <2>8, <2>9 DEF Edged
<1>. QED BY <1>2, <1>3, <1>1

(* The four lines of a frame are an edge of one colour.                      *)
LEMMA Framed ==
  ASSUME NEW s \in Surfaces, NEW r \in Rectangles, NEW m, IsMemory(m), NEW c
  PROVE  Frame(m, s, r, c) = Edged(m, s, r, c, c)
<1>1. PICK x \in Int, y \in Int, cols \in Int, rows \in Int :
        r.x = x /\ r.y = y /\ r.w = cols /\ r.h = rows
  BY DEF Rectangles
<1>2. CASE cols <= 0 \/ rows <= 0
  <2>1. \A u, v \in Int : ~OnEdge(r, u, v)
    BY <1>1, <1>2 DEF OnEdge, Within
  <2>2. \A a \in DOMAIN m : ~(OnSurface(s, a) /\ OnEdge(r, Column(s, a), Line(s, a)))
    BY <2>1, PlacedAt DEF IsMemory
  <2>3. Edged(m, s, r, c, c) = [a \in DOMAIN m |-> m[a]]
    BY <2>2 DEF Edged
  <2>. QED BY <1>1, <1>2, <2>3 DEF Frame, IsMemory
<1>3. CASE ~(cols <= 0 \/ rows <= 0)
  <2>1. PICK top : top = Painted(m, s, Rectangle(x, y, cols, 1), c)
    OBVIOUS
  <2>2. PICK bottom : bottom = Painted(top, s, Rectangle(x, y + rows - 1, cols, 1), c)
    OBVIOUS
  <2>3. PICK left : left = Painted(bottom, s, Rectangle(x, y, 1, rows), c)
    OBVIOUS
  <2>4. PICK right : right = Painted(left, s, Rectangle(x + cols - 1, y, 1, rows), c)
    OBVIOUS
  <2>5. DOMAIN top = DOMAIN m /\ DOMAIN left = DOMAIN m /\ DOMAIN bottom = DOMAIN m
        /\ DOMAIN right = DOMAIN m
    BY <2>1, <2>2, <2>3, <2>4 DEF Painted
  <2>6. Frame(m, s, r, c) = right
    BY <1>1, <1>3, <2>1, <2>2, <2>3, <2>4, <2>5, LinesDrawn DEF Frame, IsMemory
  <2>7. ASSUME NEW a \in DOMAIN m PROVE right[a] = Edged(m, s, r, c, c)[a]
    <3>1. CASE OnSurface(s, a)
      <4>1. PICK u \in Int, v \in Int : u = Column(s, a) /\ v = Line(s, a)
        BY <3>1, PlacedAt DEF IsMemory
      <4>2. /\ top[a] = IF Within(Rectangle(x, y, cols, 1), u, v) THEN c ELSE m[a]
            /\ bottom[a] = IF Within(Rectangle(x, y + rows - 1, cols, 1), u, v) THEN c ELSE top[a]
            /\ left[a] = IF Within(Rectangle(x, y, 1, rows), u, v) THEN c ELSE bottom[a]
            /\ right[a] = IF Within(Rectangle(x + cols - 1, y, 1, rows), u, v) THEN c ELSE left[a]
        BY <2>1, <2>2, <2>3, <2>4, <2>5, <3>1, <4>1 DEF Painted, Touched
      <4>3. Edged(m, s, r, c, c)[a] =
              IF OnEdge(r, u, v) THEN IF LastEdge(r, u, v) THEN c ELSE c ELSE m[a]
        BY <3>1, <4>1 DEF Edged
      <4>. QED BY <1>1, <1>3, <4>2, <4>3 DEF Within, OnEdge, LastEdge, Inner, Rectangle
    <3>2. CASE ~OnSurface(s, a)
      BY <2>1, <2>2, <2>3, <2>4, <2>5, <3>2 DEF Painted, Touched, Edged
    <3>. QED BY <3>1, <3>2
  <2>8. right = [a \in DOMAIN m |-> right[a]]
    BY <2>4, <2>5 DEF Painted
  <2>9. DOMAIN Edged(m, s, r, c, c) = DOMAIN m
    BY DEF Edged
  <2>. QED BY <2>6, <2>7, <2>8, <2>9 DEF Edged
<1>. QED BY <1>2, <1>3, <1>1

(* What is left is a memory over the same addresses.                         *)
LEMMA EdgedIsMemory ==
  ASSUME NEW s, NEW r, NEW m, IsMemory(m), NEW first, NEW last
  PROVE  IsMemory(Edged(m, s, r, first, last)) /\ DOMAIN Edged(m, s, r, first, last) = DOMAIN m
BY DEF Edged, IsMemory

(* The inside of a panel is a rectangle.                                     *)
LEMMA InnerIs ==
  ASSUME NEW r \in Rectangles
  PROVE  Inner(r) \in Rectangles
<1>1. PICK x \in Int, y \in Int, cols \in Int, rows \in Int :
        r.x = x /\ r.y = y /\ r.w = cols /\ r.h = rows
  BY DEF Rectangles
<1>2. Inner(r) = Rectangle(x + 1, y + 1, cols - 2, rows - 2)
  BY <1>1 DEF Inner
<1>. QED BY <1>2 DEF Rectangle, Rectangles

(* Two bevels, one inside the other: no pixel is on the edge of both.        *)
LEMMA Paneled ==
  ASSUME NEW s \in Surfaces, NEW r \in Rectangles, NEW m, IsMemory(m),
         NEW c1, NEW c2, NEW c3, NEW c4
  PROVE  Bevel(Bevel(m, s, r, c1, c2), s, Inner(r), c3, c4) =
           [a \in DOMAIN m |->
              IF OnSurface(s, a)
              THEN Edges(r, Column(s, a), Line(s, a), c1, c2,
                         Edges(Inner(r), Column(s, a), Line(s, a), c3, c4, m[a]))
              ELSE m[a]]
<1>1. PICK outer : outer = Edged(m, s, r, c1, c2)
  OBVIOUS
<1>2. IsMemory(outer) /\ DOMAIN outer = DOMAIN m
  BY <1>1, EdgedIsMemory
<1>3. PICK inner \in Rectangles : inner = Inner(r)
  BY InnerIs
<1>4. Bevel(Bevel(m, s, r, c1, c2), s, Inner(r), c3, c4) = Edged(outer, s, inner, c3, c4)
  BY <1>1, <1>2, <1>3, Beveled
<1>5. ASSUME NEW a \in DOMAIN m
      PROVE  Edged(outer, s, inner, c3, c4)[a] =
               IF OnSurface(s, a)
               THEN Edges(r, Column(s, a), Line(s, a), c1, c2,
                          Edges(inner, Column(s, a), Line(s, a), c3, c4, m[a]))
               ELSE m[a]
  <2>1. CASE OnSurface(s, a)
    <3>1. PICK u \in Int, v \in Int : u = Column(s, a) /\ v = Line(s, a)
      BY <2>1, PlacedAt DEF IsMemory
    <3>2. outer[a] = IF OnEdge(r, u, v) THEN IF LastEdge(r, u, v) THEN c2 ELSE c1 ELSE m[a]
      BY <1>1, <2>1, <3>1 DEF Edged
    <3>3. Edged(outer, s, inner, c3, c4)[a] =
            IF OnEdge(inner, u, v) THEN IF LastEdge(inner, u, v) THEN c4 ELSE c3 ELSE outer[a]
      BY <1>2, <2>1, <3>1 DEF Edged
    <3>4. OnEdge(inner, u, v) => ~OnEdge(r, u, v)
      BY <1>3 DEF OnEdge
    <3>. QED BY <1>3, <2>1, <3>1, <3>2, <3>3, <3>4 DEF Edges
  <2>2. CASE ~OnSurface(s, a)
    BY <1>1, <1>2, <2>2 DEF Edged
  <2>. QED BY <2>1, <2>2
<1>. QED BY <1>2, <1>3, <1>4, <1>5 DEF Edged

(* A blended rectangle.                                                      *)
LEMMA BlendIs ==
  ASSUME NEW s \in Surfaces, NEW r \in Rectangles, NEW m, DOMAIN m \subseteq Nat, NEW c
  PROVE  BlendRect(m, s, r, c) =
           [a \in DOMAIN m |-> IF Touched(s, r, a) THEN BlendOver(m[a], c) ELSE m[a]]
BY CellsTouched DEF BlendRect

(* The memory after the first k rows of a gradient.                          *)
Graded(m, s, r, k, top, bot) ==
  [a \in DOMAIN m |->
     IF Touched(s, Rectangle(r.x, r.y, r.w, k), a)
     THEN GradientRow(Line(s, a) - r.y, r.h, top, bot)
     ELSE m[a]]

(* Each row adds a line to the rows before it.                               *)
LEMMA RowGraded ==
  ASSUME NEW s \in Surfaces, NEW r \in Rectangles, NEW m, IsMemory(m), NEW top, NEW bot,
         NEW k \in Nat, k > 0
  PROVE  Graded(m, s, r, k, top, bot) =
           HLine(Graded(m, s, r, k - 1, top, bot), s, r.x, r.y + k - 1, r.w,
                 GradientRow(k - 1, r.h, top, bot))
<1>1. PICK x \in Int, y \in Int, cols \in Int : r.x = x /\ r.y = y /\ r.w = cols
  BY DEF Rectangles
<1>2. PICK before : before = Graded(m, s, r, k - 1, top, bot)
  OBVIOUS
<1>3. PICK c : c = GradientRow(k - 1, r.h, top, bot)
  OBVIOUS
<1>4. DOMAIN before = DOMAIN m /\ DOMAIN m \subseteq Nat
  BY <1>2 DEF Graded, IsMemory
<1>5. y + k - 1 \in Int
  OBVIOUS
<1>6. HLine(before, s, x, y + k - 1, cols, c) = Painted(before, s, Rectangle(x, y + k - 1,
      cols, 1), c)
  BY <1>4, <1>5, LinesDrawn
<1>7. ASSUME NEW a \in DOMAIN m
      PROVE  Painted(before, s, Rectangle(x, y + k - 1, cols, 1), c)[a] = Graded(m, s, r, k,
             top, bot)[a]
  <2>1. CASE OnSurface(s, a)
    <3>1. PICK u \in Int, v \in Int : u = Column(s, a) /\ v = Line(s, a)
      BY <1>4, <2>1, PlacedAt
    <3>2. before[a] = IF Within(Rectangle(x, y, cols, k - 1), u, v)
                      THEN GradientRow(v - y, r.h, top, bot) ELSE m[a]
      BY <1>1, <1>2, <2>1, <3>1 DEF Graded, Touched
    <3>3. Painted(before, s, Rectangle(x, y + k - 1, cols, 1), c)[a] =
            IF Within(Rectangle(x, y + k - 1, cols, 1), u, v) THEN c ELSE before[a]
      BY <1>4, <2>1, <3>1 DEF Painted, Touched
    <3>4. Graded(m, s, r, k, top, bot)[a] =
            IF Within(Rectangle(x, y, cols, k), u, v)
            THEN GradientRow(v - y, r.h, top, bot) ELSE m[a]
      BY <1>1, <2>1, <3>1 DEF Graded, Touched
    <3>5. Within(Rectangle(x, y, cols, k), u, v)
            <=> Within(Rectangle(x, y, cols, k - 1), u, v) \/ Within(Rectangle(x, y + k - 1,
                cols, 1), u, v)
      BY DEF Within, Rectangle
    <3>6. Within(Rectangle(x, y + k - 1, cols, 1), u, v) => v - y = k - 1
      BY DEF Within, Rectangle
    <3>. QED BY <1>3, <3>2, <3>3, <3>4, <3>5, <3>6
  <2>2. CASE ~OnSurface(s, a)
    BY <1>2, <1>4, <2>2 DEF Painted, Graded, Touched
  <2>. QED BY <2>1, <2>2
<1>. QED BY <1>1, <1>2, <1>3, <1>4, <1>6, <1>7 DEF Painted, Graded

(* No rows change nothing.                                                   *)
LEMMA GradedNone ==
  ASSUME NEW s \in Surfaces, NEW r \in Rectangles, NEW m, IsMemory(m), NEW top, NEW bot
  PROVE  Graded(m, s, r, 0, top, bot) = m
<1>1. PICK x \in Int, y \in Int, cols \in Int : r.x = x /\ r.y = y /\ r.w = cols
  BY DEF Rectangles
<1>2. \A u, v \in Int : ~Within(Rectangle(r.x, r.y, r.w, 0), u, v)
  BY <1>1 DEF Within, Rectangle
<1>3. \A a \in DOMAIN m : ~Touched(s, Rectangle(r.x, r.y, r.w, 0), a)
  BY <1>2, PlacedAt DEF IsMemory, Touched
<1>. QED BY <1>3 DEF Graded, IsMemory

(* The rows together are the rectangle, each pixel in its row's colour.      *)
LEMMA GradientIs ==
  ASSUME NEW s \in Surfaces, NEW r \in Rectangles, NEW m, IsMemory(m), NEW top, NEW bot
  PROVE  GradientV(m, s, r, top, bot) =
           [a \in DOMAIN m |->
              IF Touched(s, r, a) THEN GradientRow(Line(s, a) - r.y, r.h, top, bot) ELSE m[a]]
<1>1. PICK x \in Int, y \in Int, cols \in Int, rows \in Int :
        r.x = x /\ r.y = y /\ r.w = cols /\ r.h = rows
  BY DEF Rectangles
<1>2. PICK n \in Nat : n = Greater(r.h, 0)
  BY <1>1 DEF Greater
<1> DEFINE NextRow(before, k) == HLine(before, s, r.x, r.y + k - 1, r.w, GradientRow(k - 1,
    r.h, top, bot))
           Is(f) == f = [k \in 0 .. Greater(r.h, 0) |-> IF k = 0 THEN m ELSE NextRow(f[k - 1], k)]
           G == [k \in 0 .. Greater(r.h, 0) |-> Graded(m, s, r, k, top, bot)]
<1>3. Is(G)
  <2>1. G[0] = m
    BY <1>2, GradedNone
  <2>2. ASSUME NEW k \in 0 .. n, k # 0 PROVE G[k] = NextRow(G[k - 1], k)
    <3>1. k - 1 \in 0 .. n /\ k \in Nat /\ k > 0
      BY <1>2, <2>2
    <3>2. G[k] = Graded(m, s, r, k, top, bot) /\ G[k - 1] = Graded(m, s, r, k - 1, top, bot)
      BY <1>2, <3>1
    <3>. QED BY <3>1, <3>2, RowGraded
  <2> HIDE DEF NextRow
  <2>. QED BY <1>2, <2>1, <2>2
<1>4. Is(CHOOSE f : Is(f))
  BY <1>3
<1>5. GradientV(m, s, r, top, bot) = (CHOOSE f : Is(f))[Greater(r.h, 0)]
  BY DEF GradientV
<1>6. PICK f : f = (CHOOSE g : Is(g))
  OBVIOUS
<1>7. Is(f)
  BY <1>4, <1>6, Zenon
<1> HIDE DEF NextRow
<1>8. f[0] = m /\ \A k \in 1 .. n : f[k] = NextRow(f[k - 1], k)
  BY <1>2, <1>7
<1> DEFINE T == {k \in 0 .. n : f[k] = Graded(m, s, r, k, top, bot)}
<1>9. 0 .. n \subseteq T
  <2>1. 0 \in T
    BY <1>8, GradedNone
  <2>2. ASSUME NEW k \in 0 .. n, k # 0, k - 1 \in T PROVE k \in T
    <3>1. f[k] = NextRow(Graded(m, s, r, k - 1, top, bot), k)
      BY <1>8, <2>2
    <3>2. k \in Nat /\ k > 0
      BY <2>2
    <3>. QED BY <3>1, <3>2, RowGraded DEF NextRow
  <2> HIDE DEF T
  <2>. QED BY <2>1, <2>2, UpFrom
<1>10. GradientV(m, s, r, top, bot) = Graded(m, s, r, n, top, bot)
  BY <1>2, <1>5, <1>6, <1>9
<1>11. ASSUME NEW a \in DOMAIN m
       PROVE  Touched(s, Rectangle(r.x, r.y, r.w, n), a) <=> Touched(s, r, a)
  <2>1. CASE OnSurface(s, a)
    <3>1. PICK u \in Int, v \in Int : u = Column(s, a) /\ v = Line(s, a)
      BY <2>1, PlacedAt DEF IsMemory
    <3>. QED BY <1>1, <1>2, <3>1 DEF Touched, Within, Rectangle, Greater
  <2>. QED BY <2>1 DEF Touched
<1>. QED BY <1>10, <1>11 DEF Graded

(* The calls that draw a rectangle.                                          *)
Calls == {"fill", "blend", "frame", "raised", "sunken", "gradient"}

(* What a call asks of the whole memory.                                     *)
AskedEverywhere(op, r) ==
  [a \in DOMAIN Ground |->
     IF OnSurface(Canvas, a)
     THEN Asked(op, r, Column(Canvas, a), Line(Canvas, a), Ground[a])
     ELSE Ground[a]]

(* Each of them does what is asked of it, and nothing else.                  *)
LEMMA RectIsDrawn ==
  ASSUME NEW op \in Calls, NEW r \in Rectangles
  PROVE  Drawn(op, r) = AskedEverywhere(op, r)
<1>1. Canvas \in Surfaces /\ IsMemory(Ground) /\ DOMAIN Ground \subseteq Nat
  BY MCRasterAssumption DEF IsMemory
<1>2. \A a \in DOMAIN Ground : Touched(Canvas, r, a) <=>
         OnSurface(Canvas, a) /\ Within(r, Column(Canvas, a), Line(Canvas, a))
  BY DEF Touched
<1> USE DEF AskedEverywhere, Asked
<1>3. CASE op = "fill"
  <2>1. Drawn(op, r) = FillRect(Ground, Canvas, r, Colour)
    BY <1>3 DEF Drawn
  <2>. QED BY <1>1, <1>2, <1>3, <2>1, Filled
<1>4. CASE op = "blend"
  <2>1. Drawn(op, r) = BlendRect(Ground, Canvas, r, Clear)
    BY <1>4 DEF Drawn
  <2>. QED BY <1>1, <1>2, <1>4, <2>1, BlendIs
<1>5. CASE op = "frame"
  <2>1. Drawn(op, r) = Edged(Ground, Canvas, r, Colour, Colour)
    BY <1>1, <1>5, Framed DEF Drawn
  <2>. QED BY <1>5, <2>1 DEF Edged, OnEdge
<1>6. CASE op = "gradient"
  <2>1. Drawn(op, r) = GradientV(Ground, Canvas, r, Top, Bottom)
    BY <1>6 DEF Drawn
  <2>. QED BY <1>1, <1>2, <1>6, <2>1, GradientIs
<1>7. ASSUME NEW a \in DOMAIN Ground, NEW c1, NEW c2, NEW c3, NEW c4, NEW old,
      OnSurface(Canvas, a),
             ~Within(r, Column(Canvas, a), Line(Canvas, a))
      PROVE  Edges(r, Column(Canvas, a), Line(Canvas, a), c1, c2,
                   Edges(Inner(r), Column(Canvas, a), Line(Canvas, a), c3, c4, old)) = old
  <2>1. PICK u \in Int, v \in Int : u = Column(Canvas, a) /\ v = Line(Canvas, a)
    BY <1>1, <1>7, PlacedAt
  <2>2. PICK x \in Int, y \in Int, cols \in Int, rows \in Int :
          r.x = x /\ r.y = y /\ r.w = cols /\ r.h = rows
    BY DEF Rectangles
  <2>. QED BY <1>7, <2>1, <2>2 DEF Edges, OnEdge, Within, Inner, Rectangle
<1>8. CASE op = "raised"
  <2>1. Drawn(op, r) = PanelRaised(Ground, Canvas, r)
    BY <1>8 DEF Drawn
  <2>2. Drawn(op, r) = [a \in DOMAIN Ground |->
              IF OnSurface(Canvas, a)
              THEN Edges(r, Column(Canvas, a), Line(Canvas, a), Hilight, Dark,
                         Edges(Inner(r), Column(Canvas, a), Line(Canvas, a), Light, Shadow,
                             Ground[a]))
              ELSE Ground[a]]
    BY <1>1, <2>1, Paneled DEF PanelRaised
  <2>. QED BY <1>7, <1>8, <2>2
<1>9. CASE op = "sunken"
  <2>1. Drawn(op, r) = PanelSunken(Ground, Canvas, r)
    BY <1>9 DEF Drawn
  <2>2. Drawn(op, r) = [a \in DOMAIN Ground |->
              IF OnSurface(Canvas, a)
              THEN Edges(r, Column(Canvas, a), Line(Canvas, a), Shadow, Hilight,
                         Edges(Inner(r), Column(Canvas, a), Line(Canvas, a), Dark, Light,
                             Ground[a]))
              ELSE Ground[a]]
    BY <1>1, <2>1, Paneled DEF PanelSunken
  <2>. QED BY <1>7, <1>9, <2>2
<1>. QED BY <1>3, <1>4, <1>5, <1>6, <1>8, <1>9 DEF Calls

(* So does filling the whole surface.                                        *)
LEMMA SurfaceIsAll ==
  Fill(Ground, Canvas, Colour) = AskedEverywhere("fill", Rectangle(0, 0, Canvas.w, Canvas.h))
<1>1. Rectangle(0, 0, Canvas.w, Canvas.h) \in Rectangles
  BY MCRasterAssumption DEF Surfaces, Rectangle, Rectangles
<1>2. Fill(Ground, Canvas, Colour) = Drawn("fill", Rectangle(0, 0, Canvas.w, Canvas.h))
  BY MCRasterAssumption, Cleared DEF Drawn
<1>. QED BY <1>1, <1>2, RectIsDrawn DEF Calls

(* The points of a block of w by h at (dx, dy) that have address a.          *)
PointsAt(s, dx, dy, cols, rows, a) ==
  {p \in (0 .. cols - 1) \X (0 .. rows - 1) : a = Addr(s, dx + p[1], dy + p[2])}

(* On a surface there is one at most, and the address says which.            *)
LEMMA PointsAre ==
  ASSUME NEW s \in Surfaces, NEW a \in Nat, NEW dx \in Nat, NEW dy \in Nat, NEW cols \in Int,
         NEW rows \in Int,
         dx + cols <= s.w, dy + rows <= s.h
  PROVE  PointsAt(s, dx, dy, cols, rows, a) =
           IF Touched(s, Rectangle(dx, dy, cols, rows), a)
           THEN {<<Column(s, a) - dx, Line(s, a) - dy>>} ELSE {}
<1>1. s.w \in Nat /\ s.h \in Nat /\ s.base \in Nat
  BY DEF Surfaces
<1>2. ASSUME NEW p \in PointsAt(s, dx, dy, cols, rows, a)
      PROVE  Touched(s, Rectangle(dx, dy, cols, rows), a) /\ p = <<Column(s, a) - dx, Line(s,
             a) - dy>>
  <2>1. PICK i \in 0 .. cols - 1, j \in 0 .. rows - 1 :
          p = <<i, j>> /\ a = Addr(s, dx + i, dy + j)
    BY <1>2 DEF PointsAt
  <2>2. PICK x \in Nat, y \in Nat : x = dx + i /\ y = dy + j
    BY <2>1
  <2>3. x < s.w /\ y < s.h
    BY <1>1, <2>1, <2>2
  <2>4. a >= s.base /\ x = Column(s, a) /\ y = Line(s, a)
    BY <2>1, <2>2, <2>3, Position
  <2>5. Within(Rectangle(dx, dy, cols, rows), x, y)
    BY <2>1, <2>2 DEF Within, Rectangle
  <2>6. i = x - dx /\ j = y - dy
    BY <2>1, <2>2
  <2>. QED BY <2>1, <2>3, <2>4, <2>5, <2>6 DEF Touched, OnSurface
<1>3. ASSUME Touched(s, Rectangle(dx, dy, cols, rows), a)
      PROVE  <<Column(s, a) - dx, Line(s, a) - dy>> \in PointsAt(s, dx, dy, cols, rows, a)
  <2>1. PICK x \in Int, y \in Int : x = Column(s, a) /\ y = Line(s, a) /\ Addr(s, x, y) = a
    BY <1>3, PlacedAt DEF Touched
  <2>2. Within(Rectangle(dx, dy, cols, rows), x, y)
    BY <1>3, <2>1 DEF Touched
  <2>3. PICK i \in Int, j \in Int : i = x - dx /\ j = y - dy
    BY <2>1
  <2>4. i \in 0 .. cols - 1 /\ j \in 0 .. rows - 1 /\ dx + i = x /\ dy + j = y
    BY <2>1, <2>2, <2>3 DEF Within, Rectangle
  <2>. QED BY <2>1, <2>3, <2>4 DEF PointsAt
<1>. QED BY <1>2, <1>3

(* The memory after a block is copied, or blended, point by point.           *)
Blitted(m, dst, n, src, t, over) ==
  [a \in DOMAIN m |->
     LET new == n[Addr(src, t.r.x + (Column(dst, a) - t.dx), t.r.y + (Line(dst, a) - t.dy))]
     IN IF ~Touched(dst, Rectangle(t.dx, t.dy, t.r.w, t.r.h), a) THEN m[a]
        ELSE IF over THEN BlendOver(m[a], new) ELSE new]

(* A transfer that begins and ends on its target.                            *)
EndsInside(t, s) ==
  /\ t.dx \in Nat /\ t.dy \in Nat /\ t.r.w \in Int /\ t.r.h \in Int /\ t.r.x \in Int
       /\ t.r.y \in Int
  /\ t.dx + t.r.w <= s.w /\ t.dy + t.r.h <= s.h

(* The two ways to copy.                                                     *)
CopyPlain(m, dst, n, src, t) == Copy(m, dst, n, src, t, Replace)
CopyBlended(m, dst, n, src, t) == Copy(m, dst, n, src, t, BlendOver)

(* A copy takes each point of the block from its place in the source.        *)
LEMMA CopyIs ==
  ASSUME NEW dst \in Surfaces, NEW src \in Surfaces, NEW m, DOMAIN m \subseteq Nat, NEW n,
         NEW t, EndsInside(t, dst),
         NEW over \in BOOLEAN
  PROVE  Blitted(m, dst, n, src, t, over) =
           IF over THEN CopyBlended(m, dst, n, src, t) ELSE CopyPlain(m, dst, n, src, t)
<1>1. PICK dx \in Nat, dy \in Nat, cols \in Int, rows \in Int :
        t.dx = dx /\ t.dy = dy /\ t.r.w = cols /\ t.r.h = rows /\ dx + cols <= dst.w
            /\ dy + rows <= dst.h
  BY DEF EndsInside
<1>2. \A a \in DOMAIN m : PointsAt(dst, dx, dy, cols, rows, a) =
           IF Touched(dst, Rectangle(dx, dy, cols, rows), a)
           THEN {<<Column(dst, a) - dx, Line(dst, a) - dy>>} ELSE {}
  BY <1>1, PointsAre
<1> DEFINE At(a) == PointsAt(dst, dx, dy, cols, rows, a)
           From(a) == CHOOSE p \in At(a) : TRUE
<1>3. ASSUME NEW a \in DOMAIN m
      PROVE  /\ At(a) = {} <=> ~Touched(dst, Rectangle(dx, dy, cols, rows), a)
             /\ Touched(dst, Rectangle(dx, dy, cols, rows), a) =>
                  From(a)[1] = Column(dst, a) - dx /\ From(a)[2] = Line(dst, a) - dy
  <2>1. CASE Touched(dst, Rectangle(dx, dy, cols, rows), a)
    <3>1. PICK i, j : i = Column(dst, a) - dx /\ j = Line(dst, a) - dy
      OBVIOUS
    <3>2. At(a) = {<<i, j>>}
      BY <1>2, <2>1, <3>1
    <3>3. From(a) = <<i, j>>
      BY <3>2
    <3>. QED BY <2>1, <3>1, <3>2, <3>3
  <2>. QED BY <1>2, <2>1
<1>4. CopyPlain(m, dst, n, src, t) =
        [a \in DOMAIN m |-> IF At(a) = {} THEN m[a]
                            ELSE n[Addr(src, t.r.x + From(a)[1], t.r.y + From(a)[2])]]
  BY <1>1 DEF CopyPlain, Copy, Replace, PointsAt
<1>5. CopyBlended(m, dst, n, src, t) =
        [a \in DOMAIN m |->
          IF At(a) = {} THEN m[a]
          ELSE BlendOver(m[a], n[Addr(src, t.r.x + From(a)[1], t.r.y + From(a)[2])])]
  BY <1>1 DEF CopyBlended, Copy, PointsAt
<1> HIDE DEF At, From
<1>6. CASE ~over
  BY <1>1, <1>3, <1>4, <1>6 DEF Blitted
<1>7. CASE over
  BY <1>1, <1>3, <1>5, <1>7 DEF Blitted
<1>. QED BY <1>6, <1>7

(* The two clippings of a transfer in one direction: to the source, which    *)
(* moves where the copy begins, and to the target, which moves where the     *)
(* source does.                                                              *)
Clipping(d, x, cols, n, k, x0, tw, td, ud, uw) ==
  /\ x0 = Greater(x, 0) /\ tw = Smaller(x + cols, n) - x0 /\ td = d + (x0 - x)
  /\ ud = Greater(td, 0) /\ uw = Smaller(ud + tw - (ud - td), k) - ud

(* What is left begins and ends on the target, and is every point whose      *)
(* origin lies in the rectangle and on the source, each with that origin.    *)
Clipped(d, x, cols, n, k, x0, tw, td, ud, uw) ==
  /\ ud \in Nat /\ ud + uw <= k
  /\ \A p \in 0 .. k - 1 :
       (x <= x + p - d /\ x + p - d < x + cols /\ 0 <= x + p - d /\ x + p - d < n)
       <=> (tw > 0 /\ uw > 0 /\ ud <= p /\ p < ud + uw)
  /\ \A p \in Int : (x0 + (ud - td)) + (p - ud) = x + p - d

(* The one makes the other.                                                  *)
LEMMA ClippedOnce ==
  ASSUME NEW d \in Int, NEW x \in Int, NEW cols \in Int, NEW n \in Nat, NEW k \in Nat,
         NEW x0 \in Int, NEW tw \in Int, NEW td \in Int, NEW ud \in Int, NEW uw \in Int,
         Clipping(d, x, cols, n, k, x0, tw, td, ud, uw)
  PROVE  Clipped(d, x, cols, n, k, x0, tw, td, ud, uw)
BY DEF Greater, Smaller, Clipping, Clipped

(* What a transfer asks of the memory, from any surface to any other.        *)
Arrived(m, dst, dx, dy, n, src, r, over) ==
  [a \in DOMAIN m |->
     LET sx == r.x + Column(dst, a) - dx
         sy == r.y + Line(dst, a) - dy
         new == n[Addr(src, sx, sy)]
     IN IF ~(OnSurface(dst, a) /\ Within(r, sx, sy)
              /\ Within(Rectangle(0, 0, src.w, src.h), sx, sy)) THEN m[a]
        ELSE IF over THEN BlendOver(m[a], new) ELSE new]

(* The clipped block does all that is asked, and no more.                    *)
LEMMA MovedArrived ==
  ASSUME NEW dst \in Surfaces, NEW src \in Surfaces, NEW m, IsMemory(m), NEW n,
         NEW r \in Rectangles,
         NEW dx \in Int, NEW dy \in Int, NEW over \in BOOLEAN, NEW t, NEW u,
         t = ClipToSource(Transfer(dx, dy, r), src), u = ClipToTarget(t, dst)
  PROVE  /\ EndsInside(u, dst)
         /\ Arrived(m, dst, dx, dy, n, src, r, over) =
              IF Nothing(t) \/ Nothing(u) THEN m ELSE Blitted(m, dst, n, src, u, over)
<1>1. PICK x \in Int, y \in Int, cols \in Int, rows \in Int :
        r.x = x /\ r.y = y /\ r.w = cols /\ r.h = rows
  BY DEF Rectangles
<1>2. PICK sw \in Nat, sh \in Nat, dw \in Nat, dh \in Nat :
        src.w = sw /\ src.h = sh /\ dst.w = dw /\ dst.h = dh
  BY DEF Surfaces
<1>3. PICK x0 \in Int, y0 \in Int, tw \in Int, th \in Int, tx \in Int, ty \in Int :
        /\ x0 = Greater(x, 0) /\ tw = Smaller(x + cols, sw) - x0 /\ tx = dx + (x0 - x)
        /\ y0 = Greater(y, 0) /\ th = Smaller(y + rows, sh) - y0 /\ ty = dy + (y0 - y)
  BY DEF Greater, Smaller
<1>4. t = Transfer(tx, ty, Rectangle(x0, y0, tw, th))
  BY <1>1, <1>2, <1>3 DEF ClipToSource, Transfer
<1>5. PICK ux \in Int, uy \in Int, uw \in Int, uh \in Int :
        /\ ux = Greater(tx, 0) /\ uw = Smaller(ux + tw - (ux - tx), dw) - ux
        /\ uy = Greater(ty, 0) /\ uh = Smaller(uy + th - (uy - ty), dh) - uy
  BY DEF Greater, Smaller
<1>6. u = Transfer(ux, uy, Rectangle(x0 + (ux - tx), y0 + (uy - ty), uw, uh))
  BY <1>2, <1>4, <1>5 DEF ClipToTarget, Transfer, Rectangle
<1>7. Clipped(dx, x, cols, sw, dw, x0, tw, tx, ux, uw) /\ Clipped(dy, y, rows, sh, dh, y0, th,
      ty, uy, uh)
  <2>1. Clipping(dx, x, cols, sw, dw, x0, tw, tx, ux, uw) /\ Clipping(dy, y, rows, sh, dh, y0,
        th, ty, uy, uh)
    BY <1>3, <1>5 DEF Clipping
  <2>. QED BY <1>1, <1>2, <1>3, <1>5, <2>1, ClippedOnce
<1>9. EndsInside(u, dst)
  <2>1. /\ u.dx = ux /\ u.dy = uy /\ u.r.w = uw /\ u.r.h = uh
        /\ u.r.x = x0 + (ux - tx) /\ u.r.y = y0 + (uy - ty)
    BY <1>6 DEF Transfer, Rectangle
  <2>2. ux \in Nat /\ ux + uw <= dw /\ uy \in Nat /\ uy + uh <= dh
    BY <1>7 DEF Clipped
  <2>. QED BY <1>2, <1>3, <1>5, <2>1, <2>2 DEF EndsInside
<1>10. Nothing(t) \/ Nothing(u) <=> tw <= 0 \/ th <= 0 \/ uw <= 0 \/ uh <= 0
  BY <1>4, <1>6 DEF Nothing, Transfer, Rectangle
<1>11. ASSUME NEW a \in DOMAIN m
       PROVE  Arrived(m, dst, dx, dy, n, src, r, over)[a] =
                IF Nothing(t) \/ Nothing(u) THEN m[a] ELSE Blitted(m, dst, n, src, u, over)[a]
  <2>1. CASE OnSurface(dst, a)
    <3>1. PICK p \in Int, q \in Int : p = Column(dst, a) /\ q = Line(dst, a) /\ 0 <= p /\ 0 <= q
      BY <2>1, PlacedAt DEF IsMemory
    <3>2. p \in 0 .. dw - 1 /\ q \in 0 .. dh - 1
      BY <1>2, <2>1, <3>1 DEF OnSurface
    <3>3. PICK sx \in Int, sy \in Int : sx = x + p - dx /\ sy = y + q - dy
      OBVIOUS
    <3>4. Within(r, sx, sy) /\ Within(Rectangle(0, 0, sw, sh), sx, sy)
            <=> (/\ x <= sx /\ sx < x + cols /\ 0 <= sx /\ sx < sw
                 /\ y <= sy /\ sy < y + rows /\ 0 <= sy /\ sy < sh)
      BY <1>1, <3>3 DEF Within, Rectangle
    <3>5. Touched(dst, Rectangle(ux, uy, uw, uh), a)
            <=> (/\ ux <= p /\ p < ux + uw
                 /\ uy <= q /\ q < uy + uh)
      BY <2>1, <3>1 DEF Touched, Within, Rectangle
    <3>6. Within(r, sx, sy) /\ Within(Rectangle(0, 0, sw, sh), sx, sy)
            <=> ~(Nothing(t) \/ Nothing(u)) /\ Touched(dst, Rectangle(ux, uy, uw, uh), a)
      <4>1. (x <= sx /\ sx < x + cols /\ 0 <= sx /\ sx < sw)
            <=> (tw > 0 /\ uw > 0 /\ ux <= p /\ p < ux + uw)
        BY <1>7, <3>2, <3>3 DEF Clipped
      <4>2. (y <= sy /\ sy < y + rows /\ 0 <= sy /\ sy < sh)
            <=> (th > 0 /\ uh > 0 /\ uy <= q /\ q < uy + uh)
        BY <1>7, <3>2, <3>3 DEF Clipped
      <4>3. Nothing(t) \/ Nothing(u) <=> ~(tw > 0 /\ th > 0 /\ uw > 0 /\ uh > 0)
        BY <1>3, <1>5, <1>10
      <4>. QED BY <3>4, <3>5, <4>1, <4>2, <4>3
    <3>7. (x0 + (ux - tx)) + (p - ux) = sx /\ (y0 + (uy - ty)) + (q - uy) = sy
      BY <1>7, <3>1, <3>3 DEF Clipped
    <3>8. Arrived(m, dst, dx, dy, n, src, r, over)[a] =
            IF ~(Within(r, sx, sy) /\ Within(Rectangle(0, 0, sw, sh), sx, sy)) THEN m[a]
            ELSE IF over THEN BlendOver(m[a], n[Addr(src, sx, sy)]) ELSE n[Addr(src, sx, sy)]
      BY <1>1, <1>2, <2>1, <3>1, <3>3 DEF Arrived
    <3>9. Blitted(m, dst, n, src, u, over)[a] =
            IF ~Touched(dst, Rectangle(ux, uy, uw, uh), a) THEN m[a]
            ELSE IF over THEN BlendOver(m[a], n[Addr(src, sx, sy)]) ELSE n[Addr(src, sx, sy)]
      BY <1>6, <3>1, <3>7 DEF Blitted, Transfer, Rectangle
    <3>. QED BY <3>6, <3>8, <3>9
  <2>2. CASE ~OnSurface(dst, a)
    BY <2>2 DEF Arrived, Blitted, Touched
  <2>. QED BY <2>1, <2>2
<1>. QED BY <1>9, <1>11 DEF Arrived, Blitted, IsMemory

(* blit_surface and blit_surface_alpha do what is asked of them.             *)
PartArrives(m, dst, dx, dy, n, src, r) ==
  Blit(m, dst, dx, dy, n, src, r) = Arrived(m, dst, dx, dy, n, src, r, FALSE)
OverArrives(m, dst, dx, dy, n, src) ==
  BlitAlpha(m, dst, dx, dy, n, src) =
    Arrived(m, dst, dx, dy, n, src, Rectangle(0, 0, src.w, src.h), TRUE)

(* A part of a picture arrives.                                              *)
LEMMA BlitIs ==
  ASSUME NEW dst \in Surfaces, NEW src \in Surfaces, NEW m, IsMemory(m), NEW n,
         NEW r \in Rectangles,
         NEW dx \in Int, NEW dy \in Int
  PROVE  PartArrives(m, dst, dx, dy, n, src, r)
<1>1. PICK t : t = ClipToSource(Transfer(dx, dy, r), src)
  OBVIOUS
<1>2. PICK u : u = ClipToTarget(t, dst)
  OBVIOUS
<1>3. Blit(m, dst, dx, dy, n, src, r) =
        IF Nothing(t) \/ Nothing(u) THEN m ELSE CopyPlain(m, dst, n, src, u)
  BY <1>1, <1>2 DEF Blit, CopyPlain, Copy, Replace
<1>4. PICK over \in BOOLEAN : over = FALSE
  OBVIOUS
<1>5. /\ EndsInside(u, dst)
      /\ Arrived(m, dst, dx, dy, n, src, r, over) =
           IF Nothing(t) \/ Nothing(u) THEN m ELSE Blitted(m, dst, n, src, u, over)
  BY <1>1, <1>2, MovedArrived
<1>6. CopyPlain(m, dst, n, src, u) = Blitted(m, dst, n, src, u, over)
  BY <1>4, <1>5, CopyIs DEF IsMemory
<1>. QED BY <1>3, <1>4, <1>5, <1>6 DEF PartArrives

(* A whole picture lies on itself: clipping it to itself takes nothing.      *)
LEMMA AllOfIt ==
  ASSUME NEW s \in Surfaces, NEW dx \in Int, NEW dy \in Int
  PROVE  /\ ClipToSource(Transfer(dx, dy, Rectangle(0, 0, s.w, s.h)), s) =
              Transfer(dx, dy, Rectangle(0, 0, s.w, s.h))
<1>1. PICK cols \in Nat, rows \in Nat : s.w = cols /\ s.h = rows
  BY DEF Surfaces
<1>. QED BY <1>1 DEF ClipToSource, Transfer, Rectangle, Greater, Smaller

(* A picture arrives over what is there.                                     *)
LEMMA BlitAlphaIs ==
  ASSUME NEW dst \in Surfaces, NEW src \in Surfaces, NEW m, IsMemory(m), NEW n,
         NEW dx \in Int, NEW dy \in Int
  PROVE  OverArrives(m, dst, dx, dy, n, src)
<1>1. PICK r \in Rectangles : r = Rectangle(0, 0, src.w, src.h)
  <2>1. Rectangle(0, 0, src.w, src.h) \in Rectangles
    BY DEF Surfaces, Rectangles, Rectangle
  <2>. QED BY <2>1
<1>2. PICK t : t = Transfer(dx, dy, r)
  OBVIOUS
<1>3. PICK u : u = ClipToTarget(t, dst)
  OBVIOUS
<1>4. t = ClipToSource(Transfer(dx, dy, r), src)
  BY <1>1, <1>2, AllOfIt
<1>5. BlitAlpha(m, dst, dx, dy, n, src) = IF Nothing(u) THEN m ELSE CopyBlended(m, dst, n, src, u)
  BY <1>1, <1>2, <1>3 DEF BlitAlpha, CopyBlended, Copy
<1>6. PICK over \in BOOLEAN : over = TRUE
  OBVIOUS
<1>10. over
  BY <1>6
<1>7. /\ EndsInside(u, dst)
      /\ Arrived(m, dst, dx, dy, n, src, r, over) =
           IF Nothing(t) \/ Nothing(u) THEN m ELSE Blitted(m, dst, n, src, u, over)
  BY <1>3, <1>4, MovedArrived
<1>8. CopyBlended(m, dst, n, src, u) = Blitted(m, dst, n, src, u, over)
  <2>1. Blitted(m, dst, n, src, u, over) =
          IF over THEN CopyBlended(m, dst, n, src, u) ELSE CopyPlain(m, dst, n, src, u)
    BY <1>7, CopyIs DEF IsMemory
  <2>. QED BY <1>10, <2>1, Zenon
<1>9. Nothing(t) => Nothing(u)
  <2>1. PICK cols \in Int, rows \in Int : r.w = cols /\ r.h = rows
    BY DEF Rectangles
  <2>. QED BY <1>2, <1>3, <2>1 DEF Nothing, ClipToTarget, Transfer, Rectangle, Greater,
       Smaller, Surfaces
<1>. QED BY <1>1, <1>5, <1>6, <1>7, <1>8, <1>9 DEF OverArrives

(* This is what the calls on the trial's surfaces promise.                   *)
LEMMA AsAsked ==
  ASSUME NEW r, NEW dx, NEW dy, NEW over
  PROVE  Transferred(r, dx, dy, over) = Arrived(Ground, Canvas, dx, dy, Paint, Picture, r, over)
BY DEF Transferred, Arrived, Sourced

(* Products keep the order.                                                  *)
LEMMA ProductsKeepOrder ==
  ASSUME NEW a \in Int, NEW b \in Int, NEW c \in Nat, a <= b
  PROVE  a * c <= b * c
OBVIOUS

(* A mixture by the alphas lies between the two.                             *)
Mix(a, p, q, lo, hi) == lo * 255 <= p * a + q * (255 - a) /\ p * a + q * (255 - a) <= hi * 255

(* Two values mixed by an alpha and by what is left of 255.                  *)
LEMMA Mixed ==
  ASSUME NEW a \in 0 .. 255, NEW p \in 0 .. 255, NEW q \in 0 .. 255, NEW lo \in 0 .. 255,
         NEW hi \in 0 .. 255,
         lo <= p, lo <= q, p <= hi, q <= hi
  PROVE  Mix(a, p, q, lo, hi)
<1>1. PICK b \in 0 .. 255 : b = 255 - a
  OBVIOUS
<1>2. lo * a <= p * a /\ p * a <= hi * a /\ lo * b <= q * b /\ q * b <= hi * b
  BY <1>1, ProductsKeepOrder
<1>3. lo * a + lo * b = lo * 255 /\ hi * a + hi * b = hi * 255
  BY <1>1
<1>. QED BY <1>1, <1>2, <1>3 DEF Mix

(* blend_over never leaves the range of the two colours, nor loses cover:    *)
(* rounding by 127 does not reach the next value, and the alpha is capped.   *)
LEMMA BlendStays ==
  ASSUME NEW old \in Colours, NEW new \in Colours, BlendOver(old, new) # old
  PROVE  Blended(old, new, BlendOver(old, new))
<1>1. PICK da \in 0 .. 255, dv \in 0 .. 255, sa \in 0 .. 255, sv \in 0 .. 255 :
        old.a = da /\ old.v = dv /\ new.a = sa /\ new.v = sv
  BY DEF Colours
<1>2. CASE sa = 0
  BY <1>1, <1>2 DEF BlendOver
<1>3. CASE sa = 255
  <2>1. BlendOver(old, new) = new
    BY <1>1, <1>3 DEF BlendOver
  <2>. QED BY <1>1, <1>3, <2>1 DEF Blended, Smaller, Greater
<1>4. CASE sa # 0 /\ sa # 255
  <2>1. PICK ia \in 0 .. 255 : ia = 255 - sa
    OBVIOUS
  <2>2. PICK lo \in 0 .. 255, hi \in 0 .. 255 : lo = Smaller(dv, sv) /\ hi = Greater(dv, sv)
    BY DEF Smaller, Greater
  <2>3. lo <= sv /\ lo <= dv /\ sv <= hi /\ dv <= hi
    BY <2>2 DEF Smaller, Greater
  <2>4. PICK mix \in Int : mix = sv * sa + dv * ia /\ lo * 255 <= mix /\ mix <= hi * 255
    <3>1. Mix(sa, sv, dv, lo, hi)
      BY <1>1, <2>2, <2>3, Mixed
    <3>. QED BY <2>1, <3>1 DEF Mix
  <2>5. PICK v \in Int : v = (mix + 127) \div 255 /\ lo <= v /\ v <= hi
    BY <2>4
  <2>6. PICK k \in Nat : k = da * ia /\ k >= 255 * (da - sa)
    <3>1. PICK j \in Nat : j = sa * (255 - da)
      OBVIOUS
    <3>2. da * ia = 255 * (da - sa) + sa * (255 - da)
      BY <2>1
    <3>3. da * ia \in Nat
      BY <2>1
    <3>. QED BY <3>1, <3>2, <3>3
  <2>7. PICK cover \in Nat : cover = (k + 127) \div 255 /\ cover >= da - sa
    BY <2>6
  <2>8. BlendOver(old, new) = Pixel(Smaller(sa + cover, 255), v)
    BY <1>1, <1>4, <2>1, <2>4, <2>5, <2>6, <2>7 DEF BlendOver
  <2>9. PICK out : out = BlendOver(old, new) /\ out.a = Smaller(sa + cover, 255) /\ out.v = v
    BY <2>8 DEF Pixel
  <2>. QED BY <1>1, <2>2, <2>5, <2>7, <2>9 DEF Blended, Smaller, Greater
<1>. QED BY <1>2, <1>3, <1>4, Zenon

(* A quotient is compared by comparing products.                             *)
LEMMA Quotient ==
  ASSUME NEW n \in Nat, NEW d \in Nat \ {0}, NEW p \in Int
  PROVE  /\ p <= n \div d <=> p * d <= n
         /\ n \div d <= p <=> n < (p + 1) * d
<1>1. PICK q \in Nat, r \in 0 .. d - 1 : q = n \div d /\ q * d + r = n
  BY Division
<1>2. p <= q => p * d <= q * d
  BY ProductsKeepOrder
<1>3. q <= p => (q + 1) * d <= (p + 1) * d
  BY ProductsKeepOrder
<1>4. p >= q + 1 => (q + 1) * d <= p * d
  BY ProductsKeepOrder
<1>5. p + 1 <= q => (p + 1) * d <= q * d
  BY ProductsKeepOrder
<1>6. (q + 1) * d = q * d + d
  OBVIOUS
<1>7. PICK x \in Int, y \in Int, z \in Int, t \in Int :
        x = p * d /\ y = q * d /\ z = (q + 1) * d /\ t = (p + 1) * d
  OBVIOUS
<1>. QED BY <1>1, <1>2, <1>3, <1>4, <1>5, <1>6, <1>7

(* The columns a loop of surface_downscale visits are those that fall to     *)
(* its pixel.                                                                *)
LEMMA SpanIs ==
  ASSUME NEW k \in Nat, NEW parts \in Nat, NEW size \in Nat, k < parts, parts <= size
  PROVE  Span(k, size, parts) = {p \in 0 .. size - 1 : FallsTo(k, p, size, parts)}
<1>1. PICK from \in Nat, to \in Nat :
        from = (k * size) \div parts /\ to = ((k + 1) * size) \div parts
  <2>1. k * size \in Nat /\ (k + 1) * size \in Nat /\ parts \in Nat \ {0}
    OBVIOUS
  <2>. QED BY <2>1, Division
<1>2. PICK low \in Nat, high \in Nat, all \in Nat :
        /\ low = k * size /\ high = (k + 1) * size /\ all = size * parts
        /\ high = low + size /\ high <= all
  <2>1. k * size \in Nat /\ (k + 1) * size \in Nat /\ size * parts \in Nat
    OBVIOUS
  <2>2. (k + 1) * size = k * size + size
    OBVIOUS
  <2>3. (k + 1) * size <= parts * size
    BY ProductsKeepOrder
  <2>. QED BY <2>1, <2>2, <2>3
<1>3. from < to
  <2>1. from * parts <= low
    BY <1>1, <1>2, Quotient
  <2>2. (from + 1) * parts = from * parts + parts
    BY <1>1
  <2>3. (from + 1) * parts <= high
    BY <1>1, <1>2, <2>1, <2>2
  <2>4. from + 1 <= to
    BY <1>1, <1>2, <2>3, Quotient
  <2>. QED BY <1>1, <2>4
<1>4. to <= size
  <2>1. all < (size + 1) * parts
    BY <1>2
  <2>2. high < (size + 1) * parts
    BY <1>2, <2>1
  <2>. QED BY <1>1, <1>2, <2>2, Quotient
<1>5. Span(k, size, parts) = from .. to - 1
  BY <1>1, <1>3, <1>4 DEF Span, Smaller
<1>6. ASSUME NEW p \in 0 .. size - 1 PROVE p \in from .. to - 1 <=> FallsTo(k, p, size, parts)
  <2>1. PICK top \in Nat : top = (p + 1) * parts /\ top >= 1
    <3>1. (p + 1) * parts \in Nat /\ 1 * parts <= (p + 1) * parts
      BY ProductsKeepOrder
    <3>. QED BY <3>1
  <2>2. from <= p <=> low < top
    BY <1>1, <1>2, <2>1, Quotient
  <2>3. p + 1 <= to <=> top <= high
    BY <1>1, <1>2, <2>1, Quotient
  <2>4. PICK n \in Nat : n = top - 1
    BY <2>1
  <2>5. PICK q \in Int : q = n \div size /\ (k <= q <=> low <= n) /\ (q <= k <=> n < high)
    <3>1. n \div size \in Int
      OBVIOUS
    <3>2. size \in Nat \ {0}
      OBVIOUS
    <3>3. (k <= n \div size <=> k * size <= n) /\ (n \div size <= k <=> n < (k + 1) * size)
      BY <2>4, <3>2, Quotient
    <3>. QED BY <1>2, <3>1, <3>3
  <2>6. FallsTo(k, p, size, parts) <=> q = k
    BY <2>1, <2>4, <2>5 DEF FallsTo
  <2>. QED BY <1>1, <1>2, <2>1, <2>2, <2>3, <2>4, <2>5, <2>6
<1>7. from .. to - 1 \subseteq 0 .. size - 1
  BY <1>1, <1>4
<1>. QED BY <1>5, <1>6, <1>7

(* The pixels of some columns and some rows.                                 *)
Block(s, X, Y) == {Addr(s, x, y) : x \in X, y \in Y}

(* One by one, they are its pairs.                                           *)
LEMMA BlockIs ==
  ASSUME NEW s, NEW X, NEW Y
  PROVE  Block(s, X, Y) = {Addr(s, p[1], p[2]) : p \in X \X Y}
<1>1. ASSUME NEW b, NEW x \in X, NEW y \in Y, b = Addr(s, x, y)
      PROVE  \E p \in X \X Y : b = Addr(s, p[1], p[2])
  <2>1. <<x, y>> \in X \X Y /\ <<x, y>>[1] = x /\ <<x, y>>[2] = y
    OBVIOUS
  <2>. QED BY <1>1, <2>1
<1>2. ASSUME NEW b, NEW p \in X \X Y, b = Addr(s, p[1], p[2])
      PROVE  \E x \in X, y \in Y : b = Addr(s, x, y)
  <2>1. p[1] \in X /\ p[2] \in Y
    OBVIOUS
  <2>. QED BY <1>2, <2>1
<1>. QED BY <1>1, <1>2 DEF Block

(* The pixels of the target are each the mean of a block of the source.      *)
LEMMA ScaledIs ==
  ASSUME NEW dst \in Surfaces, NEW src \in Surfaces
  PROVE  Downscale(Ground, dst, Ground, src) =
           IF dst.w = 0 \/ dst.h = 0 \/ src.w = 0 \/ src.h = 0 THEN Ground
           ELSE [a \in DOMAIN Ground |->
                   IF OnSurface(dst, a)
                   THEN Average(Ground,
                          Block(src, Span(Column(dst, a), src.w, dst.w),
                                     Span(Line(dst, a), src.h, dst.h)))
                   ELSE Ground[a]]
<1>1. PICK cols \in Nat, rows \in Nat, sw \in Nat, sh \in Nat :
        dst.w = cols /\ dst.h = rows /\ src.w = sw /\ src.h = sh
  BY DEF Surfaces
<1> DEFINE At(a) == {p \in (0 .. cols - 1) \X (0 .. rows - 1) : a = Addr(dst, p[1], p[2])}
           From(a) == CHOOSE p \in At(a) : TRUE
<1>2. CASE cols = 0 \/ rows = 0 \/ sw = 0 \/ sh = 0
  BY <1>1, <1>2 DEF Downscale
<1>3. CASE ~(cols = 0 \/ rows = 0 \/ sw = 0 \/ sh = 0)
  <2>1. Downscale(Ground, dst, Ground, src) =
          [a \in DOMAIN Ground |-> IF At(a) = {} THEN Ground[a]
                                   ELSE Average(Ground, Block(src, Span(From(a)[1], sw, cols),
                                                              Span(From(a)[2], sh, rows)))]
    <3>1. Downscale(Ground, dst, Ground, src) =
            [a \in DOMAIN Ground |->
               IF At(a) = {} THEN Ground[a]
               ELSE Average(Ground, {Addr(src, p[1], p[2]) : p \in Span(From(a)[1], sw, cols)
                                                               \X Span(From(a)[2], sh, rows)})]
      BY <1>1, <1>3 DEF Downscale
    <3>2. ASSUME NEW i, NEW j
          PROVE  Block(src, Span(i, sw, cols), Span(j, sh, rows)) =
                   {Addr(src, p[1], p[2]) : p \in Span(i, sw, cols) \X Span(j, sh, rows)}
      BY BlockIs
    <3> HIDE DEF At, From
    <3>. QED BY <3>1, <3>2
  <2>2. ASSUME NEW a \in DOMAIN Ground
        PROVE  /\ At(a) = {} <=> ~OnSurface(dst, a)
               /\ OnSurface(dst, a) => From(a)[1] = Column(dst, a) /\ From(a)[2] = Line(dst, a)
    <3>1. a \in Nat
      BY MCRasterAssumption
    <3>2. At(a) = PointsAt(dst, 0, 0, cols, rows, a)
      <4>1. ASSUME NEW i \in 0 .. cols - 1, NEW j \in 0 .. rows - 1
            PROVE  Addr(dst, i, j) = Addr(dst, 0 + i, 0 + j)
        <5>1. i = 0 + i /\ j = 0 + j
          OBVIOUS
        <5>. QED BY <5>1
      <4>. QED BY <4>1 DEF PointsAt
    <3>3. PICK n0 \in Nat : n0 = 0
      OBVIOUS
    <3>4. n0 + cols <= dst.w /\ n0 + rows <= dst.h
      BY <1>1, <3>3
    <3>5. PointsAt(dst, n0, n0, cols, rows, a) =
            IF Touched(dst, Rectangle(n0, n0, cols, rows), a)
            THEN {<<Column(dst, a) - n0, Line(dst, a) - n0>>} ELSE {}
      BY <1>1, <3>1, <3>4, PointsAre
    <3>6. CASE OnSurface(dst, a)
      <4>1. PICK x \in Int, y \in Int : x = Column(dst, a) /\ y = Line(dst, a) /\ 0 <= x /\ 0 <= y
        BY <3>1, <3>6, PlacedAt
      <4>2. Touched(dst, Rectangle(n0, n0, cols, rows), a)
        BY <1>1, <3>3, <3>6, <4>1 DEF Touched, OnSurface, Within, Rectangle
      <4>3. x - n0 = x /\ y - n0 = y
        BY <3>3
      <4>4. At(a) = {<<x, y>>}
        BY <3>2, <3>3, <3>5, <4>1, <4>2, <4>3
      <4>5. From(a) = <<x, y>>
        BY <4>4
      <4>. QED BY <3>6, <4>1, <4>4, <4>5
    <3>7. CASE ~OnSurface(dst, a)
      BY <3>2, <3>3, <3>5, <3>7 DEF Touched
    <3>. QED BY <3>6, <3>7
  <2> HIDE DEF At, From
  <2>. QED BY <1>1, <1>3, <2>1, <2>2
<1>. QED BY <1>2, <1>3

(* The block is what falls to the pixel.                                     *)
LEMMA ShrunkIs ==
  ASSUME NEW dst \in Surfaces, NEW src \in Surfaces, NEW x \in Nat, NEW y \in Nat,
         x < dst.w, y < dst.h, dst.w <= src.w, dst.h <= src.h
  PROVE  Shrunk(dst, src, x, y) =
           Average(Ground, Block(src, Span(x, src.w, dst.w), Span(y, src.h, dst.h)))
<1>1. PICK cols \in Nat, rows \in Nat, sw \in Nat, sh \in Nat :
        dst.w = cols /\ dst.h = rows /\ src.w = sw /\ src.h = sh
  BY DEF Surfaces
<1>2. PICK X, Y : X = Span(x, sw, cols) /\ Y = Span(y, sh, rows)
  OBVIOUS
<1>3. X = {p \in 0 .. sw - 1 : FallsTo(x, p, sw, cols)} /\ Y = {q \in 0 .. sh - 1 : FallsTo(y,
      q, sh, rows)}
  BY <1>1, <1>2, SpanIs
<1>4. Shrunk(dst, src, x, y) = Average(Ground, Block(src, X, Y))
  BY <1>1, <1>3 DEF Shrunk, Block
<1>. QED BY <1>1, <1>2, <1>4

(* So a picture that is made smaller is what is promised.                    *)
LEMMA ScaledDrawnIs ==
  ASSUME NEW dst \in Surfaces, NEW src \in Surfaces
  PROVE  LET out == Downscale(Ground, dst, Ground, src)
         IN IF dst.w = 0 \/ dst.h = 0 \/ src.w = 0 \/ src.h = 0 THEN out = Ground
            ELSE dst.w <= src.w /\ dst.h <= src.h =>
              out = [a \in DOMAIN Ground |->
                          IF OnSurface(dst, a) THEN Shrunk(dst, src, Column(dst, a), Line(dst, a))
                          ELSE Ground[a]]
<1>1. CASE dst.w = 0 \/ dst.h = 0 \/ src.w = 0 \/ src.h = 0
  BY <1>1, ScaledIs
<1>2. CASE ~(dst.w = 0 \/ dst.h = 0 \/ src.w = 0 \/ src.h = 0)
  <2>1. SUFFICES ASSUME dst.w <= src.w, dst.h <= src.h
                 PROVE  Downscale(Ground, dst, Ground, src) =
                          [a \in DOMAIN Ground |->
                             IF OnSurface(dst, a) THEN Shrunk(dst, src, Column(dst, a),
                                 Line(dst, a))
                             ELSE Ground[a]]
    BY <1>2
  <2>2. ASSUME NEW a \in DOMAIN Ground, OnSurface(dst, a)
        PROVE  Shrunk(dst, src, Column(dst, a), Line(dst, a)) =
                 Average(Ground, Block(src, Span(Column(dst, a), src.w, dst.w), Span(Line(dst,
                     a), src.h, dst.h)))
    <3>1. PICK x \in Nat, y \in Nat : x = Column(dst, a) /\ y = Line(dst, a)
      BY <2>2, MCRasterAssumption, PlacedAt
    <3>2. x < dst.w /\ y < dst.h
      BY <2>2, <3>1 DEF OnSurface
    <3>. QED BY <2>1, <3>1, <3>2, ShrunkIs
  <2>3. Downscale(Ground, dst, Ground, src) =
          [a \in DOMAIN Ground |->
             IF OnSurface(dst, a)
             THEN Average(Ground, Block(src, Span(Column(dst, a), src.w, dst.w),
                                      Span(Line(dst, a), src.h, dst.h)))
             ELSE Ground[a]]
    BY <1>2, ScaledIs
  <2>. QED BY <2>2, <2>3
<1>. QED BY <1>1, <1>2

(* The hashes of the beginnings of a name.                                   *)
AreHashes(f, name, n) ==
  f = [k \in 0 .. n |-> IF k = 0 THEN 5381 ELSE (f[k - 1] * 33 + name[k]) % 2 ^ 21]

(* They exist, and are numbers.                                              *)
LEMMA HashesExist ==
  ASSUME NEW name \in Seq(0 .. 255), NEW n \in 0 .. Len(name)
  PROVE  \E f \in [0 .. n -> Nat] : AreHashes(f, name, n)
<1> DEFINE T == {k \in 0 .. Len(name) : \E f \in [0 .. k -> Nat] : AreHashes(f, name, k)}
<1>1. Len(name) \in Nat
  OBVIOUS
<1>2. 0 \in T
  <2>1. PICK f : f = [k \in 0 .. 0 |-> 5381]
    OBVIOUS
  <2>2. f \in [0 .. 0 -> Nat] /\ AreHashes(f, name, 0)
    BY <2>1 DEF AreHashes
  <2>. QED BY <1>1, <2>2
<1>3. ASSUME NEW i \in 0 .. Len(name), i # 0, i - 1 \in T PROVE i \in T
  <2>1. PICK f \in [0 .. i - 1 -> Nat] : AreHashes(f, name, i - 1)
    BY <1>3
  <2>2. PICK x \in Nat : x = (f[i - 1] * 33 + name[i]) % 2 ^ 21
    <3>1. i - 1 \in 0 .. i - 1 /\ i \in 1 .. Len(name)
      BY <1>1, <1>3
    <3>2. f[i - 1] \in Nat
      BY <2>1, <3>1
    <3>4. name[i] \in 0 .. 255
      BY <3>1, ElementOfSeq
    <3>3. f[i - 1] * 33 + name[i] \in Int
      <4>1. PICK q \in 0 .. 255 : q = name[i]
        BY <3>4
      <4>2. PICK p \in Nat : p = f[i - 1]
        BY <3>2
      <4>. QED BY <4>1, <4>2
    <3>. QED BY <3>3
  <2>3. PICK g : g = [k \in 0 .. i |-> IF k = i THEN x ELSE f[k]]
    OBVIOUS
  <2>4. g \in [0 .. i -> Nat]
    BY <1>1, <1>3, <2>1, <2>2, <2>3
  <2>5. ASSUME NEW k \in 0 .. i
        PROVE  g[k] = IF k = 0 THEN 5381 ELSE (g[k - 1] * 33 + name[k]) % 2 ^ 21
    <3>1. CASE k = i
      <4>1. g[i] = x /\ g[i - 1] = f[i - 1]
        BY <1>1, <1>3, <2>3
      <4>. QED BY <1>3, <2>2, <3>1, <4>1
    <3>2. CASE k # i
      <4>1. k \in 0 .. i - 1 /\ g[k] = f[k] /\ (k # 0 => g[k - 1] = f[k - 1])
        BY <1>1, <1>3, <2>3, <3>2
      <4>2. f[k] = IF k = 0 THEN 5381 ELSE (f[k - 1] * 33 + name[k]) % 2 ^ 21
        BY <2>1, <4>1 DEF AreHashes
      <4>. QED BY <4>1, <4>2
    <3>. QED BY <3>1, <3>2
  <2>6. AreHashes(g, name, i)
    BY <2>3, <2>5 DEF AreHashes
  <2>. QED BY <1>3, <2>4, <2>6
<1>4. 0 .. Len(name) \subseteq T
  <2> HIDE DEF T
  <2>. QED BY <1>1, <1>2, <1>3, UpFrom
<1>. QED BY <1>1, <1>4

(* There are no others.                                                      *)
LEMMA HashesAre ==
  ASSUME NEW name \in Seq(0 .. 255), NEW f, AreHashes(f, name, Len(name))
  PROVE  f[Len(name)] \in Nat
<1> DEFINE T == {k \in 0 .. Len(name) : f[k] \in Nat}
<1>1. Len(name) \in Nat
  OBVIOUS
<1>2. 0 \in T
  BY <1>1 DEF AreHashes
<1>3. ASSUME NEW i \in 0 .. Len(name), i # 0, i - 1 \in T PROVE i \in T
  <2>1. f[i] = (f[i - 1] * 33 + name[i]) % 2 ^ 21
    BY <1>3 DEF AreHashes
  <2>2. f[i - 1] \in Nat /\ name[i] \in Nat
    <3>1. i \in 1 .. Len(name)
      BY <1>1, <1>3
    <3>2. name[i] \in 0 .. 255
      BY <3>1, ElementOfSeq
    <3>3. f[i - 1] \in Nat
      BY <1>3
    <3>4. 0 .. 255 \subseteq Nat
      OBVIOUS
    <3>5. name[i] \in Nat
      BY <3>2, <3>4, Zenon
    <3>. QED BY <3>3, <3>5, Zenon
  <2>3. f[i - 1] * 33 + name[i] \in Int
    BY <2>2
  <2>. QED BY <2>1, <2>3
<1> HIDE DEF T
<1>4. 0 .. Len(name) \subseteq T
  BY <1>1, <1>2, <1>3, UpFrom
<1>. QED BY <1>1, <1>4 DEF T

(* The two ends of a gradient, of a hash.                                    *)
ColoursOf(hash) ==
  LET top == [c \in 0 .. 2 |-> 80 + ((hash \div 2 ^ (7 * c)) % 128)]
  IN [top |-> top, bot |-> [c \in 0 .. 2 |-> top[c] \div 2]]

(* They are never too dark or too bright, and the bottom is the darker.      *)
LEMMA ColoursAre ==
  ASSUME NEW hash \in Nat, NEW c \in 0 .. 2
  PROVE  /\ ColoursOf(hash).top[c] \in 80 .. 207
         /\ ColoursOf(hash).bot[c] < ColoursOf(hash).top[c]
<1>1. PICK d \in Nat \ {0} : d = 2 ^ (7 * c)
  <2>1. 2 ^ 0 \in Nat \ {0} /\ 2 ^ 7 \in Nat \ {0} /\ 2 ^ 14 \in Nat \ {0}
    OBVIOUS
  <2>2. PICK e \in {0, 7, 14} : 7 * c = e
    OBVIOUS
  <2>3. 2 ^ e \in Nat \ {0}
    BY <2>1, <2>2
  <2>4. 2 ^ (7 * c) = 2 ^ e
    BY <2>2
  <2>. QED BY <2>3, <2>4
<1>2. PICK q \in Int : q = hash \div d
  BY <1>1
<1>3. PICK t \in 80 .. 207 : t = 80 + (q % 128)
  OBVIOUS
<1>4. ColoursOf(hash).top[c] = t
  BY <1>1, <1>2, <1>3 DEF ColoursOf
<1>5. ColoursOf(hash).bot[c] = t \div 2
  BY <1>1, <1>2, <1>3 DEF ColoursOf
<1>. QED BY <1>3, <1>4, <1>5

(* So are those of every name.                                               *)
LEMMA NamesColour ==
  ASSUME NEW name \in Seq(0 .. 255), NEW c \in 0 .. 2
  PROVE  /\ GradientFromName(name).top[c] \in 80 .. 207
         /\ GradientFromName(name).bot[c] < GradientFromName(name).top[c]
<1> DEFINE Is(f) == f = [k \in 0 .. Len(name) |->
                           IF k = 0 THEN 5381 ELSE (f[k - 1] * 33 + name[k]) % 2 ^ 21]
<1>1. Len(name) \in 0 .. Len(name)
  OBVIOUS
<1>2. \E f : Is(f)
  BY <1>1, HashesExist DEF AreHashes
<1>3. Is(CHOOSE f : Is(f))
  BY <1>2
<1>4. PICK hash : hash = CHOOSE f : Is(f)
  OBVIOUS
<1> HIDE DEF Is
<1>5. Is(hash)
  BY <1>3, <1>4, Zenon
<1>6. AreHashes(hash, name, Len(name))
  BY <1>5, SMTT(30) DEF AreHashes, Is
<1>7. GradientFromName(name) = ColoursOf((CHOOSE f : Is(f))[Len(name)])
  BY DEF GradientFromName, ColoursOf, Is
<1>8. hash[Len(name)] \in Nat
  BY <1>6, HashesAre
<1>9. GradientFromName(name) = ColoursOf(hash[Len(name)])
  BY <1>4, <1>7
<1>. QED BY <1>8, <1>9, ColoursAre

(* A surface that is allocated has the size asked for, of 2 ^ 28 at most.    *)
LEMMA AllocIs ==
  ASSUME NEW cols \in Int, NEW rows \in Int, NEW calloc \in BOOLEAN, NEW s,
         s = SurfaceAlloc(cols, rows, calloc), s.ok
  PROVE  s.w = cols /\ s.h = rows /\ s.w * s.h \in 1 .. 2 ^ 28
<1>1. ~(cols <= 0 \/ rows <= 0 \/ cols * rows > 2 ^ 28 \/ ~calloc)
  <2>1. SUFFICES ASSUME cols <= 0 \/ rows <= 0 \/ cols * rows > 2 ^ 28 \/ ~calloc PROVE FALSE
    OBVIOUS
  <2>2. s = [ok |-> FALSE]
    BY <2>1, Zenon DEF SurfaceAlloc
  <2>3. s.ok = FALSE
    BY <2>2
  <2>. QED BY <2>3
<1>2. s = [ok |-> TRUE, base |-> 0, w |-> cols, h |-> rows, stride |-> cols, owns |-> TRUE]
  BY <1>1, Zenon DEF SurfaceAlloc
<1>3. s.w = cols /\ s.h = rows
  BY <1>2
<1>4. cols > 0 /\ rows > 0 /\ ~(cols * rows > 2 ^ 28)
  BY <1>1
<1>5. PICK p \in Int : p = cols * rows /\ p >= 1
  BY <1>4
<1>6. 2 ^ 28 \in Int
  OBVIOUS
<1>. QED BY <1>3, <1>4, <1>5, <1>6

(* A surface frees its pixels if it owns them, and only the first time.      *)
LEMMA FreedOnce ==
  ASSUME NEW own \in BOOLEAN
  PROVE  LET once == SurfaceFree(IF own THEN SurfaceAlloc(3, 2, TRUE) ELSE SurfaceWrap(7, 3, 2,
         5))
             twice == SurfaceFree(once.left)
         IN (once.frees <=> own) /\ ~twice.frees
<1> DEFINE s == IF own THEN SurfaceAlloc(3, 2, TRUE) ELSE SurfaceWrap(7, 3, 2, 5)
           once == SurfaceFree(s)
           twice == SurfaceFree(once.left)
<1>1. s.owns <=> own
  <2>1. CASE own
    <3>1. ~(3 <= 0 \/ 2 <= 0 \/ 3 * 2 > 2 ^ 28 \/ ~TRUE)
      OBVIOUS
    <3>2. s = [ok |-> TRUE, base |-> 0, w |-> 3, h |-> 2, stride |-> 3, owns |-> TRUE]
      BY <2>1, <3>1, Zenon DEF SurfaceAlloc
    <3>3. s.owns
      <4> HIDE DEF s
      <4>. QED BY <3>2
    <3>. QED BY <2>1, <3>3
  <2>2. CASE ~own
    <3>1. s = [ok |-> TRUE, base |-> 7, w |-> 3, h |-> 2, stride |-> 5, owns |-> FALSE]
      BY <2>2, Zenon DEF SurfaceWrap
    <3>2. ~s.owns
      <4> HIDE DEF s
      <4>. QED BY <3>1
    <3>. QED BY <2>2, <3>2
  <2>. QED BY <2>1, <2>2
<1> HIDE DEF s
<1>2. once.frees = s.owns
  BY DEF SurfaceFree
<1>3. once.left.owns = FALSE
  BY DEF SurfaceFree
<1>4. twice.frees = once.left.owns
  <2> HIDE DEF once
  <2>. QED BY DEF SurfaceFree
<1> HIDE DEF once, twice
<1>5. (once.frees <=> own) /\ ~twice.frees
  BY <1>1, <1>2, <1>3, <1>4
<1>. QED BY <1>5, Zenon DEF once, twice, s

(* A rectangle blended over the memory stays between it and the colour.      *)
LEMMA BlendAsked ==
  ASSUME NEW r \in Rectangles, NEW a \in DOMAIN Ground,
         AskedEverywhere("blend", r)[a] # Ground[a]
  PROVE  Blended(Ground[a], Clear, AskedEverywhere("blend", r)[a])
<1>1. AskedEverywhere("blend", r)[a] = BlendOver(Ground[a], Clear)
  BY DEF AskedEverywhere, Asked
<1>2. Ground[a] \in Colours /\ Clear \in Colours
  BY MCRasterAssumption
<1>. QED BY <1>1, <1>2, BlendStays

(* A call that draws a rectangle keeps the promise.                          *)
LEMMA DrawnRect ==
  ASSUME NEW op \in Calls, NEW r \in Rectangles,
         subject' = "rect", input' = [op |-> op, r |-> r], result' = AskedEverywhere(op, r)
  PROVE  DrawsClipped'
<1>1. input'.op = op /\ input'.r = r
  OBVIOUS
<1>2. RectDrawn'
  BY <1>1 DEF RectDrawn, AskedEverywhere
<1>3. BlendDrawn'
  <2>1. SUFFICES ASSUME op = "blend", NEW a \in DOMAIN Ground, result'[a] # Ground[a]
                 PROVE  Blended(Ground[a], Clear, result'[a])
    BY <1>1 DEF BlendDrawn
  <2>. QED BY <2>1, BlendAsked
<1>4. subject' # "blit" /\ subject' # "over" /\ subject' # "scale" /\ subject' # "alloc"
      /\ subject' # "free" /\ subject' # "name"
  OBVIOUS
<1>. QED BY <1>2, <1>3, <1>4 DEF DrawsClipped, PartDrawn, OverDrawn, ScaledDrawn

(* Where nothing is drawn nothing is promised.                               *)
LEMMA NotDrawnTo ==
  ASSUME subject' \notin {"rect", "blit", "over", "scale", "alloc", "free", "name"}
  PROVE  DrawsClipped'
BY DEF DrawsClipped, RectDrawn, PartDrawn, OverDrawn, BlendDrawn, ScaledDrawn

(* The memory and the surfaces of the trial.                                 *)
LEMMA GroundIs == Canvas \in Surfaces /\ Picture \in Surfaces /\ IsMemory(Ground)
BY MCRasterAssumption DEF IsMemory

(* For every surface with or without a gap between its rows, every memory,   *)
(* every rectangle and every picture: a call draws the pixels of its         *)
(* rectangle that lie on the surface, each with what is asked of it, and     *)
(* changes no other; shrinking loses no pixel and counts none twice; and the *)
(* pixels are freed by their owner, once.                                    *)
THEOREM DrawingStaysInside == RasterSpec => []DrawsClipped
<1>1. Start => DrawsClipped
  BY DEF Start, AtStart, DrawsClipped, RectDrawn, PartDrawn, OverDrawn, BlendDrawn, ScaledDrawn
<1>2. DrawsClipped /\ [RasterNext]_trialVars => DrawsClipped'
  <2> SUFFICES ASSUME DrawsClipped, [RasterNext]_trialVars PROVE DrawsClipped'
    OBVIOUS
  <2>1. CASE DrawRect
    <3>1. PICK op \in Calls, r \in Rects : Try("rect", [op |-> op, r |-> r], Drawn(op, r))
      BY <2>1 DEF DrawRect, Calls
    <3>2. r \in Rectangles
      BY MCRasterAssumption
    <3>3. Drawn(op, r) = AskedEverywhere(op, r)
      BY <3>1, <3>2, RectIsDrawn
    <3>. QED BY <3>1, <3>2, <3>3, DrawnRect DEF Try
  <2>2. CASE ClearSurface
    <3>1. PICK r \in Rectangles : r = Rectangle(0, 0, Canvas.w, Canvas.h)
      <4>1. Rectangle(0, 0, Canvas.w, Canvas.h) \in Rectangles
        BY MCRasterAssumption DEF Surfaces, Rectangle, Rectangles
      <4>. QED BY <4>1
    <3>2. PICK op \in Calls : op = "fill"
      BY DEF Calls
    <3>3. Fill(Ground, Canvas, Colour) = AskedEverywhere(op, r)
      BY <3>1, <3>2, SurfaceIsAll
    <3>. QED BY <2>2, <3>1, <3>2, <3>3, DrawnRect DEF ClearSurface, Try
  <2>3. CASE DrawPart
    <3>1. PICK t \in Transfers :
            Try("blit", t, Blit(Ground, Canvas, t.dx, t.dy, Paint, Picture, t.r))
      BY <2>3 DEF DrawPart
    <3>2. t.dx \in Int /\ t.dy \in Int /\ t.r \in Rectangles
      BY MCRasterAssumption
    <3>3. Blit(Ground, Canvas, t.dx, t.dy, Paint, Picture, t.r) = Transferred(t.r, t.dx, t.dy,
          FALSE)
      <4>1. Blit(Ground, Canvas, t.dx, t.dy, Paint, Picture, t.r) =
              Arrived(Ground, Canvas, t.dx, t.dy, Paint, Picture, t.r, FALSE)
        <5>1. PartArrives(Ground, Canvas, t.dx, t.dy, Paint, Picture, t.r)
          BY <3>2, GroundIs, BlitIs
        <5>. QED BY <5>1 DEF PartArrives
      <4>. QED BY <4>1, AsAsked, Zenon
    <3>4. subject' = "blit" /\ input' = t /\ result' = Transferred(t.r, t.dx, t.dy, FALSE)
      BY <3>1, <3>3 DEF Try
    <3>. QED BY <3>4 DEF DrawsClipped, RectDrawn, PartDrawn, OverDrawn, BlendDrawn,
         ScaledDrawn, Transferred
  <2>4. CASE DrawOver
    <3>1. PICK t \in Offsets :
            Try("over", t, BlitAlpha(Ground, Canvas, t.dx, t.dy, Paint, Picture))
      BY <2>4 DEF DrawOver
    <3>2. t.dx \in Int /\ t.dy \in Int
      BY MCRasterAssumption
    <3>3. BlitAlpha(Ground, Canvas, t.dx, t.dy, Paint, Picture) =
            Transferred(Rectangle(0, 0, Picture.w, Picture.h), t.dx, t.dy, TRUE)
      <4>1. BlitAlpha(Ground, Canvas, t.dx, t.dy, Paint, Picture) =
              Arrived(Ground, Canvas, t.dx, t.dy, Paint, Picture,
                      Rectangle(0, 0, Picture.w, Picture.h), TRUE)
        <5>1. OverArrives(Ground, Canvas, t.dx, t.dy, Paint, Picture)
          BY <3>2, GroundIs, BlitAlphaIs
        <5>. QED BY <5>1 DEF OverArrives
      <4>. QED BY <4>1, AsAsked, Zenon
    <3>4. /\ subject' = "over" /\ input' = t
          /\ result' = Transferred(Rectangle(0, 0, Picture.w, Picture.h), t.dx, t.dy, TRUE)
      BY <3>1, <3>3 DEF Try
    <3>. QED BY <3>4 DEF DrawsClipped, RectDrawn, PartDrawn, OverDrawn, BlendDrawn,
         ScaledDrawn, Transferred
  <2>5. CASE DrawScaled
    <3>1. PICK dst \in Views, src \in Views :
            Try("scale", [dst |-> dst, src |-> src], Downscale(Ground, dst, Ground, src))
      BY <2>5 DEF DrawScaled
    <3>2. dst \in Surfaces /\ src \in Surfaces
      BY MCRasterAssumption
    <3>3. subject' = "scale" /\ input'.dst = dst /\ input'.src = src
          /\ result' = Downscale(Ground, dst, Ground, src)
      BY <3>1 DEF Try
    <3>4. ScaledDrawn'
      BY <3>2, <3>3, ScaledDrawnIs DEF ScaledDrawn
    <3>. QED BY <3>3, <3>4 DEF DrawsClipped, RectDrawn, PartDrawn, OverDrawn, BlendDrawn
  <2>6. CASE Allocate
    <3>1. PICK size \in AllocSizes, calloc \in BOOLEAN :
            Try("alloc", size, SurfaceAlloc(size.w, size.h, calloc))
      BY <2>6 DEF Allocate
    <3>2. PICK cols \in Int, rows \in Int : cols = size.w /\ rows = size.h
      BY MCRasterAssumption
    <3>3. PICK s : s = SurfaceAlloc(cols, rows, calloc)
      OBVIOUS
    <3>4. subject' = "alloc" /\ input' = size /\ result' = s
      BY <3>1, <3>2, <3>3 DEF Try
    <3>5. s.ok => s.w = cols /\ s.h = rows /\ s.w * s.h \in 1 .. 2 ^ 28
      BY <3>1, <3>3, AllocIs
    <3>. QED BY <3>2, <3>4, <3>5 DEF DrawsClipped, RectDrawn, PartDrawn, OverDrawn, BlendDrawn,
         ScaledDrawn
  <2>7. CASE Release
    <3> DEFINE Once(own) == SurfaceFree(IF own THEN SurfaceAlloc(3, 2,
        TRUE) ELSE SurfaceWrap(7, 3, 2, 5))
    <3>1. PICK own \in BOOLEAN :
            Try("free", own, [once |-> Once(own), twice |-> SurfaceFree(Once(own).left)])
      BY <2>7 DEF Release
    <3>2. (Once(own).frees <=> own) /\ ~SurfaceFree(Once(own).left).frees
      BY <3>1, FreedOnce
    <3> HIDE DEF Once
    <3>3. /\ subject' = "free" /\ input' = own
          /\ result'.once = Once(own) /\ result'.twice = SurfaceFree(Once(own).left)
      BY <3>1 DEF Try
    <3>4. (result'.once.frees <=> input') /\ ~result'.twice.frees
      BY <3>2, <3>3, Zenon
    <3>. QED BY <3>3, <3>4 DEF DrawsClipped, RectDrawn, PartDrawn, OverDrawn, BlendDrawn,
         ScaledDrawn
  <2>8. CASE NameGradient
    <3>1. PICK name \in Names : Try("name", name, GradientFromName(name))
      BY <2>8 DEF NameGradient
    <3>2. subject' = "name" /\ result' = GradientFromName(name)
      BY <3>1 DEF Try
    <3>3. \A c \in 0 .. 2 : result'.top[c] \in 80 .. 207 /\ result'.bot[c] < result'.top[c]
      BY <3>2, MCRasterAssumption, NamesColour
    <3>. QED BY <3>2, <3>3 DEF DrawsClipped, RectDrawn, PartDrawn, OverDrawn, BlendDrawn,
         ScaledDrawn
  <2>9. CASE Again
    BY <2>9, NotDrawnTo DEF Again
  <2>10. CASE UNCHANGED trialVars
    BY <2>10 DEF trialVars, DrawsClipped, RectDrawn, PartDrawn, OverDrawn, BlendDrawn,
        ScaledDrawn,
                 Transferred
  <2>. QED BY <2>1, <2>2, <2>3, <2>4, <2>5, <2>6, <2>7, <2>8, <2>9, <2>10 DEF RasterNext
<1>. QED BY <1>1, <1>2, PTL DEF RasterSpec

-----------------------------------------------------------------------------
(* What is drawn is what is measured                                         *)

(* A walk over places goes on from each to the next, which leaves less to   *)
(* go, until it stops.                                                      *)
IsWay(Places, Stop, left, next) ==
  /\ left \in [Places -> Nat] /\ Stop \subseteq Places
  /\ \A a \in Places \ Stop : next[a] \in Places /\ left[next[a]] < left[a]

(* What it gives for a place: the last of it where it stops, and elsewhere  *)
(* what joins the place to what the next one gives.                         *)
Given(f, Stop, next, last, join, a) == IF a \in Stop THEN last[a] ELSE join[<<a, f[next[a]]>>]
IsWalk(f, Places, Stop, next, last, join) ==
  f = [a \in Places |-> Given(f, Stop, next, last, join, a)]

(* What is given, joined or last, is of V.                                   *)
AreGivens(Places, Stop, last, join, V) ==
  /\ \A a \in Stop : last[a] \in V
  /\ \A a \in Places \ Stop, v \in V : join[<<a, v>>] \in V

(* Every walk comes to its stop: what holds there and, if of the next       *)
(* place, of a place, holds everywhere.                                     *)
LEMMA WalkEnds ==
  ASSUME NEW Places, NEW Stop, NEW left, NEW next, IsWay(Places, Stop, left, next),
         NEW T, Stop \subseteq T, \A a \in Places \ Stop : next[a] \in T => a \in T
  PROVE  Places \subseteq T
<1>1. SUFFICES ASSUME NEW b \in Places, b \notin T PROVE FALSE
  OBVIOUS
<1>2. PICK D : D = {left[a] : a \in Places \ T}
  OBVIOUS
<1>3. D \subseteq Nat /\ D # {}
  BY <1>1, <1>2 DEF IsWay
<1>4. PICK m \in D : \A k \in D : m <= k
  BY <1>3, LeastNatural
<1>5. PICK a \in Places \ T : left[a] = m
  BY <1>2, <1>4
<1>6. a \in Places \ Stop /\ next[a] \in Places /\ left[next[a]] < left[a] /\ left[next[a]] \in Nat
  BY <1>5 DEF IsWay
<1>7. left[next[a]] \in D
  BY <1>2, <1>5, <1>6
<1>8. m <= left[next[a]] /\ m \in Nat
  BY <1>3, <1>4, <1>7
<1>. QED BY <1>5, <1>6, <1>8

(* What a walk gives is of the kind it is made of.                          *)
LEMMA WalksAre ==
  ASSUME NEW Places, NEW Stop, NEW left, NEW next, IsWay(Places, Stop, left, next),
         NEW last, NEW join, NEW V, AreGivens(Places, Stop, last, join, V),
         NEW f, IsWalk(f, Places, Stop, next, last, join)
  PROVE  f \in [Places -> V]
<1> DEFINE T == {a \in Places : f[a] \in V}
<1>1. \A a \in Places : f[a] = Given(f, Stop, next, last, join, a)
  BY DEF IsWalk
<1>2. Stop \subseteq T
  BY <1>1 DEF Given, AreGivens, IsWay
<1>3. ASSUME NEW a \in Places \ Stop, next[a] \in T PROVE a \in T
  BY <1>1, <1>3 DEF Given, AreGivens
<1> HIDE DEF T
<1>4. Places \subseteq T
  BY <1>2, <1>3, WalkEnds
<1>5. \A a \in Places : f[a] \in V
  BY <1>4 DEF T
<1>6. f = [a \in Places |-> f[a]]
  BY DEF IsWalk
<1>. QED BY <1>5, <1>6

(* Walks as far as a number of steps from the stop.                         *)
Nearby(f, Places, Stop, left, next, last, join, k) ==
  \A a \in Places : left[a] <= k => f[a] = Given(f, Stop, next, last, join, a)

(* There is one of any length.                                              *)
LEMMA NearbyExist ==
  ASSUME NEW Places, NEW Stop, NEW left, NEW next, IsWay(Places, Stop, left, next),
         NEW last, NEW join, NEW n \in Nat
  PROVE  \E f : Nearby(f, Places, Stop, left, next, last, join, n)
<1> DEFINE T == {k \in 0 .. n : \E f : Nearby(f, Places, Stop, left, next, last, join, k)}
<1>1. 0 \in T
  <2>1. PICK f : f = [a \in Places |-> last[a]]
    OBVIOUS
  <2>2. ASSUME NEW a \in Places, left[a] <= 0 PROVE f[a] = Given(f, Stop, next, last, join, a)
    <3>1. a \in Stop
      BY <2>2 DEF IsWay
    <3>. QED BY <2>1, <3>1 DEF Given
  <2>. QED BY <2>2 DEF Nearby
<1>2. ASSUME NEW k \in 0 .. n, k # 0, k - 1 \in T PROVE k \in T
  <2>1. PICK f : Nearby(f, Places, Stop, left, next, last, join, k - 1)
    BY <1>2
  <2>2. PICK g : g = [a \in Places |-> Given(f, Stop, next, last, join, a)]
    OBVIOUS
  <2>3. ASSUME NEW a \in Places, left[a] <= k PROVE g[a] = Given(g, Stop, next, last, join, a)
    <3>1. CASE a \in Stop
      BY <2>2, <3>1 DEF Given
    <3>2. CASE a \notin Stop
      <4>1. next[a] \in Places /\ left[next[a]] <= k - 1
        BY <1>2, <2>3, <3>2 DEF IsWay
      <4>2. f[next[a]] = Given(f, Stop, next, last, join, next[a])
        BY <2>1, <4>1 DEF Nearby
      <4>3. g[next[a]] = f[next[a]]
        BY <2>2, <4>1, <4>2
      <4>. QED BY <2>2, <3>2, <4>3 DEF Given
    <3>. QED BY <3>1, <3>2
  <2>. QED BY <2>3 DEF Nearby
<1> HIDE DEF T
<1>3. 0 .. n \subseteq T
  BY <1>1, <1>2, UpFrom
<1>4. n \in T
  BY <1>3
<1>. QED BY <1>4 DEF T

(* They agree where they meet.                                              *)
LEMMA NearbyAgree ==
  ASSUME NEW Places, NEW Stop, NEW left, NEW next, IsWay(Places, Stop, left, next),
         NEW last, NEW join, NEW j \in Nat, NEW k \in Nat, j <= k,
         NEW f, Nearby(f, Places, Stop, left, next, last, join, j),
         NEW g, Nearby(g, Places, Stop, left, next, last, join, k),
         NEW b \in Places, left[b] <= j
  PROVE  f[b] = g[b]
<1> DEFINE T == {a \in Places : left[a] <= j => f[a] = g[a]}
<1>1. \A a \in Places : left[a] <= j => /\ f[a] = Given(f, Stop, next, last, join, a)
                                        /\ g[a] = Given(g, Stop, next, last, join, a)
  BY DEF Nearby, IsWay
<1>2. Stop \subseteq T
  BY <1>1 DEF Given, IsWay
<1>3. ASSUME NEW a \in Places \ Stop, next[a] \in T PROVE a \in T
  <2>1. left[a] <= j => left[next[a]] <= j
    BY DEF IsWay
  <2>. QED BY <1>1, <1>3, <2>1 DEF Given
<1> HIDE DEF T
<1>4. Places \subseteq T
  BY <1>2, <1>3, WalkEnds
<1>. QED BY <1>4 DEF T

(* There is a walk, from everywhere.                                        *)
LEMMA WalksExist ==
  ASSUME NEW Places, NEW Stop, NEW left, NEW next, IsWay(Places, Stop, left, next),
         NEW last, NEW join
  PROVE  \E f : IsWalk(f, Places, Stop, next, last, join)
<1> DEFINE Near(f, k) == Nearby(f, Places, Stop, left, next, last, join, k)
           Reach(k) == CHOOSE f : Near(f, k)
<1>1. ASSUME NEW k \in Nat PROVE Near(Reach(k), k)
  BY NearbyExist
<1>2. PICK far : far = [a \in Places |-> Reach(left[a])]
  OBVIOUS
<1>3. ASSUME NEW a \in Places PROVE Near(far[a], left[a]) /\ left[a] \in Nat
  BY <1>1, <1>2 DEF IsWay
<1> HIDE DEF N
<1>4. PICK g : g = [a \in Places |-> far[a][a]]
  OBVIOUS
<1>5. ASSUME NEW a \in Places PROVE g[a] = Given(g, Stop, next, last, join, a)
  <2>1. g[a] = Given(far[a], Stop, next, last, join, a)
    BY <1>3, <1>4 DEF Nearby
  <2>2. CASE a \in Stop
    BY <2>1, <2>2 DEF Given
  <2>3. CASE a \notin Stop
    <3>1. next[a] \in Places /\ left[next[a]] <= left[a] /\ left[next[a]] \in Nat /\ left[a] \in Nat
      BY <2>3 DEF IsWay
    <3>2. far[next[a]][next[a]] = far[a][next[a]]
      <4>1. PICK b \in Places : b = next[a]
        BY <3>1
      <4>2. PICK p, q : p = far[b] /\ q = far[a]
        OBVIOUS
      <4>3. PICK k \in Nat, l \in Nat : k = left[b] /\ l = left[a] /\ k <= l /\ k <= k
        BY <3>1, <4>1
      <4>4. Near(p, k) /\ Near(q, l)
        BY <1>3, <4>2, <4>3
      <4>5. p[b] = q[b]
        BY <4>3, <4>4, NearbyAgree
      <4>. QED BY <4>1, <4>2, <4>5
    <3>3. g[next[a]] = far[a][next[a]]
      BY <1>4, <3>1, <3>2
    <3>. QED BY <2>1, <2>3, <3>3 DEF Given
  <2>. QED BY <2>2, <2>3
<1>6. g = [a \in Places |-> Given(g, Stop, next, last, join, a)]
  BY <1>4, <1>5
<1>. QED BY <1>6 DEF IsWalk

(* The bytes of a text, and how many of them a character takes.             *)
Chars == 1 .. 255

(* The bytes of a text, and the NUL behind them.                             *)
LEMMA BytesAre ==
  ASSUME NEW t \in Seq(Chars), NEW p \in 1 .. Len(t) + 1
  PROVE  Byte(t, p) \in 0 .. 255 /\ (p <= Len(t) => Byte(t, p) = t[p] /\ t[p] \in Chars) /\ (p > Len(t) => Byte(t, p) = 0)
<1>1. CASE p <= Len(t)
  <2>1. p \in 1 .. Len(t)
    BY <1>1
  <2>2. t[p] \in Chars
    BY <2>1, ElementOfSeq
  <2>. QED BY <1>1, <2>2 DEF Byte, Chars
<1>2. CASE p > Len(t)
  BY <1>2 DEF Byte
<1>. QED BY <1>1, <1>2

(* A character ends in the text: the NUL is the middle of none.              *)
LEMMA SeqLenFits ==
  ASSUME NEW t \in Seq(Chars), NEW p \in 1 .. Len(t)
  PROVE  /\ SeqLen(t, p) \in 1 .. 4 /\ p + SeqLen(t, p) <= Len(t) + 1
         /\ Byte(t, p) = Newline \/ Printable(Byte(t, p)) => SeqLen(t, p) = 1
<1>1. PICK c \in 0 .. 255 : c = Byte(t, p)
  <2>1. p \in 1 .. Len(t) + 1
    OBVIOUS
  <2>. QED BY <2>1, BytesAre
<1>2. PICK n \in 1 .. 4 : n = Utf8SeqLen(c)
  BY DEF Utf8SeqLen
<1>3. c = Newline \/ Printable(c) => n = 1
  <2>1. SUFFICES ASSUME c = 10 \/ c \in 32 .. 126 PROVE n = 1
    BY DEF Newline, Printable
  <2>2. c \notin 192 .. 223 /\ c \notin 224 .. 239 /\ c \notin 240 .. 247
    BY <2>1
  <2>. QED BY <1>2, <2>2 DEF Utf8SeqLen
<1>4. SeqLen(t, p) = IF n > 1 /\ ~Utf8SeqValid(t, p, n) THEN 1 ELSE n
  BY <1>1, <1>2 DEF SeqLen
<1>5. n > 1 /\ Utf8SeqValid(t, p, n) => p + n <= Len(t) + 1
  <2>1. SUFFICES ASSUME Utf8SeqValid(t, p, n), p + n > Len(t) + 1 PROVE FALSE
    OBVIOUS
  <2>2. PICK i \in 1 .. n - 1 : p + i = Len(t) + 1
    BY <2>1
  <2>3. Len(t) + 1 \in 1 .. Len(t) + 1 /\ Len(t) + 1 > Len(t)
    OBVIOUS
  <2>4. Byte(t, p + i) = 0
    BY <2>2, <2>3, BytesAre
  <2>5. Byte(t, p + i) \in 128 .. 191
    BY <2>1 DEF Utf8SeqValid
  <2>6. 0 \notin 128 .. 191
    OBVIOUS
  <2>. QED BY <2>4, <2>5, <2>6, Zenon
<1>. QED BY <1>1, <1>3, <1>4, <1>5

-----------------------------------------------------------------------------
(* font_draw_scaled as a walk.  A pen is at a byte, a column and a row.     *)
Pens(t) == (1 .. Len(t) + 3) \X Int \X Int
Boxes == [x : Int, y : Int, w : Int, h : Int]
Results == [boxes : Seq(Boxes), x : Int, y : Int, end : Nat]

(* Hangul is wide; the pen goes on by what it draws, and by a column for     *)
(* what has no glyph.                                                        *)
Wide(t, p) == ~Printable(Byte(t, p)) /\ IsHangul(t, p)
Gains(t, p) == IF Wide(t, p) THEN HangulAdv ELSE FontAdv
PenAfter(t, x0, s, a) ==
  IF Byte(t, a[1]) = Newline THEN <<a[1] + 1, x0, a[3] + LineHeight * s>>
  ELSE <<a[1] + SeqLen(t, a[1]), a[2] + Gains(t, a[1]) * s, a[3]>>
Marks(t, s, a) ==
  IF Byte(t, a[1]) = Newline THEN << >>
  ELSE IF Printable(Byte(t, a[1])) THEN <<[x |-> a[2], y |-> a[3], w |-> FontW * s, h |-> FontH * s]>>
  ELSE IF IsHangul(t, a[1]) THEN <<[x |-> a[2], y |-> a[3], w |-> HangulW * s, h |-> HangulH * s]>>
  ELSE << >>
PenDown(a) == [boxes |-> << >>, x |-> a[2], y |-> a[3], end |-> a[1]]
WithMarks(r, d) == [r EXCEPT !.boxes = d \o @]

(* f is what is drawn from each place of the pen on.                         *)
Draws(f, t, x0, s) ==
  f = [a \in Pens(t) |-> IF a[1] > Len(t) THEN PenDown(a)
                         ELSE WithMarks(f[PenAfter(t, x0, s, a)], Marks(t, s, a))]

(* The pen stops at the NUL, and has fewer bytes to go after each character. *)
DrawStop(t) == {a \in Pens(t) : a[1] > Len(t)}
DrawLeft(t) == [a \in Pens(t) |-> Len(t) + 3 - a[1]]
DrawNext(t, x0, s) == [a \in Pens(t) |-> PenAfter(t, x0, s, a)]

(* The pen goes on.                                                         *)
LEMMA PenGoesOn ==
  ASSUME NEW t \in Seq(Chars), NEW x0 \in Int, NEW s \in Int,
         NEW a \in Pens(t), a[1] <= Len(t)
  PROVE  /\ PenAfter(t, x0, s, a) \in Pens(t) /\ PenAfter(t, x0, s, a)[1] > a[1]
         /\ PenAfter(t, x0, s, a)[1] = a[1] + SeqLen(t, a[1])
         /\ PenAfter(t, x0, s, a)[1] <= Len(t) + 1
         /\ Marks(t, s, a) \in Seq(Boxes)
<1>1. PICK n \in Nat : n = Len(t)
  OBVIOUS
<1>2. PICK p \in 1 .. n, x \in Int, y \in Int : a = <<p, x, y>>
  BY <1>1 DEF Pens
<1>3. a[1] = p /\ a[2] = x /\ a[3] = y
  BY <1>2
<1>4. PICK k \in 1 .. 4 : k = SeqLen(t, p) /\ p + k <= n + 1 /\ (Byte(t, p) = Newline => k = 1)
  BY <1>1, SeqLenFits
<1>5. PICK g \in Int : g = Gains(t, p) * s
  BY DEF Gains, HangulAdv, HangulW, FontAdv
<1>6. PICK d \in Int : d = LineHeight * s
  BY DEF LineHeight
<1>7. PenAfter(t, x0, s, a) = IF Byte(t, p) = Newline THEN <<p + 1, x0, y + d>> ELSE <<p + k, x + g, y>>
  BY <1>3, <1>4, <1>5, <1>6 DEF PenAfter
<1>8. PICK q \in Int, u \in Int, v \in Int : PenAfter(t, x0, s, a) = <<q, u, v>> /\ q = p + k
  BY <1>4, <1>7
<1>9. <<q, u, v>> \in Pens(t) /\ <<q, u, v>>[1] = q
  <2>1. q \in 1 .. n + 3
    BY <1>4, <1>8
  <2>. QED BY <1>1, <2>1 DEF Pens
<1>10. Marks(t, s, a) \in Seq(Boxes)
  <2>1. PICK w1 \in Int, h1 \in Int, w2 \in Int, h2 \in Int :
           w1 = FontW * s /\ h1 = FontH * s /\ w2 = HangulW * s /\ h2 = HangulH * s
    BY DEF FontW, FontH, HangulW, HangulH
  <2>2. PICK b \in Boxes : b = [x |-> x, y |-> y, w |-> w1, h |-> h1]
    BY DEF Boxes
  <2>3. PICK c \in Boxes : c = [x |-> x, y |-> y, w |-> w2, h |-> h2]
    BY DEF Boxes
  <2>4. << >> \in Seq(Boxes) /\ <<b>> \in Seq(Boxes) /\ <<c>> \in Seq(Boxes)
    OBVIOUS
  <2>5. Marks(t, s, a) \in {<< >>, <<b>>, <<c>>}
    BY <1>3, <2>1, <2>2, <2>3 DEF Marks
  <2>. QED BY <2>4, <2>5
<1>. QED BY <1>1, <1>3, <1>4, <1>8, <1>9, <1>10

(* The pen comes to the end of the text from everywhere.                     *)
LEMMA DrawIsWay ==
  ASSUME NEW t \in Seq(Chars), NEW x0 \in Int, NEW s \in Int
  PROVE  IsWay(Pens(t), DrawStop(t), DrawLeft(t), DrawNext(t, x0, s))
<1>1. PICK n \in Nat : n = Len(t)
  OBVIOUS
<1>2. ASSUME NEW a \in Pens(t) PROVE n + 3 - a[1] \in Nat
  BY <1>1 DEF Pens
<1>3. DrawLeft(t) \in [Pens(t) -> Nat] /\ DrawStop(t) \subseteq Pens(t)
  BY <1>1, <1>2 DEF DrawLeft, DrawStop
<1>4. ASSUME NEW a \in Pens(t) \ DrawStop(t)
      PROVE  /\ DrawNext(t, x0, s)[a] \in Pens(t)
             /\ DrawLeft(t)[DrawNext(t, x0, s)[a]] < DrawLeft(t)[a]
  <2>1. a[1] <= Len(t)
    BY <1>1 DEF Pens, DrawStop
  <2>2. PICK b \in Pens(t) : b = PenAfter(t, x0, s, a) /\ b[1] > a[1]
    BY <2>1, PenGoesOn
  <2>3. DrawNext(t, x0, s)[a] = b
    BY <2>2 DEF DrawNext
  <2>4. a[1] \in Int /\ b[1] \in Int
    BY DEF Pens
  <2>. QED BY <1>1, <2>2, <2>3, <2>4 DEF DrawLeft
<1>. QED BY <1>3, <1>4 DEF IsWay

(* Marks put before those of a drawing make a drawing.                      *)
LEMMA MarksAdd ==
  ASSUME NEW r \in Results, NEW d \in Seq(Boxes)
  PROVE  /\ WithMarks(r, d) \in Results /\ WithMarks(r, d).boxes = d \o r.boxes
         /\ WithMarks(r, d).x = r.x /\ WithMarks(r, d).y = r.y /\ WithMarks(r, d).end = r.end
<1>1. PICK b \in Seq(Boxes), x \in Int, y \in Int, e \in Nat : r = [boxes |-> b, x |-> x, y |-> y, end |-> e]
  BY DEF Results
<1>2. PICK c \in Seq(Boxes) : c = d \o b
  BY <1>1, ConcatProperties
<1>3. [r EXCEPT !.boxes = d \o @] = [r EXCEPT !.boxes = c]
  BY <1>1, <1>2
<1>4. WithMarks(r, d) = [boxes |-> c, x |-> x, y |-> y, end |-> e]
  BY <1>1, <1>3 DEF WithMarks
<1>5. [boxes |-> c, x |-> x, y |-> y, end |-> e] \in Results
  BY DEF Results
<1>. QED BY <1>1, <1>2, <1>4, <1>5

(* What it draws is boxes, and it ends somewhere.                            *)
LEMMA DrawsAre ==
  ASSUME NEW t \in Seq(Chars), NEW x0 \in Int, NEW s \in Int, NEW f, Draws(f, t, x0, s)
  PROVE  f \in [Pens(t) -> Results]
<1> DEFINE T == {a \in Pens(t) : f[a] \in Results}
<1>1. \A a \in Pens(t) : f[a] = IF a[1] > Len(t) THEN PenDown(a)
                                ELSE WithMarks(f[PenAfter(t, x0, s, a)], Marks(t, s, a))
  BY DEF Draws
<1>2. ASSUME NEW a \in Pens(t) PROVE PenDown(a) \in Results
  BY DEF PenDown, Results, Pens
<1>3. DrawStop(t) \subseteq T
  BY <1>1, <1>2 DEF DrawStop
<1>4. ASSUME NEW a \in Pens(t) \ DrawStop(t), DrawNext(t, x0, s)[a] \in T PROVE a \in T
  <2>1. a[1] <= Len(t) /\ ~(a[1] > Len(t))
    BY DEF Pens, DrawStop
  <2>2. f[PenAfter(t, x0, s, a)] \in Results
    BY <1>4 DEF DrawNext
  <2>3. Marks(t, s, a) \in Seq(Boxes)
    BY <2>1, PenGoesOn
  <2>. QED BY <1>1, <2>1, <2>2, <2>3, MarksAdd
<1> HIDE DEF T
<1>5. Pens(t) \subseteq T
  BY <1>3, <1>4, DrawIsWay, WalkEnds
<1>6. \A a \in Pens(t) : f[a] \in Results
  BY <1>5 DEF T
<1>7. f = [a \in Pens(t) |-> f[a]]
  BY DEF Draws
<1>. QED BY <1>6, <1>7

(* There is such a drawing.                                                 *)
LEMMA DrawsExist ==
  ASSUME NEW t \in Seq(Chars), NEW x0 \in Int, NEW s \in Int
  PROVE  \E f : Draws(f, t, x0, s)
<1> DEFINE last == [a \in Pens(t) |-> PenDown(a)]
           join == [u \in Pens(t) \X Results |-> WithMarks(u[2], Marks(t, s, u[1]))]
<1>1. PICK f : IsWalk(f, Pens(t), DrawStop(t), DrawNext(t, x0, s), last, join)
  BY DrawIsWay, WalksExist
<1>2. AreGivens(Pens(t), DrawStop(t), last, join, Results)
  <2>1. ASSUME NEW a \in DrawStop(t) PROVE last[a] \in Results
    BY DEF DrawStop, PenDown, Results, Pens
  <2>2. ASSUME NEW a \in Pens(t) \ DrawStop(t), NEW v \in Results PROVE join[<<a, v>>] \in Results
    <3>1. a[1] <= Len(t)
      BY DEF Pens, DrawStop
    <3>2. Marks(t, s, a) \in Seq(Boxes)
      BY <3>1, PenGoesOn
    <3>3. join[<<a, v>>] = WithMarks(v, Marks(t, s, a))
      OBVIOUS
    <3>. QED BY <3>2, <3>3, MarksAdd
  <2> HIDE DEF last, join
  <2>. QED BY <2>1, <2>2 DEF AreGivens
<1>3. f \in [Pens(t) -> Results]
  <2> HIDE DEF last, join
  <2>. QED BY <1>1, <1>2, DrawIsWay, WalksAre
<1>4. ASSUME NEW a \in Pens(t)
      PROVE  f[a] = IF a[1] > Len(t) THEN PenDown(a)
                    ELSE WithMarks(f[PenAfter(t, x0, s, a)], Marks(t, s, a))
  <2>1. f[a] = Given(f, DrawStop(t), DrawNext(t, x0, s), last, join, a)
    BY <1>1 DEF IsWalk
  <2>2. CASE a[1] > Len(t)
    BY <2>1, <2>2 DEF Given, DrawStop
  <2>3. CASE ~(a[1] > Len(t))
    <3>1. a[1] <= Len(t) /\ a \notin DrawStop(t)
      BY <2>3 DEF Pens, DrawStop
    <3>2. PICK b \in Pens(t) : b = PenAfter(t, x0, s, a)
      BY <3>1, PenGoesOn
    <3>3. DrawNext(t, x0, s)[a] = b
      BY <3>2 DEF DrawNext
    <3>4. f[a] = join[<<a, f[b]>>]
      BY <2>1, <3>1, <3>3 DEF Given
    <3>5. PICK v \in Results : v = f[b]
      BY <1>3
    <3>6. join[<<a, v>>] = WithMarks(v, Marks(t, s, a))
      OBVIOUS
    <3>. QED BY <2>3, <3>2, <3>4, <3>5, <3>6
  <2>. QED BY <2>2, <2>3
<1>5. f = [a \in Pens(t) |-> f[a]]
  BY <1>3
<1>. QED BY <1>4, <1>5 DEF Draws

(* What is drawn is such a drawing, from its first byte.                    *)
LEMMA DrawIs ==
  ASSUME NEW t \in Seq(Chars), NEW x0 \in Int, NEW y0 \in Int, NEW scale \in Int,
         NEW s \in Int, s = IF scale < 1 THEN 1 ELSE scale
  PROVE  \E f \in [Pens(t) -> Results] : Draws(f, t, x0, s) /\ Draw(t, x0, y0, scale) = f[<<1, x0, y0>>]
<1> DEFINE Mark(x, y, wid, meas) == [x |-> x, y |-> y, w |-> wid * s, h |-> meas * s]
           Code(f, at) ==
             LET p == at[1]
                 x == at[2]
                 y == at[3]
                 c == Byte(t, p)
                 then(d, q, nx, ny) == LET r == f[<<q, nx, ny>>] IN [r EXCEPT !.boxes = d \o @]
             IN CASE p > Len(t) -> [boxes |-> << >>, x |-> x, y |-> y, end |-> p]
                  [] p <= Len(t) /\ c = Newline -> then(<< >>, p + 1, x0, y + LineHeight * s)
                  [] p <= Len(t) /\ Printable(c) ->
                       then(<<Mark(x, y, FontW, FontH)>>, p + 1, x + FontAdv * s, y)
                  [] p <= Len(t) /\ ~Printable(c) /\ IsHangul(t, p) ->
                       then(<<Mark(x, y, HangulW, HangulH)>>, p + 3, x + HangulAdv * s, y)
                  [] OTHER -> then(<< >>, p + SeqLen(t, p), x + FontAdv * s, y)
           Is(f) == f = [at \in (1 .. Len(t) + 3) \X Int \X Int |-> Code(f, at)]
           Mine(f, a) == IF a[1] > Len(t) THEN PenDown(a)
                         ELSE WithMarks(f[PenAfter(t, x0, s, a)], Marks(t, s, a))
<1>1. ASSUME NEW f, NEW a \in Pens(t) PROVE Code(f, a) = Mine(f, a)
  <2>1. PICK p \in 1 .. Len(t) + 3, x \in Int, y \in Int : a = <<p, x, y>>
    BY DEF Pens
  <2>2. a[1] = p /\ a[2] = x /\ a[3] = y
    BY <2>1
  <2>3. PICK c : c = Byte(t, p)
    OBVIOUS
  <2>4. p <= Len(t) /\ (c = Newline \/ Printable(c)) => SeqLen(t, p) = 1
    BY <2>3, SeqLenFits
  <2>5. p <= Len(t) /\ IsHangul(t, p) => SeqLen(t, p) = 3 /\ c # Newline
    BY <2>4 DEF IsHangul
  <2>6. ~(c = Newline /\ Printable(c))
    <3>1. 10 \notin 32 .. 126
      OBVIOUS
    <3>. QED BY <3>1 DEF Newline, Printable
  <2>7. CASE p > Len(t)
    BY <2>2, <2>7 DEF PenDown
  <2>8. CASE p <= Len(t) /\ c = Newline
    <3>1. Mine(f, a) = WithMarks(f[<<p + 1, x0, y + LineHeight * s>>], << >>)
      BY <2>2, <2>3, <2>8 DEF PenAfter, Marks
    <3>2. ~(p > Len(t)) /\ ~IsHangul(t, p) /\ ~Printable(c)
      BY <2>5, <2>6, <2>8
    <3>. QED BY <2>2, <2>3, <2>8, <3>1, <3>2 DEF WithMarks
  <2>9. CASE p <= Len(t) /\ c # Newline /\ Printable(c)
    <3>1. Mine(f, a) = WithMarks(f[<<p + 1, x + FontAdv * s, y>>], <<Mark(x, y, FontW, FontH)>>)
      BY <2>2, <2>3, <2>4, <2>9 DEF PenAfter, Marks, Gains, Wide
    <3>2. ~(p > Len(t))
      BY <2>9
    <3>. QED BY <2>2, <2>3, <2>9, <3>1, <3>2 DEF WithMarks
  <2>10. CASE p <= Len(t) /\ c # Newline /\ ~Printable(c) /\ IsHangul(t, p)
    <3>1. Mine(f, a) = WithMarks(f[<<p + 3, x + HangulAdv * s, y>>], <<Mark(x, y, HangulW, HangulH)>>)
      BY <2>2, <2>3, <2>5, <2>10 DEF PenAfter, Marks, Gains, Wide
    <3>2. ~(p > Len(t))
      BY <2>10
    <3>. QED BY <2>2, <2>3, <2>10, <3>1, <3>2 DEF WithMarks
  <2>11. CASE p <= Len(t) /\ c # Newline /\ ~Printable(c) /\ ~IsHangul(t, p)
    <3>1. Mine(f, a) = WithMarks(f[<<p + SeqLen(t, p), x + FontAdv * s, y>>], << >>)
      BY <2>2, <2>3, <2>11 DEF PenAfter, Marks, Gains, Wide
    <3>2. ~(p > Len(t))
      BY <2>11
    <3>. QED BY <2>2, <2>3, <2>11, <3>1, <3>2 DEF WithMarks
  <2>. QED BY <2>7, <2>8, <2>9, <2>10, <2>11
<1> HIDE DEF Code, Mine
<1>2. \A f : Is(f) <=> Draws(f, t, x0, s)
  <2>1. ASSUME NEW f PROVE Is(f) <=> Draws(f, t, x0, s)
    <3>1. \A a \in Pens(t) : Code(f, a) = Mine(f, a)
      BY <1>1
    <3>2. Is(f) <=> f = [a \in Pens(t) |-> Code(f, a)]
      BY DEF Pens
    <3>3. Draws(f, t, x0, s) <=> f = [a \in Pens(t) |-> Mine(f, a)]
      BY DEF Draws, Mine
    <3>. QED BY <3>1, <3>2, <3>3
  <2>. QED BY <2>1
<1>3. \E f : Is(f)
  BY <1>2, DrawsExist
<1>4. Is(CHOOSE f : Is(f))
  <2> HIDE DEF Is
  <2>. QED BY <1>3
<1>5. Draw(t, x0, y0, scale) = (CHOOSE f : Is(f))[<<1, x0, y0>>]
  BY DEF Draw, Code, Is
<1>6. PICK g : g = CHOOSE f : Is(f)
  OBVIOUS
<1> HIDE DEF Is
<1>7. Draws(g, t, x0, s)
  BY <1>2, <1>4, <1>6
<1>8. g \in [Pens(t) -> Results]
  BY <1>7, DrawsAre
<1>9. Draw(t, x0, y0, scale) = g[<<1, x0, y0>>]
  BY <1>5, <1>6
<1>. QED BY <1>7, <1>8, <1>9

-----------------------------------------------------------------------------
(* measure as a walk.  A ruler is at a byte and has come to a width.        *)
Rulers(t) == (1 .. Len(t) + 3) \X Nat
Measures == [width : Int, len : Nat]
Full(t, maxw, a) ==
  \/ a[1] > Len(t) \/ Byte(t, a[1]) = Newline
  \/ maxw >= 0 /\ a[1] > 1 /\ a[2] + Gains(t, a[1]) - 1 > maxw
RulerAfter(t, a) == <<a[1] + SeqLen(t, a[1]), a[2] + Gains(t, a[1])>>
Measured(a) == [width |-> IF a[1] = 1 THEN 0 ELSE a[2] - 1, len |-> a[1] - 1]

(* f is what is measured from each place of the ruler on.                    *)
MeasuresBy(f, t, maxw) ==
  f = [a \in Rulers(t) |-> IF Full(t, maxw, a) THEN Measured(a) ELSE f[RulerAfter(t, a)]]

(* The ruler stops where the line is full, and has fewer bytes to go before. *)
MeasureStop(t, maxw) == {a \in Rulers(t) : Full(t, maxw, a)}
MeasureLeft(t) == [a \in Rulers(t) |-> Len(t) + 3 - a[1]]
MeasureNext(t) == [a \in Rulers(t) |-> RulerAfter(t, a)]

(* A character is 6 or 19 pixels wide with its gap.                          *)
LEMMA GainsAre == \A t, p : Gains(t, p) \in {6, 19}
BY DEF Gains, FontAdv, HangulAdv, HangulW

(* The ruler goes on to the next character, inside of the text.              *)
LEMMA RulerGoesOn ==
  ASSUME NEW t \in Seq(Chars), NEW maxw \in Int, NEW a \in Rulers(t), ~Full(t, maxw, a)
  PROVE  /\ RulerAfter(t, a) \in Rulers(t) /\ a[1] \in 1 .. Len(t)
         /\ RulerAfter(t, a)[1] > a[1] /\ RulerAfter(t, a)[1] <= Len(t) + 1
<1>1. PICK n \in Nat : n = Len(t)
  OBVIOUS
<1>2. PICK p \in 1 .. n + 3, wid \in Nat : a = <<p, wid>>
  BY <1>1 DEF Rulers
<1>3. a[1] = p /\ a[2] = wid
  BY <1>2
<1>4. p \in 1 .. n
  BY <1>1, <1>3 DEF Full
<1>5. PICK k \in 1 .. 4 : k = SeqLen(t, p) /\ p + k <= n + 1
  BY <1>1, <1>4, SeqLenFits
<1>6. PICK g \in Nat : g = Gains(t, p)
  BY GainsAre
<1>7. RulerAfter(t, a) = <<p + k, wid + g>>
  BY <1>3, <1>5, <1>6 DEF RulerAfter
<1>. QED BY <1>1, <1>3, <1>4, <1>5, <1>7 DEF Rulers

(* The ruler comes to a stop from everywhere.                                *)
LEMMA MeasureIsWay ==
  ASSUME NEW t \in Seq(Chars), NEW maxw \in Int
  PROVE  IsWay(Rulers(t), MeasureStop(t, maxw), MeasureLeft(t), MeasureNext(t))
<1>1. PICK n \in Nat : n = Len(t)
  OBVIOUS
<1>2. ASSUME NEW a \in Rulers(t) PROVE n + 3 - a[1] \in Nat /\ a[1] \in Int
  BY <1>1 DEF Rulers
<1>3. MeasureLeft(t) \in [Rulers(t) -> Nat] /\ MeasureStop(t, maxw) \subseteq Rulers(t)
  BY <1>1, <1>2 DEF MeasureLeft, MeasureStop
<1>4. ASSUME NEW a \in Rulers(t) \ MeasureStop(t, maxw)
      PROVE  /\ MeasureNext(t)[a] \in Rulers(t)
             /\ MeasureLeft(t)[MeasureNext(t)[a]] < MeasureLeft(t)[a]
  <2>1. ~Full(t, maxw, a)
    BY DEF MeasureStop
  <2>2. PICK b \in Rulers(t) : b = RulerAfter(t, a) /\ b[1] > a[1]
    BY <2>1, RulerGoesOn
  <2>3. MeasureNext(t)[a] = b
    BY <2>2 DEF MeasureNext
  <2>4. a[1] \in Int /\ b[1] \in Int
    BY <1>2
  <2>. QED BY <1>1, <2>2, <2>3, <2>4 DEF MeasureLeft
<1>. QED BY <1>3, <1>4 DEF IsWay

(* What is measured is a width and a length.                                 *)
LEMMA MeasuresAre ==
  ASSUME NEW t \in Seq(Chars), NEW maxw \in Int, NEW f, MeasuresBy(f, t, maxw)
  PROVE  f \in [Rulers(t) -> Measures]
<1> DEFINE T == {a \in Rulers(t) : f[a] \in Measures}
<1>1. \A a \in Rulers(t) : f[a] = IF Full(t, maxw, a) THEN Measured(a) ELSE f[RulerAfter(t, a)]
  BY DEF MeasuresBy
<1>2. ASSUME NEW a \in Rulers(t) PROVE Measured(a) \in Measures
  BY DEF Measured, Measures, Rulers
<1>3. MeasureStop(t, maxw) \subseteq T
  BY <1>1, <1>2 DEF MeasureStop
<1>4. ASSUME NEW a \in Rulers(t) \ MeasureStop(t, maxw), MeasureNext(t)[a] \in T PROVE a \in T
  <2>1. ~Full(t, maxw, a)
    BY DEF MeasureStop
  <2>2. f[RulerAfter(t, a)] \in Measures
    BY <1>4 DEF MeasureNext
  <2>. QED BY <1>1, <2>1, <2>2
<1> HIDE DEF T
<1>5. Rulers(t) \subseteq T
  BY <1>3, <1>4, MeasureIsWay, WalkEnds
<1>6. \A a \in Rulers(t) : f[a] \in Measures
  BY <1>5 DEF T
<1>7. f = [a \in Rulers(t) |-> f[a]]
  BY DEF MeasuresBy
<1>. QED BY <1>6, <1>7

(* Every text is measured.                                                   *)
LEMMA MeasuresExist ==
  ASSUME NEW t \in Seq(Chars), NEW maxw \in Int
  PROVE  \E f : MeasuresBy(f, t, maxw)
<1> DEFINE last == [a \in Rulers(t) |-> Measured(a)]
           join == [u \in Rulers(t) \X Measures |-> u[2]]
<1>1. PICK f : IsWalk(f, Rulers(t), MeasureStop(t, maxw), MeasureNext(t), last, join)
  BY MeasureIsWay, WalksExist
<1>2. AreGivens(Rulers(t), MeasureStop(t, maxw), last, join, Measures)
  BY DEF AreGivens, MeasureStop, Measured, Measures, Rulers
<1>3. f \in [Rulers(t) -> Measures]
  <2> HIDE DEF last, join
  <2>. QED BY <1>1, <1>2, MeasureIsWay, WalksAre
<1>4. ASSUME NEW a \in Rulers(t)
      PROVE  f[a] = IF Full(t, maxw, a) THEN Measured(a) ELSE f[RulerAfter(t, a)]
  <2>1. f[a] = Given(f, MeasureStop(t, maxw), MeasureNext(t), last, join, a)
    BY <1>1 DEF IsWalk
  <2>2. CASE Full(t, maxw, a)
    BY <2>1, <2>2 DEF Given, MeasureStop
  <2>3. CASE ~Full(t, maxw, a)
    <3>1. PICK b \in Rulers(t) : b = RulerAfter(t, a)
      BY <2>3, RulerGoesOn
    <3>2. MeasureNext(t)[a] = b /\ a \notin MeasureStop(t, maxw)
      BY <2>3, <3>1 DEF MeasureNext, MeasureStop
    <3>3. f[a] = join[<<a, f[b]>>]
      BY <2>1, <3>2 DEF Given
    <3>4. PICK v \in Measures : v = f[b]
      BY <1>3
    <3>5. join[<<a, v>>] = v
      OBVIOUS
    <3>. QED BY <2>3, <3>1, <3>3, <3>4, <3>5
  <2>. QED BY <2>2, <2>3
<1>5. f = [a \in Rulers(t) |-> f[a]]
  BY <1>3
<1>. QED BY <1>4, <1>5 DEF MeasuresBy

(* What is measured is such a walk, from the first byte.                    *)
LEMMA MeasureIs ==
  ASSUME NEW t \in Seq(Chars), NEW maxw \in Int
  PROVE  \E f \in [Rulers(t) -> Measures] : MeasuresBy(f, t, maxw) /\ Measure(t, maxw) = f[<<1, 0>>]
<1> DEFINE Advs(p) == IF ~Printable(Byte(t, p)) /\ IsHangul(t, p) THEN HangulAdv ELSE FontAdv
           Size(p) == IF Printable(Byte(t, p)) THEN 1 ELSE SeqLen(t, p)
           Code(f, at) ==
             LET p == at[1]
                 width == at[2]
             IN IF \/ p > Len(t) \/ Byte(t, p) = Newline
                   \/ maxw >= 0 /\ p > 1 /\ width + Advs(p) - 1 > maxw
                THEN [width |-> IF p = 1 THEN 0 ELSE width - 1, len |-> p - 1]
                ELSE f[<<p + Size(p), width + Advs(p)>>]
           Is(f) == f = [at \in (1 .. Len(t) + 3) \X Nat |-> Code(f, at)]
           Mine(f, a) == IF Full(t, maxw, a) THEN Measured(a) ELSE f[RulerAfter(t, a)]
<1>1. ASSUME NEW f, NEW a \in Rulers(t) PROVE Code(f, a) = Mine(f, a)
  <2>1. \A p : Advs(p) = Gains(t, p)
    BY DEF Gains, Wide
  <2>2. \A p \in 1 .. Len(t) : Size(p) = SeqLen(t, p)
    BY SeqLenFits
  <2> HIDE DEF Advs, Size
  <2>3. CASE Full(t, maxw, a)
    BY <2>1, <2>3 DEF Full, Measured
  <2>4. CASE ~Full(t, maxw, a)
    <3>1. a[1] \in 1 .. Len(t)
      BY <2>4, RulerGoesOn
    <3>. QED BY <2>1, <2>2, <2>4, <3>1 DEF Full, RulerAfter
  <2>. QED BY <2>3, <2>4
<1> HIDE DEF Code, Mine
<1>2. \A f : Is(f) <=> MeasuresBy(f, t, maxw)
  <2>1. ASSUME NEW f PROVE Is(f) <=> MeasuresBy(f, t, maxw)
    <3>1. \A a \in Rulers(t) : Code(f, a) = Mine(f, a)
      BY <1>1
    <3>2. Is(f) <=> f = [a \in Rulers(t) |-> Code(f, a)]
      BY DEF Rulers
    <3>3. MeasuresBy(f, t, maxw) <=> f = [a \in Rulers(t) |-> Mine(f, a)]
      BY DEF MeasuresBy, Mine
    <3>. QED BY <3>1, <3>2, <3>3
  <2>. QED BY <2>1
<1>3. \E f : Is(f)
  BY <1>2, MeasuresExist
<1>4. Is(CHOOSE f : Is(f))
  <2> HIDE DEF Is
  <2>. QED BY <1>3
<1>5. Measure(t, maxw) = (CHOOSE f : Is(f))[<<1, 0>>]
  BY DEF Measure, Code, Is
<1>6. PICK g : g = CHOOSE f : Is(f)
  OBVIOUS
<1> HIDE DEF Is
<1>7. MeasuresBy(g, t, maxw)
  BY <1>2, <1>4, <1>6
<1>. QED BY <1>5, <1>6, <1>7, MeasuresAre

(* A byte, a column and a row are a place of the pen.                        *)
LEMMA PenPlace ==
  ASSUME NEW t, NEW p \in 1 .. Len(t) + 3, NEW x \in Int, NEW y \in Int
  PROVE  /\ <<p, x, y>> \in Pens(t)
         /\ <<p, x, y>>[1] = p /\ <<p, x, y>>[2] = x /\ <<p, x, y>>[3] = y
BY DEF Pens

(* Every place of the pen is a byte, a column and a row.                     *)
LEMMA PenParts ==
  ASSUME NEW t, NEW a \in Pens(t)
  PROVE  a = <<a[1], a[2], a[3]>> /\ a[1] \in 1 .. Len(t) + 3 /\ a[2] \in Int /\ a[3] \in Int
BY DEF Pens

(* The pen at p goes on to q, by g.                                         *)
StepsOn(f, t, s, p, x, y, q, g) ==
  /\ q \in p + 1 .. Len(t) + 1 /\ g \in Int
  /\ f[<<p, x, y>>].x = f[<<q, x + g, y>>].x
  /\ f[<<p, x, y>>].end = f[<<q, x + g, y>>].end
  /\ f[<<p, x, y>>].boxes = Marks(t, s, <<p, x, y>>) \o f[<<q, x + g, y>>].boxes
  /\ f[<<q, x + g, y>>] \in Results /\ Marks(t, s, <<p, x, y>>) \in Seq(Boxes)

(* It does so by what a character in the middle of a line takes and gains.  *)
LEMMA DrawStep ==
  ASSUME NEW t \in Seq(Chars), NEW x0 \in Int, NEW s \in Int,
         NEW f \in [Pens(t) -> Results], Draws(f, t, x0, s),
         NEW p \in 1 .. Len(t), NEW x \in Int, NEW y \in Int, Byte(t, p) # Newline,
         NEW q, q = p + SeqLen(t, p), NEW g, g = Gains(t, p) * s
  PROVE  StepsOn(f, t, s, p, x, y, q, g)
<1> DEFINE a == <<p, x, y>>
<1>1. a \in Pens(t) /\ a[1] = p /\ a[2] = x /\ a[3] = y
  <2>1. p \in 1 .. Len(t) + 3
    OBVIOUS
  <2>. QED BY <2>1, PenPlace
<1> HIDE DEF a
<1>2. a[1] = p /\ a[2] = x /\ a[3] = y /\ a[1] <= Len(t) /\ ~(a[1] > Len(t))
  BY <1>1
<1>3. PenAfter(t, x0, s, a) = <<q, x + g, y>>
  BY <1>2 DEF PenAfter
<1>4. <<q, x + g, y>> \in Pens(t) /\ Marks(t, s, a) \in Seq(Boxes)
  <2>1. PenAfter(t, x0, s, a) \in Pens(t) /\ Marks(t, s, a) \in Seq(Boxes)
    BY <1>1, <1>2, PenGoesOn
  <2>. QED BY <1>3, <2>1
<1>5. q \in p + 1 .. Len(t) + 1
  BY SeqLenFits
<1>6. g \in Int
  BY DEF Gains, HangulAdv, HangulW, FontAdv
<1>7. PICK r \in Results : r = f[<<q, x + g, y>>]
  BY <1>4
<1>8. f[a] = WithMarks(r, Marks(t, s, a))
  BY <1>1, <1>2, <1>3, <1>7 DEF Draws
<1>9. PICK m \in Seq(Boxes) : m = Marks(t, s, a)
  BY <1>4
<1>10. f[a].boxes = m \o r.boxes /\ f[a].x = r.x /\ f[a].end = r.end
  <2>1. WithMarks(r, m).boxes = m \o r.boxes /\ WithMarks(r, m).x = r.x /\ WithMarks(r, m).end = r.end
    BY <1>7, <1>9, MarksAdd
  <2>. QED BY <1>8, <1>9, <2>1
<1>. QED BY <1>1, <1>5, <1>6, <1>7, <1>9, <1>10 DEF a, StepsOn

(* It stays where it is.                                                    *)
PenStays(f, p, x, y) == f[<<p, x, y>>].x = x /\ f[<<p, x, y>>].end = p /\ f[<<p, x, y>>].boxes = << >>

(* At the NUL the pen stays where it is.                                     *)
LEMMA DrawEnd ==
  ASSUME NEW t \in Seq(Chars), NEW x0 \in Int, NEW s \in Int,
         NEW f, Draws(f, t, x0, s),
         NEW p \in Len(t) + 1 .. Len(t) + 3, NEW x \in Int, NEW y \in Int
  PROVE  PenStays(f, p, x, y)
<1> DEFINE a == <<p, x, y>>
<1>1. a \in Pens(t) /\ a[1] = p /\ a[2] = x /\ a[3] = y
  <2>1. p \in 1 .. Len(t) + 3
    OBVIOUS
  <2>. QED BY <2>1, PenPlace
<1> HIDE DEF a
<1>2. a[1] = p /\ a[2] = x /\ a[3] = y /\ a[1] > Len(t)
  BY <1>1
<1>3. f[a] = PenDown(a)
  BY <1>1, <1>2 DEF Draws
<1>. QED BY <1>1, <1>2, <1>3 DEF PenDown, a, PenStays

(* So does the ruler, without the row.                                      *)
MeasuresOn(meas, t, p, wid, q, g) ==
  /\ p \in 1 .. Len(t) /\ q \in p + 1 .. Len(t) + 1 /\ g \in {6, 19}
  /\ Byte(t, p) # Newline
  /\ meas[<<p, wid>>] = meas[<<q, wid + g>>] /\ meas[<<q, wid + g>>] \in Measures

(* The ruler goes on by what the character takes and gains.                  *)
LEMMA MeasureStep ==
  ASSUME NEW t \in Seq(Chars), NEW maxw \in Int,
         NEW meas \in [Rulers(t) -> Measures], MeasuresBy(meas, t, maxw),
         NEW p \in 1 .. Len(t) + 3, NEW wid \in Nat, ~Full(t, maxw, <<p, wid>>),
         NEW q, q = p + SeqLen(t, p), NEW g, g = Gains(t, p)
  PROVE  MeasuresOn(meas, t, p, wid, q, g)
<1>1. PICK a \in Rulers(t) : a = <<p, wid>>
  BY DEF Rulers
<1>2. a[1] = p /\ a[2] = wid
  BY <1>1
<1>3. RulerAfter(t, a) = <<q, wid + g>>
  BY <1>2 DEF RulerAfter
<1>4. /\ <<q, wid + g>> \in Rulers(t) /\ p \in 1 .. Len(t)
  BY <1>1, <1>2, <1>3, RulerGoesOn
<1>5. q \in p + 1 .. Len(t) + 1
  BY <1>4, SeqLenFits
<1>6. meas[a] = meas[<<q, wid + g>>]
  BY <1>1, <1>3 DEF MeasuresBy
<1>7. Byte(t, p) # Newline
  BY <1>1, <1>2 DEF Full
<1>. QED BY <1>1, <1>4, <1>5, <1>6, <1>7, GainsAre DEF MeasuresOn

(* The width is taken without the gap behind it.                             *)
MeasuresOut(meas, p, wid) == meas[<<p, wid>>].width = (IF p = 1 THEN 0 ELSE wid - 1) /\ meas[<<p, wid>>].len = p - 1

(* That is what the ruler says where the line is full.                       *)
LEMMA MeasureEnd ==
  ASSUME NEW t \in Seq(Chars), NEW maxw \in Int,
         NEW meas, MeasuresBy(meas, t, maxw),
         NEW p \in 1 .. Len(t) + 3, NEW wid \in Nat, Full(t, maxw, <<p, wid>>)
  PROVE  MeasuresOut(meas, p, wid)
<1>1. PICK a \in Rulers(t) : a = <<p, wid>>
  BY DEF Rulers
<1>2. a[1] = p /\ a[2] = wid
  BY <1>1
<1>3. meas[a] = Measured(a)
  BY <1>1 DEF MeasuresBy
<1>. QED BY <1>1, <1>2, <1>3 DEF Measured, MeasuresOut

(* The pen comes to the end of the text, however it is cut.                 *)
LEMMA PenEnds ==
  ASSUME NEW t \in Seq(Chars), NEW x0 \in Int, NEW s \in Int,
         NEW f \in [Pens(t) -> Results], Draws(f, t, x0, s),
         NEW b \in Pens(t), b[1] <= Len(t) + 1
  PROVE  f[b].end = Len(t) + 1
<1> DEFINE T == {a \in Pens(t) : a[1] <= Len(t) + 1 => f[a].end = Len(t) + 1}
<1>1. ASSUME NEW a \in DrawStop(t) PROVE a \in T
  <2>1. a \in Pens(t) /\ a[1] > Len(t) /\ f[a] = PenDown(a) /\ a[1] \in Int
    BY DEF DrawStop, Draws, Pens
  <2>. QED BY <2>1 DEF PenDown
<1>2. ASSUME NEW a \in Pens(t) \ DrawStop(t), DrawNext(t, x0, s)[a] \in T PROVE a \in T
  <2>1. a[1] <= Len(t) /\ ~(a[1] > Len(t))
    BY DEF DrawStop, Pens
  <2>2. PICK c \in Pens(t) : c = PenAfter(t, x0, s, a) /\ c[1] <= Len(t) + 1
    BY <2>1, PenGoesOn
  <2>3. f[c].end = Len(t) + 1
    BY <1>2, <2>2 DEF DrawNext
  <2>4. f[a] = WithMarks(f[c], Marks(t, s, a))
    BY <2>1, <2>2 DEF Draws
  <2>5. Marks(t, s, a) \in Seq(Boxes) /\ f[c] \in Results
    BY <2>1, <2>2, PenGoesOn
  <2>. QED BY <2>3, <2>4, <2>5, MarksAdd
<1> HIDE DEF T
<1>3. Pens(t) \subseteq T
  BY <1>1, <1>2, DrawIsWay, WalkEnds
<1>. QED BY <1>3 DEF T

(* The pen at p and the ruler at p end equally far on.                       *)
GoesAsFar(f, meas, s, p, x, y, wid) == f[<<p, x, y>>].x = x + s * (meas[<<p, wid>>].width + 1 - wid)

(* The pen goes as far as the width says, from any byte but the first, where *)
(* there is no gap yet.                                                     *)
LEMMA WidthsAgree ==
  ASSUME NEW t \in Seq(Chars), OneLine(t), NEW x0 \in Int, NEW s \in {1, 2},
         NEW f \in [Pens(t) -> Results], Draws(f, t, x0, s),
         NEW none \in Int, none < 0,
         NEW meas \in [Rulers(t) -> Measures], MeasuresBy(meas, t, none),
         NEW p \in 2 .. Len(t) + 1, NEW x \in Int, NEW y \in Int, NEW wid \in Nat
  PROVE  GoesAsFar(f, meas, s, p, x, y, wid)
<1> DEFINE T == {a \in Pens(t) : a[1] \in 2 .. Len(t) + 1 =>
                    \A v \in Nat : f[a].x = a[2] + s * (meas[<<a[1], v>>].width + 1 - v)}
<1>1. ASSUME NEW a \in DrawStop(t) PROVE a \in T
  <2>1. SUFFICES ASSUME a[1] \in 2 .. Len(t) + 1, NEW v \in Nat
                 PROVE  f[a].x = a[2] + s * (meas[<<a[1], v>>].width + 1 - v)
    BY DEF DrawStop
  <2>2. PICK q \in Len(t) + 1 .. Len(t) + 3, z \in Int, u \in Int : a = <<q, z, u>>
    BY SMTT(30) DEF DrawStop, Pens
  <2>3. a[1] = q /\ a[2] = z /\ q = Len(t) + 1 /\ q # 1 /\ q \in 1 .. Len(t) + 3
    BY <2>1, <2>2
  <2>4. f[a].x = z
    BY <2>2, DrawEnd DEF PenStays
  <2>5. Full(t, none, <<q, v>>)
    BY <2>3 DEF Full
  <2>6. meas[<<q, v>>].width = v - 1
    BY <2>3, <2>5, MeasureEnd DEF MeasuresOut
  <2>. QED BY <2>3, <2>4, <2>6
<1>2. ASSUME NEW a \in Pens(t) \ DrawStop(t), DrawNext(t, x0, s)[a] \in T PROVE a \in T
  <2>1. SUFFICES ASSUME a[1] \in 2 .. Len(t) + 1, NEW v \in Nat
                 PROVE  f[a].x = a[2] + s * (meas[<<a[1], v>>].width + 1 - v)
    OBVIOUS
  <2>2. PICK q \in 2 .. Len(t), z \in Int, u \in Int : a = <<q, z, u>>
    <3>1. a[1] \in 2 .. Len(t)
      BY <2>1 DEF DrawStop
    <3>. QED BY <3>1, PenParts
  <2>3. a[1] = q /\ a[2] = z /\ a[3] = u /\ q \in 1 .. Len(t) /\ q \in 1 .. Len(t) + 3
    BY <2>2
  <2>4. Byte(t, q) # Newline
    BY <2>3 DEF OneLine, Byte
  <2>5. PICK r : r = q + SeqLen(t, q)
    OBVIOUS
  <2>6. PICK g \in Nat : g = Gains(t, q)
    BY GainsAre
  <2>7. PICK d \in Int : d = Gains(t, q) * s
    BY <2>6
  <2>20. s \in Int
    OBVIOUS
  <2>8. r \in q + 1 .. Len(t) + 1 /\ f[a].x = f[<<r, z + d, u>>].x
    <3>1. StepsOn(f, t, s, q, z, u, r, d)
      BY <2>2, <2>3, <2>4, <2>5, <2>7, <2>20, DrawStep
    <3>. QED BY <2>2, <3>1 DEF StepsOn
  <2>9. ~Full(t, none, <<q, v>>)
    BY <2>3, <2>4 DEF Full
  <2>10. meas[<<q, v>>] = meas[<<r, v + g>>] /\ meas[<<r, v + g>>] \in Measures
    BY <2>3, <2>5, <2>6, <2>9, MeasureStep, SMTT(30) DEF MeasuresOn
  <2>11. <<r, z + d, u>> \in T
    <3>1. DrawNext(t, x0, s)[a] = <<r, z + d, u>>
      BY <2>3, <2>4, <2>5, <2>7 DEF DrawNext, PenAfter
    <3>. QED BY <1>2, <3>1
  <2>12. f[<<r, z + d, u>>].x = z + d + s * (meas[<<r, v + g>>].width + 1 - (v + g))
    <3>1. r \in 2 .. Len(t) + 1
      BY <2>2, <2>8
    <3>2. <<r, z + d, u>>[1] = r /\ <<r, z + d, u>>[2] = z + d
      OBVIOUS
    <3>3. v + g \in Nat
      BY <2>6
    <3>. QED BY <2>11, <3>1, <3>2, <3>3
  <2>13. PICK m \in Int : m = meas[<<r, v + g>>].width
    BY <2>10 DEF Measures
  <2>14. z + d + s * (m + 1 - (v + g)) = z + s * (m + 1 - v)
    <3>1. d = g * s
      BY <2>6, <2>7
    <3>2. CASE s = 1
      BY <3>1, <3>2
    <3>3. CASE s = 2
      BY <3>1, <3>3
    <3>. QED BY <3>2, <3>3
  <2>. QED BY <2>3, <2>8, <2>10, <2>12, <2>13, <2>14
<1> HIDE DEF T
<1>3. Pens(t) \subseteq T
  BY <1>1, <1>2, DrawIsWay, WalkEnds
<1>4. <<p, x, y>> \in Pens(t) /\ <<p, x, y>>[1] = p /\ <<p, x, y>>[2] = x
  BY DEF Pens
<1>5. <<p, x, y>> \in T
  BY <1>3, <1>4
<1>. QED BY <1>4, <1>5 DEF T, GoesAsFar

(* A text drawn at one scale or at two.                                     *)
LEMMA TextDrawn ==
  ASSUME NEW t \in Seq(Chars), NEW scale \in {0, 2}
  PROVE  LET d == Draw(t, 3, 4, scale)
             s == Greater(scale, 1)
         IN /\ d.end = Len(t) + 1
            /\ OneLine(t) => d.x = 3 + TextWidth(t, scale) + (IF t = << >> THEN 0 ELSE s)
<1>1. PICK s \in {1, 2} : s = Greater(scale, 1) /\ s = IF scale < 1 THEN 1 ELSE scale
  BY DEF Greater
<1>2. scale \in Int /\ s \in Int
  OBVIOUS
<1>3. PICK f \in [Pens(t) -> Results] : Draws(f, t, 3, s) /\ Draw(t, 3, 4, scale) = f[<<1, 3, 4>>]
  BY <1>1, <1>2, DrawIs
<1>4. PICK none \in Int : none = -1
  OBVIOUS
<1>5. PICK meas \in [Rulers(t) -> Measures] : MeasuresBy(meas, t, none) /\ Measure(t, none) = meas[<<1, 0>>]
  BY <1>4, MeasureIs
<1>6. TextWidth(t, scale) = meas[<<1, 0>>].width * s
  BY <1>1, <1>4, <1>5 DEF TextWidth
<1>7. 1 \in 1 .. Len(t) + 3 /\ 3 \in Int /\ 4 \in Int /\ 0 \in Nat
  OBVIOUS
<1>8. f[<<1, 3, 4>>].end = Len(t) + 1
  <2>1. <<1, 3, 4>> \in Pens(t) /\ <<1, 3, 4>>[1] = 1
    BY <1>7, PenPlace
  <2>2. <<1, 3, 4>>[1] <= Len(t) + 1
    BY <2>1
  <2>. QED BY <1>2, <1>3, <1>7, <2>1, <2>2, PenEnds
<1>9. ASSUME OneLine(t)
      PROVE  f[<<1, 3, 4>>].x = 3 + meas[<<1, 0>>].width * s + (IF t = << >> THEN 0 ELSE s)
  <2>1. CASE Len(t) = 0
    <3>1. 1 \in Len(t) + 1 .. Len(t) + 3
      BY <2>1
    <3>2. f[<<1, 3, 4>>].x = 3
      BY <1>2, <1>3, <1>7, <3>1, DrawEnd DEF PenStays
    <3>3. Full(t, none, <<1, 0>>)
      BY <2>1 DEF Full
    <3>4. meas[<<1, 0>>].width = 0
      BY <1>4, <1>5, <1>7, <3>3, MeasureEnd DEF MeasuresOut
    <3>5. t = << >>
      BY <2>1
    <3>. QED BY <1>1, <3>2, <3>4, <3>5
  <2>2. CASE Len(t) # 0
    <3>1. 1 \in 1 .. Len(t)
      BY <2>2
    <3>2. Byte(t, 1) # Newline
      BY <1>9, <3>1 DEF OneLine, Byte
    <3>3. PICK q : q = 1 + SeqLen(t, 1)
      OBVIOUS
    <3>4. PICK g \in Nat : g = Gains(t, 1)
      BY GainsAre
    <3>5. PICK d \in Int : d = Gains(t, 1) * s /\ d = g * s
      BY <1>1, <3>4
    <3>6. StepsOn(f, t, s, 1, 3, 4, q, d)
      BY <1>2, <1>3, <1>7, <3>1, <3>2, <3>3, <3>5, DrawStep
    <3>7. ~Full(t, none, <<1, 0>>)
      BY <1>4, <3>1, <3>2 DEF Full
    <3>8. meas[<<1, 0>>] = meas[<<q, 0 + g>>] /\ meas[<<q, 0 + g>>] \in Measures
      BY <1>4, <1>5, <1>7, <3>3, <3>4, <3>7, MeasureStep DEF MeasuresOn
    <3>9. q \in 2 .. Len(t) + 1 /\ 3 + d \in Int /\ 0 + g = g /\ g \in Nat /\ none < 0
      BY <1>4, <3>4, <3>5, <3>6 DEF StepsOn
    <3>10. f[<<q, 3 + d, 4>>].x = 3 + d + s * (meas[<<q, g>>].width + 1 - g)
      <4>1. PICK z \in Int : z = 3 + d
        BY <3>9
      <4>2. GoesAsFar(f, meas, s, q, z, 4, g)
        BY <1>3, <1>4, <1>5, <1>7, <1>9, <3>9, WidthsAgree
      <4>. QED BY <4>1, <4>2 DEF GoesAsFar
    <3>11. PICK m \in Int : m = meas[<<1, 0>>].width /\ m = meas[<<q, g>>].width
      BY <3>8, <3>9 DEF Measures
    <3>12. t # << >>
      BY <2>2
    <3>13. 3 + d + s * (m + 1 - g) = 3 + m * s + s
      <4>1. CASE s = 1
        BY <3>5, <4>1
      <4>2. CASE s = 2
        BY <3>5, <4>2
      <4>. QED BY <1>1, <4>1, <4>2
    <3>. QED BY <3>6, <3>10, <3>11, <3>12, <3>13 DEF StepsOn
  <2>. QED BY <2>1, <2>2
<1>. QED BY <1>1, <1>3, <1>6, <1>8, <1>9

-----------------------------------------------------------------------------
(* Two texts have the same character at a byte of each.                     *)
SameChar(t, p, u, q) ==
  Byte(t, p) = Byte(u, q) /\ SeqLen(t, p) = SeqLen(u, q) /\ (IsHangul(t, p) <=> IsHangul(u, q))

(* It is Hangul by three bytes.                                             *)
LEMMA SameBytes ==
  ASSUME NEW t, NEW p, NEW u, NEW q, SeqLen(t, p) = SeqLen(u, q),
         Byte(t, p) = Byte(u, q), Byte(t, p + 1) = Byte(u, q + 1), Byte(t, p + 2) = Byte(u, q + 2)
  PROVE  IsHangul(t, p) <=> IsHangul(u, q)
<1>1. PICK n : n = SeqLen(t, p) /\ n = SeqLen(u, q)
  OBVIOUS
<1>2. PICK a : a = Byte(t, p) /\ a = Byte(u, q)
  OBVIOUS
<1>3. PICK b : b = Byte(t, p + 1) /\ b = Byte(u, q + 1)
  OBVIOUS
<1>4. PICK c : c = Byte(t, p + 2) /\ c = Byte(u, q + 2)
  OBVIOUS
<1>5. PICK k : k = (a % 16) * 4096 + (b % 64) * 64 + (c % 64)
  OBVIOUS
<1>6. IsHangul(t, p) <=> n = 3 /\ HangulLookup(k)
  BY <1>1, <1>2, <1>3, <1>4, <1>5 DEF IsHangul
<1>7. IsHangul(u, q) <=> n = 3 /\ HangulLookup(k)
  BY <1>1, <1>2, <1>3, <1>4, <1>5 DEF IsHangul
<1>. QED BY <1>6, <1>7

(* A text cut behind a whole character has the characters it had.           *)
LEMMA CutHas ==
  ASSUME NEW t \in Seq(Chars), NEW l \in 0 .. Len(t), NEW c, c = SubSeq(t, 1, l),
         NEW p \in 1 .. l, p + SeqLen(t, p) <= l + 1
  PROVE  SameChar(c, p, t, p)
<1>1. Len(c) = l /\ \A i \in 1 .. l : c[i] = t[i]
  OBVIOUS
<1>2. \A i \in 1 .. l : Byte(c, i) = Byte(t, i)
  BY <1>1 DEF Byte
<1>3. Byte(c, l + 1) = 0
  BY <1>1 DEF Byte
<1>4. p \in 1 .. Len(t)
  OBVIOUS
<1>5. PICK n \in 1 .. 4 : n = Utf8SeqLen(Byte(t, p))
  BY DEF Utf8SeqLen
<1>6. /\ SeqLen(t, p) = IF n > 1 /\ ~Utf8SeqValid(t, p, n) THEN 1 ELSE n
      /\ SeqLen(c, p) = IF n > 1 /\ ~Utf8SeqValid(c, p, n) THEN 1 ELSE n
  BY <1>2, <1>5 DEF SeqLen
<1>8. ASSUME n > 1, ~Utf8SeqValid(t, p, n) PROVE ~Utf8SeqValid(c, p, n)
  <2>1. PICK i \in 1 .. n - 1 : Byte(t, p + i) \notin 128 .. 191
    BY <1>8 DEF Utf8SeqValid
  <2>2. CASE p + i <= l
    <3>1. Byte(c, p + i) = Byte(t, p + i)
      BY <1>2, <2>2
    <3>. QED BY <2>1, <3>1 DEF Utf8SeqValid
  <2>3. CASE p + i > l
    <3>1. PICK j \in 1 .. n - 1 : p + j = l + 1
      BY <2>3
    <3>2. Byte(c, p + j) = 0 /\ 0 \notin 128 .. 191
      BY <1>3, <3>1
    <3>3. Byte(c, p + j) \notin 128 .. 191
      BY <3>2, Zenon
    <3>. QED BY <3>3 DEF Utf8SeqValid
  <2>. QED BY <2>2, <2>3
<1>9. n > 1 => (Utf8SeqValid(c, p, n) <=> Utf8SeqValid(t, p, n))
  <2>1. n > 1 /\ Utf8SeqValid(t, p, n) => Utf8SeqValid(c, p, n)
    <3>1. SUFFICES ASSUME n > 1, Utf8SeqValid(t, p, n) PROVE Utf8SeqValid(c, p, n)
      OBVIOUS
    <3>2. p + n <= l + 1
      BY <1>6, <3>1
    <3>3. \A i \in 1 .. n - 1 : Byte(c, p + i) = Byte(t, p + i)
      BY <1>2, <3>2
    <3>. QED BY <3>1, <3>3 DEF Utf8SeqValid
  <2>. QED BY <1>8, <2>1
<1>10. SeqLen(c, p) = SeqLen(t, p)
  BY <1>6, <1>9
<1>11. IsHangul(c, p) <=> IsHangul(t, p)
  <2>1. CASE SeqLen(t, p) = 3
    <3>1. p \in 1 .. l /\ p + 1 \in 1 .. l /\ p + 2 \in 1 .. l
      BY <2>1
    <3>2. Byte(c, p) = Byte(t, p) /\ Byte(c, p + 1) = Byte(t, p + 1) /\ Byte(c, p + 2) = Byte(t, p + 2)
      BY <1>2, <3>1
    <3>. QED BY <1>10, <3>2, SameBytes
  <2>2. CASE SeqLen(t, p) # 3
    BY <1>10, <2>2 DEF IsHangul
  <2>. QED BY <2>1, <2>2
<1>12. Byte(c, p) = Byte(t, p)
  BY <1>2
<1>. QED BY <1>10, <1>11, <1>12, Zenon DEF SameChar

(* So has what is cut off.                                                  *)
LEMMA RestHas ==
  ASSUME NEW t \in Seq(Chars), NEW l \in 0 .. Len(t), NEW r, r = SubSeq(t, l + 1, Len(t)),
         NEW q \in 1 .. Len(t) - l
  PROVE  SameChar(t, l + q, r, q)
<1>1. Len(r) = Len(t) - l /\ \A i \in 1 .. Len(t) - l : r[i] = t[l + i]
  OBVIOUS
<1>2. \A j \in Nat \ {0} : Byte(r, j) = Byte(t, l + j)
  BY <1>1 DEF Byte
<1>3. \A i \in Nat : Byte(r, q + i) = Byte(t, (l + q) + i)
  <2>1. ASSUME NEW i \in Nat PROVE Byte(r, q + i) = Byte(t, (l + q) + i)
    <3>1. q + i \in Nat \ {0} /\ l + (q + i) = (l + q) + i
      OBVIOUS
    <3>2. Byte(r, q + i) = Byte(t, l + (q + i))
      BY <1>2, <3>1
    <3>. QED BY <3>1, <3>2
  <2>. QED BY <2>1
<1>4. Byte(r, q) = Byte(t, l + q)
  BY <1>2
<1>5. \A n : Utf8SeqValid(r, q, n) <=> Utf8SeqValid(t, l + q, n)
  <2>1. SUFFICES ASSUME NEW n PROVE Utf8SeqValid(r, q, n) <=> Utf8SeqValid(t, l + q, n)
    OBVIOUS
  <2>2. \A i \in 1 .. n - 1 : i \in Nat
    OBVIOUS
  <2>. QED BY <1>3, <2>2, Zenon DEF Utf8SeqValid
<1>6. SeqLen(r, q) = SeqLen(t, l + q)
  BY <1>4, <1>5, Zenon DEF SeqLen
<1>7. IsHangul(r, q) <=> IsHangul(t, l + q)
  <2>1. Byte(r, q + 1) = Byte(t, (l + q) + 1) /\ Byte(r, q + 2) = Byte(t, (l + q) + 2)
    BY <1>3
  <2>. QED BY <1>4, <1>6, <2>1, SameBytes
<1>. QED BY <1>4, <1>6, <1>7 DEF SameChar

(* The same character gains the same.                                        *)
LEMMA SameGains ==
  ASSUME NEW t, NEW p, NEW u, NEW q, SameChar(t, p, u, q)
  PROVE  Gains(t, p) = Gains(u, q)
BY DEF SameChar, Gains, Wide

(* The same character draws the same glyph.                                  *)
LEMMA SameMarks ==
  ASSUME NEW t, NEW p, NEW u, NEW q, SameChar(t, p, u, q), NEW s, NEW x, NEW y
  PROVE  Marks(t, s, <<p, x, y>>) = Marks(u, s, <<q, x, y>>)
BY DEF SameChar, Marks

(* A byte and a width are a place of the ruler.                              *)
LEMMA RulerPlace ==
  ASSUME NEW t, NEW p \in 1 .. Len(t) + 3, NEW wid \in Nat
  PROVE  <<p, wid>> \in Rulers(t) /\ <<p, wid>>[1] = p /\ <<p, wid>>[2] = wid
BY DEF Rulers

(* Every place of the ruler is a byte and a width.                           *)
LEMMA RulerParts ==
  ASSUME NEW t, NEW a \in Rulers(t)
  PROVE  a = <<a[1], a[2]>> /\ a[1] \in 1 .. Len(t) + 3 /\ a[2] \in Nat
BY DEF Rulers

(* A text t that is measured (meas) and drawn (f), and its first l bytes (u),  *)
(* which are drawn too (c).                                                 *)
Cutting(t, l, u, maxw, f, c, meas) ==
  /\ t \in Seq(Chars) /\ l \in 0 .. Len(t) /\ u = SubSeq(t, 1, l) /\ maxw \in Int
  /\ f \in [Pens(t) -> Results] /\ Draws(f, t, 0, 1)
  /\ c \in [Pens(u) -> Results] /\ Draws(c, u, 0, 1)
  /\ meas \in [Rulers(t) -> Measures] /\ MeasuresBy(meas, t, maxw)

(* Of a text that is cut after l bytes: the whole (f) draws from p on what  *)
(* the part before the cut (c) draws and, where that leaves the pen, what   *)
(* comes after; and the pen is left where the ruler (meas) says.               *)
CutAt(f, c, meas, l, p, wid, x, y) ==
  /\ c[<<p, x, y>>].x \in Int
  /\ f[<<p, x, y>>].boxes = c[<<p, x, y>>].boxes \o f[<<l + 1, c[<<p, x, y>>].x, y>>].boxes
  /\ p > 1 => c[<<p, x, y>>].x = x + (meas[<<p, wid>>].width + 1 - wid)

(* Where the line is full, the cut text ends and the whole one goes on.      *)
LEMMA CutEnd ==
  ASSUME NEW t, NEW l, NEW u, NEW maxw, NEW f, NEW c, NEW meas, Cutting(t, l, u, maxw, f, c, meas),
         NEW wid \in Nat, Full(t, maxw, <<l + 1, wid>>), NEW x \in Int, NEW y \in Int
  PROVE  CutAt(f, c, meas, l, l + 1, wid, x, y)
<1>0. t \in Seq(Chars) /\ l \in 0 .. Len(t) /\ 0 \in Int /\ 1 \in Int
  BY DEF Cutting
<1>1. u \in Seq(Chars) /\ Len(u) = l
  BY DEF Cutting
<1>2. PICK p \in 1 .. Len(t) + 3 : p = l + 1
  BY <1>0
<1>3. p \in Len(u) + 1 .. Len(u) + 3
  BY <1>1, <1>2
<1>4. c[<<p, x, y>>].x = x /\ c[<<p, x, y>>].boxes = << >>
  <2>1. PenStays(c, p, x, y)
    BY <1>0, <1>1, <1>3, DrawEnd DEF Cutting
  <2>. QED BY <2>1 DEF PenStays
<1>5. meas[<<p, wid>>].width = IF p = 1 THEN 0 ELSE wid - 1
  <2>1. MeasuresOut(meas, p, wid)
    BY <1>2, MeasureEnd DEF Cutting
  <2>. QED BY <2>1 DEF MeasuresOut
<1>6. PICK r \in Results : r = f[<<p, x, y>>]
  <2>1. <<p, x, y>> \in Pens(t)
    BY <1>2, PenPlace
  <2>. QED BY <2>1 DEF Cutting
<1>7. << >> \o r.boxes = r.boxes
  <2>1. r.boxes \in Seq(Boxes)
    BY <1>6 DEF Results
  <2>. QED BY <2>1, ConcatEmptySeq
<1>8. p > 1 => x + (meas[<<p, wid>>].width + 1 - wid) = x
  BY <1>5
<1>. QED BY <1>2, <1>4, <1>6, <1>7, <1>8 DEF CutAt

(* The steps from a character before the cut.                               *)
CutSteps(t, l, u, f, c, meas, p, wid, x, y, q, g) ==
  /\ p \in Int /\ wid \in Int /\ x \in Int /\ q \in Int /\ g \in Int
  /\ StepsOn(f, t, 1, p, x, y, q, g) /\ StepsOn(c, u, 1, p, x, y, q, g)
  /\ Marks(u, 1, <<p, x, y>>) = Marks(t, 1, <<p, x, y>>)
  /\ meas[<<p, wid>>] = meas[<<q, wid + g>>] /\ meas[<<q, wid + g>>].width \in Int

(* Before that both draw the same character.                                 *)
LEMMA CutStepsOn ==
  ASSUME NEW t, NEW l, NEW u, NEW maxw, NEW f, NEW c, NEW meas, Cutting(t, l, u, maxw, f, c, meas),
         NEW p \in 1 .. Len(t), NEW wid \in Nat, ~Full(t, maxw, <<p, wid>>), NEW x \in Int, NEW y \in Int,
         NEW q \in Int, q = p + SeqLen(t, p), q <= l + 1, NEW g \in Nat, g = Gains(t, p)
  PROVE  CutSteps(t, l, u, f, c, meas, p, wid, x, y, q, g)
<1>1. t \in Seq(Chars) /\ l \in 0 .. Len(t) /\ u \in Seq(Chars) /\ Len(u) = l
  BY DEF Cutting
<1>2. p \in 1 .. Len(t) + 3 /\ 0 \in Int /\ 1 \in Int
  BY <1>1
<1>3. MeasuresOn(meas, t, p, wid, q, g)
  BY <1>2, MeasureStep DEF Cutting
<1>4. q \in p + 1 .. Len(t) + 1 /\ Byte(t, p) # Newline
  BY <1>3 DEF MeasuresOn
<1>5. p \in 1 .. l /\ p \in 1 .. Len(u)
  BY <1>1, <1>4
<1>6. SameChar(u, p, t, p)
  BY <1>1, <1>5, CutHas DEF Cutting
<1>7. Gains(u, p) = g /\ q = p + SeqLen(u, p) /\ Byte(u, p) # Newline
  BY <1>4, <1>6, SameGains DEF SameChar
<1>8. Marks(u, 1, <<p, x, y>>) = Marks(t, 1, <<p, x, y>>)
  BY <1>6, SameMarks
<1>9. g = g * 1
  OBVIOUS
<1>10. g = Gains(t, p) * 1 /\ g = Gains(u, p) * 1
  BY <1>7, <1>9
<1>11. StepsOn(f, t, 1, p, x, y, q, g)
  BY <1>1, <1>2, <1>4, <1>10, DrawStep DEF Cutting
<1>12. StepsOn(c, u, 1, p, x, y, q, g)
  BY <1>1, <1>2, <1>5, <1>7, <1>10, DrawStep DEF Cutting
<1>13. meas[<<p, wid>>] = meas[<<q, wid + g>>] /\ meas[<<q, wid + g>>].width \in Int
  BY <1>3 DEF MeasuresOn, Measures
<1>. QED BY <1>1, <1>8, <1>11, <1>12, <1>13 DEF CutSteps

(* What holds of the cut behind such a step holds before it.                *)
LEMMA CutStep ==
  ASSUME NEW t, NEW l, NEW u, NEW f, NEW c, NEW meas, NEW p, NEW wid, NEW x, NEW y, NEW q, NEW g,
         CutSteps(t, l, u, f, c, meas, p, wid, x, y, q, g), CutAt(f, c, meas, l, q, wid + g, x + g, y),
         NEW rest \in Seq(Boxes), f[<<l + 1, c[<<q, x + g, y>>].x, y>>].boxes = rest, q > 1
  PROVE  CutAt(f, c, meas, l, p, wid, x, y)
<1>1. PICK m \in Seq(Boxes) : m = Marks(t, 1, <<p, x, y>>) /\ m = Marks(u, 1, <<p, x, y>>)
  BY DEF CutSteps, StepsOn
<1>2. PICK b \in Seq(Boxes) : b = c[<<q, x + g, y>>].boxes
  BY DEF CutSteps, StepsOn, Results
<1>3. PICK z \in Int : z = c[<<p, x, y>>].x /\ z = c[<<q, x + g, y>>].x
  BY DEF CutSteps, StepsOn, CutAt
<1>4. f[<<q, x + g, y>>].boxes = b \o rest
  BY <1>2 DEF CutAt
<1>5. c[<<p, x, y>>].boxes = m \o b
  BY <1>1, <1>2 DEF CutSteps, StepsOn
<1>6. f[<<p, x, y>>].boxes = m \o (b \o rest)
  BY <1>1, <1>4 DEF CutSteps, StepsOn
<1>7. m \o (b \o rest) = (m \o b) \o rest
  BY ConcatAssociative, SMTT(30)
<1>8. f[<<p, x, y>>].boxes = c[<<p, x, y>>].boxes \o f[<<l + 1, c[<<p, x, y>>].x, y>>].boxes
  BY <1>3, <1>5, <1>6, <1>7
<1>9. z = x + (meas[<<p, wid>>].width + 1 - wid)
  <2>1. PICK v \in Int : v = meas[<<q, wid + g>>].width /\ v = meas[<<p, wid>>].width
    BY DEF CutSteps
  <2>2. z = (x + g) + (v + 1 - (wid + g))
    BY <1>3, <2>1 DEF CutAt
  <2>3. x \in Int /\ wid \in Int /\ g \in Int
    BY DEF CutSteps
  <2>4. \A k \in Int : (x + g) + (k + 1 - (wid + g)) = x + (k + 1 - wid)
    BY <2>3
  <2>. QED BY <2>1, <2>2, <2>4
<1>. QED BY <1>3, <1>8, <1>9 DEF CutAt

(* What the whole text draws behind the cut is boxes.                        *)
LEMMA CutRest ==
  ASSUME NEW t, NEW l, NEW u, NEW maxw, NEW f, NEW c, NEW meas, Cutting(t, l, u, maxw, f, c, meas),
         NEW x \in Int, NEW y \in Int
  PROVE  f[<<l + 1, x, y>>].boxes \in Seq(Boxes)
<1>1. PICK k \in 1 .. Len(t) + 3 : k = l + 1
  BY DEF Cutting
<1>2. <<k, x, y>> \in Pens(t)
  BY PenPlace
<1>. QED BY <1>1, <1>2 DEF Cutting, Results

(* Wherever the ruler comes to the cut from.                                *)
LEMMA CutAnywhere ==
  ASSUME NEW t, NEW l, NEW u, NEW maxw, NEW f, NEW c, NEW meas, Cutting(t, l, u, maxw, f, c, meas),
         NEW a \in Rulers(t), a[1] <= Len(t) + 1, meas[a].len = l
  PROVE  a[1] <= l + 1 /\ \A x, y \in Int : CutAt(f, c, meas, l, a[1], a[2], x, y)
<1> DEFINE Holds(b) == b[1] <= l + 1 /\ \A x, y \in Int : CutAt(f, c, meas, l, b[1], b[2], x, y)
           T == {b \in Rulers(t) : b[1] <= Len(t) + 1 /\ meas[b].len = l => Holds(b)}
<1>0. t \in Seq(Chars) /\ l \in 0 .. Len(t) /\ maxw \in Int
  BY DEF Cutting
<1>1. ASSUME NEW b \in MeasureStop(t, maxw) PROVE b \in T
  <2>1. SUFFICES ASSUME b \in Rulers(t), Full(t, maxw, b), b[1] <= Len(t) + 1, meas[b].len = l PROVE Holds(b)
    BY DEF MeasureStop
  <2>2. PICK p \in 1 .. Len(t) + 3, wid \in Nat : p = b[1] /\ wid = b[2] /\ b = <<p, wid>>
    BY <2>1, RulerParts
  <2>3. p = l + 1
    <3>1. meas[<<p, wid>>].len = p - 1
      BY <1>0, <2>1, <2>2, MeasureEnd DEF MeasuresOut, Cutting
    <3>. QED BY <1>0, <2>1, <2>2, <3>1
  <2>4. ASSUME NEW x \in Int, NEW y \in Int PROVE CutAt(f, c, meas, l, l + 1, wid, x, y)
    <3>1. Full(t, maxw, <<l + 1, wid>>)
      BY <2>1, <2>2, <2>3
    <3>. QED BY <2>2, <3>1, CutEnd
  <2>. QED BY <1>0, <2>2, <2>3, <2>4
<1>2. ASSUME NEW b \in Rulers(t) \ MeasureStop(t, maxw), MeasureNext(t)[b] \in T PROVE b \in T
  <2>1. SUFFICES ASSUME b[1] <= Len(t) + 1, meas[b].len = l PROVE Holds(b)
    OBVIOUS
  <2>2. ~Full(t, maxw, b)
    BY DEF MeasureStop
  <2>3. PICK p \in 1 .. Len(t) + 3, wid \in Nat : p = b[1] /\ wid = b[2] /\ b = <<p, wid>>
    BY RulerParts
  <2>4. PICK q : q = p + SeqLen(t, p)
    OBVIOUS
  <2>5. PICK g \in Nat : g = Gains(t, p)
    BY GainsAre
  <2>6. ~Full(t, maxw, <<p, wid>>)
    BY <2>2, <2>3
  <2>7. p \in 1 .. Len(t) /\ q \in p + 1 .. Len(t) + 1 /\ meas[<<p, wid>>] = meas[<<q, wid + g>>]
    <3>1. MeasuresOn(meas, t, p, wid, q, g)
      BY <1>0, <2>3, <2>4, <2>5, <2>6, MeasureStep DEF Cutting
    <3>. QED BY <3>1 DEF MeasuresOn
  <2>8. MeasureNext(t)[b] = <<q, wid + g>>
    BY <2>3, <2>4, <2>5 DEF MeasureNext, RulerAfter
  <2>9. <<q, wid + g>>[1] = q /\ <<q, wid + g>>[2] = wid + g /\ <<q, wid + g>> \in T
    BY <1>2, <2>8
  <2>10. Holds(<<q, wid + g>>)
    <3>1. meas[<<q, wid + g>>].len = l
      BY <2>1, <2>3, <2>7
    <3>2. q <= Len(t) + 1
      BY <1>0, <2>7
    <3>. QED BY <2>9, <3>1, <3>2
  <2>11. q <= l + 1 /\ q \in Int /\ q > 1 /\ p <= l + 1
    <3>1. q <= l + 1
      BY <2>9, <2>10
    <3>. QED BY <1>0, <2>7, <3>1
  <2>12. ASSUME NEW x \in Int, NEW y \in Int PROVE CutAt(f, c, meas, l, p, wid, x, y)
    <3>1. CutAt(f, c, meas, l, q, wid + g, x + g, y)
      <4>1. x + g \in Int
        BY <2>5
      <4>. QED BY <2>9, <2>10, <4>1
    <3> HIDE DEF Holds, T
    <3>2. CutSteps(t, l, u, f, c, meas, p, wid, x, y, q, g)
      BY <2>3, <2>4, <2>5, <2>6, <2>7, <2>11, CutStepsOn
    <3>3. c[<<q, x + g, y>>].x \in Int
      BY <3>1 DEF CutAt
    <3>4. PICK rest \in Seq(Boxes) : f[<<l + 1, c[<<q, x + g, y>>].x, y>>].boxes = rest
      BY <3>3, CutRest
    <3>. QED BY <2>11, <3>1, <3>2, <3>4, CutStep
  <2>. QED BY <2>3, <2>11, <2>12
<1> HIDE DEF T
<1>3. Rulers(t) \subseteq T
  BY <1>0, <1>1, <1>2, MeasureIsWay, WalkEnds
<1>. QED BY <1>3 DEF T

(* The ruler stops before the end of the text or at it, and not before the  *)
(* byte it is at.                                                           *)
LEMMA LengthFits ==
  ASSUME NEW t \in Seq(Chars), NEW maxw \in Int, NEW meas, MeasuresBy(meas, t, maxw),
         NEW a \in Rulers(t), a[1] <= Len(t) + 1
  PROVE  meas[a].len \in a[1] - 1 .. Len(t)
<1> DEFINE T == {b \in Rulers(t) : b[1] <= Len(t) + 1 => meas[b].len \in b[1] - 1 .. Len(t)}
<1>1. ASSUME NEW b \in MeasureStop(t, maxw) PROVE b \in T
  <2>1. b \in Rulers(t) /\ meas[b] = Measured(b)
    BY DEF MeasureStop, MeasuresBy
  <2>2. meas[b].len = b[1] - 1 /\ b[1] \in 1 .. Len(t) + 3
    BY <2>1 DEF Measured, Rulers
  <2>. QED BY <2>1, <2>2
<1>2. ASSUME NEW b \in Rulers(t) \ MeasureStop(t, maxw), MeasureNext(t)[b] \in T PROVE b \in T
  <2>1. ~Full(t, maxw, b)
    BY DEF MeasureStop
  <2>2. PICK c \in Rulers(t) : c = RulerAfter(t, b) /\ c[1] > b[1] /\ c[1] <= Len(t) + 1
    BY <2>1, RulerGoesOn
  <2>3. meas[b] = meas[c]
    BY <2>1, <2>2 DEF MeasuresBy
  <2>4. meas[c].len \in c[1] - 1 .. Len(t)
    BY <1>2, <2>2 DEF MeasureNext
  <2>5. b[1] \in Int /\ c[1] \in Int
    BY DEF Rulers
  <2>. QED BY <2>2, <2>3, <2>4, <2>5
<1> HIDE DEF T
<1>3. Rulers(t) \subseteq T
  BY <1>1, <1>2, MeasureIsWay, WalkEnds
<1>. QED BY <1>3 DEF T

(* A width that fits, or that of one character.                             *)
Fits(width, maxw) == width <= maxw \/ width \in {5, 18}

(* A width that fits goes on to fit, and where it does not the ruler stops.  *)
LEMMA WidthFits ==
  ASSUME NEW t \in Seq(Chars), NEW maxw \in Int, maxw >= 0, NEW meas, MeasuresBy(meas, t, maxw),
         NEW a \in Rulers(t), a[1] > 1, Fits(a[2] - 1, maxw)
  PROVE  Fits(meas[a].width, maxw)
<1> DEFINE T == {b \in Rulers(t) : b[1] > 1 /\ Fits(b[2] - 1, maxw) => Fits(meas[b].width, maxw)}
<1>1. ASSUME NEW b \in MeasureStop(t, maxw) PROVE b \in T
  <2>1. b \in Rulers(t) /\ meas[b] = Measured(b) /\ b[1] \in Int
    BY DEF MeasureStop, MeasuresBy, Rulers
  <2>2. b[1] > 1 => meas[b].width = b[2] - 1
    BY <2>1 DEF Measured
  <2>. QED BY <2>1, <2>2
<1>2. ASSUME NEW b \in Rulers(t) \ MeasureStop(t, maxw), MeasureNext(t)[b] \in T PROVE b \in T
  <2>1. SUFFICES ASSUME b[1] > 1 PROVE Fits(meas[b].width, maxw)
    OBVIOUS
  <2>2. ~Full(t, maxw, b)
    BY DEF MeasureStop
  <2>3. PICK c \in Rulers(t) : c = RulerAfter(t, b) /\ c[1] > b[1] /\ c[1] <= Len(t) + 1
    BY <2>2, RulerGoesOn
  <2>4. meas[b] = meas[c]
    BY <2>2, <2>3 DEF MeasuresBy
  <2>5. b[1] \in Int /\ c[1] \in Int /\ b[2] \in Nat
    BY DEF Rulers
  <2>6. PICK g \in Nat : g = Gains(t, b[1])
    BY GainsAre
  <2>7. c[2] = b[2] + g
    BY <2>3, <2>6 DEF RulerAfter
  <2>8. c[2] - 1 <= maxw
    <3>1. ~(b[2] + g - 1 > maxw)
      BY <2>1, <2>2, <2>6 DEF Full
    <3>. QED BY <2>5, <2>6, <2>7, <3>1
  <2>9. c[1] > 1
    BY <2>1, <2>3, <2>5
  <2>10. Fits(meas[c].width, maxw)
    BY <1>2, <2>3, <2>8, <2>9 DEF MeasureNext, Fits
  <2>. QED BY <2>4, <2>10
<1> HIDE DEF T
<1>3. Rulers(t) \subseteq T
  BY <1>1, <1>2, MeasureIsWay, WalkEnds
<1>. QED BY <1>3 DEF T

-----------------------------------------------------------------------------
(* Boxes moved together.                                                    *)
LEMMA MovedTogether ==
  ASSUME NEW m \in Seq(Boxes), NEW b \in Seq(Boxes), NEW dx \in Int
  PROVE  /\ Moved(m, dx) \in Seq(Boxes) /\ Len(Moved(m, dx)) = Len(m)
         /\ Moved(m \o b, dx) = Moved(m, dx) \o Moved(b, dx)
<1>1. ASSUME NEW s \in Seq(Boxes)
      PROVE  /\ Moved(s, dx) \in Seq(Boxes) /\ Len(Moved(s, dx)) = Len(s)
             /\ \A i \in 1 .. Len(s) : Moved(s, dx)[i] = [s[i] EXCEPT !.x = @ + dx]
  <2>1. DOMAIN s = 1 .. Len(s)
    OBVIOUS
  <2>2. ASSUME NEW i \in 1 .. Len(s) PROVE [s[i] EXCEPT !.x = @ + dx] \in Boxes
    <3>1. PICK x \in Int, y \in Int, wid \in Int, k \in Int : s[i] = [x |-> x, y |-> y, w |-> wid, h |-> k]
      <4>1. s[i] \in Boxes
        BY ElementOfSeq
      <4>. QED BY <4>1 DEF Boxes
    <3>2. [s[i] EXCEPT !.x = @ + dx] = [x |-> x + dx, y |-> y, w |-> wid, h |-> k]
      BY <3>1
    <3>. QED BY <3>1, <3>2 DEF Boxes
  <2>3. Moved(s, dx) = [i \in 1 .. Len(s) |-> [s[i] EXCEPT !.x = @ + dx]]
    BY <2>1 DEF Moved
  <2>4. Moved(s, dx) \in [1 .. Len(s) -> Boxes]
    BY <2>2, <2>3
  <2>5. Moved(s, dx) \in Seq(Boxes) /\ Len(Moved(s, dx)) = Len(s)
    BY <2>4
  <2>. QED BY <2>3, <2>5
<1>2. PICK j \in Seq(Boxes) : j = m \o b
  BY ConcatProperties
<1>20. Len(j) = Len(m) + Len(b) /\ \A i \in 1 .. Len(m) + Len(b) : j[i] = IF i <= Len(m) THEN m[i] ELSE b[i - Len(m)]
  BY <1>2
<1>3. PICK mm \in Seq(Boxes) : mm = Moved(m, dx) /\ Len(mm) = Len(m)
                               /\ \A i \in 1 .. Len(m) : mm[i] = [m[i] EXCEPT !.x = @ + dx]
  BY <1>1
<1>4. PICK mb \in Seq(Boxes) : mb = Moved(b, dx) /\ Len(mb) = Len(b)
                               /\ \A i \in 1 .. Len(b) : mb[i] = [b[i] EXCEPT !.x = @ + dx]
  BY <1>1
<1>5. PICK mj \in Seq(Boxes) : mj = Moved(j, dx) /\ Len(mj) = Len(j)
                               /\ \A i \in 1 .. Len(j) : mj[i] = [j[i] EXCEPT !.x = @ + dx]
  BY <1>1
<1>6. PICK k \in Seq(Boxes) : k = mm \o mb
  BY ConcatProperties
<1>60. Len(k) = Len(mm) + Len(mb) /\ \A i \in 1 .. Len(mm) + Len(mb) : k[i] = IF i <= Len(mm) THEN mm[i] ELSE mb[i - Len(mm)]
  BY <1>6
<1>70. PICK n \in Nat : n = Len(m)
  OBVIOUS
<1>71. PICK e \in Nat : e = Len(b)
  OBVIOUS
<1>7. /\ n = Len(m) /\ n = Len(mm) /\ e = Len(b) /\ e = Len(mb)
      /\ n + e = Len(j) /\ n + e = Len(mj) /\ n + e = Len(k)
  BY <1>70, <1>71, <1>20, <1>3, <1>4, <1>5, <1>60
<1>8. ASSUME NEW i \in 1 .. Len(mj) PROVE mj[i] = k[i]
  <2>0. i \in 1 .. n + e /\ i \in 1 .. Len(j) /\ mj[i] = [j[i] EXCEPT !.x = @ + dx]
    BY <1>5, <1>7
  <2>1. CASE i <= n
    <3>1. i \in 1 .. n /\ j[i] = m[i] /\ k[i] = mm[i]
      BY <1>7, <1>20, <1>60, <2>0, <2>1
    <3>2. mm[i] = [m[i] EXCEPT !.x = @ + dx]
      BY <1>3, <1>7, <3>1
    <3>. QED BY <2>0, <3>1, <3>2
  <2>2. CASE i > n
    <3>1. PICK d : d = i - n
      OBVIOUS
    <3>2. d \in 1 .. e /\ j[i] = b[d] /\ k[i] = mb[d]
      BY <1>7, <1>20, <1>60, <2>0, <2>2, <3>1
    <3>3. mb[d] = [b[d] EXCEPT !.x = @ + dx]
      BY <1>4, <1>7, <3>2
    <3>. QED BY <2>0, <3>2, <3>3
  <2>. QED BY <1>7, <2>0, <2>1, <2>2
<1>9. mj = k
  BY <1>7, <1>8, SeqEqual
<1>. QED BY <1>1, <1>2, <1>3, <1>4, <1>5, <1>6, <1>9

(* No boxes, moved, are none.                                                *)
LEMMA MovedNone == \A dx : Moved(<< >>, dx) = << >>
BY DEF Moved

(* A glyph drawn dx further.                                                *)
LEMMA MarksMove ==
  ASSUME NEW t, NEW p, NEW r, NEW q, SameChar(t, p, r, q), NEW s \in Int,
         NEW x \in Int, NEW y \in Int, NEW dx \in Int, NEW z, z = dx + x
  PROVE  Marks(t, s, <<p, z, y>>) = Moved(Marks(r, s, <<q, x, y>>), dx)
<1>1. ASSUME NEW wid, NEW k
      PROVE  Moved(<<[x |-> x, y |-> y, w |-> wid, h |-> k]>>, dx) = <<[x |-> z, y |-> y, w |-> wid, h |-> k]>>
  <2>1. PICK b : b = [x |-> x, y |-> y, w |-> wid, h |-> k]
    OBVIOUS
  <2>2. Moved(<<b>>, dx) = <<[b EXCEPT !.x = @ + dx]>>
    BY DEF Moved
  <2>3. [b EXCEPT !.x = @ + dx] = [x |-> z, y |-> y, w |-> wid, h |-> k]
    BY <2>1
  <2>. QED BY <2>1, <2>2, <2>3
<1>. QED BY <1>1, MovedNone DEF SameChar, Marks

(* A text t of one line that is drawn (f), and what is left of it behind l  *)
(* bytes (r), which is drawn too (e).                                       *)
Resting(t, l, r, f, e) ==
  /\ t \in Seq(Chars) /\ OneLine(t) /\ l \in 0 .. Len(t) /\ r = SubSeq(t, l + 1, Len(t))
  /\ f \in [Pens(t) -> Results] /\ Draws(f, t, 0, 1)
  /\ e \in [Pens(r) -> Results] /\ Draws(e, r, 0, 1)

(* What is left of a text is a text.                                         *)
LEMMA RestIs ==
  ASSUME NEW t, NEW l, NEW r, NEW f, NEW e, Resting(t, l, r, f, e)
  PROVE  /\ t \in Seq(Chars) /\ l \in 0 .. Len(t) /\ r \in Seq(Chars) /\ Len(r) = Len(t) - l
         /\ 0 \in Int /\ 1 \in Int
BY DEF Resting

(* The steps from a character behind the cut.                               *)
RestSteps(t, l, r, f, e, p, q, x, y, dx, k, g) ==
  /\ k \in q + 1 .. Len(r) + 1 /\ g \in Nat
  /\ StepsOn(e, r, 1, q, x, y, k, g) /\ StepsOn(f, t, 1, p, dx + x, y, l + k, g)
  /\ Marks(t, 1, <<p, dx + x, y>>) = Moved(Marks(r, 1, <<q, x, y>>), dx)
  /\ PenAfter(r, 0, 1, <<q, x, y>>) = <<k, x + g, y>>

(* Both draw the same character.                                             *)
LEMMA RestStepsOn ==
  ASSUME NEW t, NEW l, NEW r, NEW f, NEW e, Resting(t, l, r, f, e),
         NEW q \in 1 .. Len(r), NEW x \in Int, NEW y \in Int, NEW dx \in Int, NEW p \in Int, p = l + q
  PROVE  RestSteps(t, l, r, f, e, p, q, x, y, dx, q + SeqLen(r, q), Gains(r, q))
<1>1. t \in Seq(Chars) /\ l \in 0 .. Len(t) /\ r \in Seq(Chars) /\ Len(r) = Len(t) - l /\ 0 \in Int /\ 1 \in Int
  BY RestIs
<1>2. q \in 1 .. Len(t) - l /\ p \in 1 .. Len(t)
  BY <1>1
<1>3. SameChar(t, p, r, q)
  BY <1>1, <1>2, RestHas DEF Resting
<1>4. Byte(t, p) # Newline /\ Byte(r, q) # Newline
  <2>1. Byte(t, p) = t[p] /\ p \in DOMAIN t
    BY <1>1, <1>2 DEF Byte
  <2>2. Byte(t, p) # Newline
    BY <2>1 DEF Resting, OneLine
  <2>. QED BY <1>3, <2>2 DEF SameChar
<1>5. PICK g \in Nat : g = Gains(r, q) /\ g = Gains(t, p)
  BY <1>3, GainsAre, SameGains
<1>6. PICK n \in 1 .. 4 : n = SeqLen(r, q) /\ n = SeqLen(t, p) /\ q + n <= Len(r) + 1
  BY <1>1, <1>3, SeqLenFits DEF SameChar
<1>7. PICK z \in Int : z = dx + x
  OBVIOUS
<1>8. PICK k \in Int : k = q + SeqLen(r, q)
  BY <1>6
<1>9. l + k = p + SeqLen(t, p) /\ k \in q + 1 .. Len(r) + 1
  <2>1. k = q + n
    BY <1>6, <1>8
  <2>2. l \in Int /\ Len(r) \in Int
    BY <1>1
  <2>3. \A i \in Int : l + (q + i) = (l + q) + i
    BY <2>2
  <2>4. l + k = p + n
    BY <1>6, <2>1, <2>3
  <2>. QED BY <1>6, <2>1, <2>2, <2>4
<1>10. g = g * 1
  OBVIOUS
<1>11. StepsOn(e, r, 1, q, x, y, k, g)
  BY <1>1, <1>4, <1>5, <1>8, <1>10, DrawStep DEF Resting
<1>12. StepsOn(f, t, 1, p, z, y, l + k, g)
  <2>1. PICK j : j = l + k
    OBVIOUS
  <2>2. StepsOn(f, t, 1, p, z, y, j, g)
    BY <1>1, <1>2, <1>4, <1>5, <1>7, <1>9, <1>10, <2>1, DrawStep DEF Resting
  <2>. QED BY <2>1, <2>2
<1>13. Marks(t, 1, <<p, z, y>>) = Moved(Marks(r, 1, <<q, x, y>>), dx)
  BY <1>1, <1>3, <1>7, MarksMove
<1>14. PenAfter(r, 0, 1, <<q, x, y>>) = <<k, x + g, y>>
  BY <1>4, <1>5, <1>8, <1>10 DEF PenAfter
<1>. QED BY <1>5, <1>7, <1>8, <1>9, <1>11, <1>12, <1>13, <1>14 DEF RestSteps

(* What is left draws at q what the text draws l bytes and dx columns further on. *)
RestAt(f, e, l, dx, q, x, y) == f[<<l + q, dx + x, y>>].boxes = Moved(e[<<q, x, y>>].boxes, dx)

(* It does so before a character if it does so behind it.                    *)
LEMMA RestStep ==
  ASSUME NEW t, NEW l \in Int, NEW r, NEW f, NEW e, NEW q, NEW x \in Int, NEW y, NEW dx \in Int, NEW k, NEW g,
         RestSteps(t, l, r, f, e, l + q, q, x, y, dx, k, g), RestAt(f, e, l, dx, k, x + g, y)
  PROVE  RestAt(f, e, l, dx, q, x, y)
<1>1. PICK m \in Seq(Boxes) : m = Marks(r, 1, <<q, x, y>>)
  BY DEF RestSteps, StepsOn
<1>2. PICK b \in Seq(Boxes) : b = e[<<k, x + g, y>>].boxes
  BY DEF RestSteps, StepsOn, Results
<1>3. e[<<q, x, y>>].boxes = m \o b
  BY <1>1, <1>2 DEF RestSteps, StepsOn
<1>4. dx + (x + g) = (dx + x) + g
  <2>1. g \in Int
    BY DEF RestSteps
  <2>. QED BY <2>1
<1>5. f[<<l + k, (dx + x) + g, y>>].boxes = Moved(b, dx)
  BY <1>2, <1>4 DEF RestAt
<1>6. f[<<l + q, dx + x, y>>].boxes = Moved(m, dx) \o Moved(b, dx)
  BY <1>1, <1>5 DEF RestSteps, StepsOn
<1>7. Moved(m \o b, dx) = Moved(m, dx) \o Moved(b, dx)
  BY MovedTogether
<1>. QED BY <1>3, <1>6, <1>7 DEF RestAt

(* What is left of a text draws, dx further, what the text draws there.     *)
LEMMA RestDrawn ==
  ASSUME NEW t, NEW l, NEW r, NEW f, NEW e, Resting(t, l, r, f, e), NEW dx \in Int,
         NEW a \in Pens(r), a[1] <= Len(r) + 1
  PROVE  RestAt(f, e, l, dx, a[1], a[2], a[3])
<1> DEFINE T == {b \in Pens(r) : b[1] <= Len(r) + 1 => RestAt(f, e, l, dx, b[1], b[2], b[3])}
<1>0. t \in Seq(Chars) /\ l \in 0 .. Len(t) /\ r \in Seq(Chars) /\ Len(r) = Len(t) - l /\ 0 \in Int /\ 1 \in Int
  BY RestIs
<1>1. ASSUME NEW b \in DrawStop(r) PROVE b \in T
  <2>1. SUFFICES ASSUME b[1] <= Len(r) + 1 PROVE RestAt(f, e, l, dx, b[1], b[2], b[3])
    BY DEF DrawStop
  <2>2. PICK q \in Len(r) + 1 .. Len(r) + 3, x \in Int, y \in Int : b = <<q, x, y>> /\ q = Len(r) + 1
    BY <1>0, <2>1, PenParts DEF DrawStop
  <2>3. b[1] = q /\ b[2] = x /\ b[3] = y
    BY <2>2
  <2>4. e[<<q, x, y>>].boxes = << >>
    <3>1. PenStays(e, q, x, y)
      BY <1>0, <2>2, DrawEnd DEF Resting
    <3>. QED BY <3>1 DEF PenStays
  <2>5. f[<<l + q, dx + x, y>>].boxes = << >>
    <3>1. PICK p \in Len(t) + 1 .. Len(t) + 3 : p = l + q
      BY <1>0, <2>2
    <3>2. PICK z \in Int : z = dx + x
      BY <2>2
    <3>3. PenStays(f, p, z, y)
      BY <1>0, <2>2, <3>1, <3>2, DrawEnd DEF Resting
    <3>. QED BY <3>1, <3>2, <3>3 DEF PenStays
  <2>. QED BY <2>3, <2>4, <2>5, MovedNone DEF RestAt
<1>2. ASSUME NEW b \in Pens(r) \ DrawStop(r), DrawNext(r, 0, 1)[b] \in T PROVE b \in T
  <2>1. PICK q \in 1 .. Len(r), x \in Int, y \in Int : b = <<q, x, y>>
    <3>1. b[1] \in 1 .. Len(r)
      BY <1>0, PenParts DEF DrawStop
    <3>. QED BY <3>1, PenParts
  <2>2. b[1] = q /\ b[2] = x /\ b[3] = y
    BY <2>1
  <2>3. PICK k : k = q + SeqLen(r, q)
    OBVIOUS
  <2>4. PICK g : g = Gains(r, q)
    OBVIOUS
  <2>5. RestSteps(t, l, r, f, e, l + q, q, x, y, dx, k, g)
    <3>1. PICK p \in Int : p = l + q
      BY <1>0, <2>1
    <3>. QED BY <2>1, <2>3, <2>4, <3>1, RestStepsOn
  <2>6. DrawNext(r, 0, 1)[b] = <<k, x + g, y>> /\ k <= Len(r) + 1
    BY <1>0, <2>1, <2>5 DEF DrawNext, RestSteps
  <2>7. RestAt(f, e, l, dx, k, x + g, y)
    BY <1>2, <2>6
  <2>8. RestAt(f, e, l, dx, q, x, y)
    <3>1. l \in Int
      BY <1>0
    <3>. QED BY <2>1, <2>5, <2>7, <3>1, RestStep, Zenon
  <2>. QED BY <2>2, <2>8
<1> HIDE DEF T
<1>3. Pens(r) \subseteq T
  <2>1. PICK x0 \in Int, s \in Int : x0 = 0 /\ s = 1
    BY <1>0
  <2>2. IsWay(Pens(r), DrawStop(r), DrawLeft(r), DrawNext(r, x0, s))
    BY <1>0, <2>1, DrawIsWay
  <2>3. ASSUME NEW b \in Pens(r) \ DrawStop(r), DrawNext(r, x0, s)[b] \in T PROVE b \in T
    BY <1>2, <2>1, <2>3
  <2>. QED BY <1>1, <2>2, <2>3, WalkEnds
<1>. QED BY <1>3 DEF T

(* The pen is left a gap behind the last character, if there is one.        *)
EndsAt(c, meas, l) == c[<<1, 0, 0>>].x = meas[<<1, 0>>].width + (IF l = 0 THEN 0 ELSE 1)

(* The pen of the cut text ends behind its last character.                   *)
LEMMA CutEndsAt ==
  ASSUME NEW t, NEW l, NEW u, NEW maxw, NEW f, NEW c, NEW meas, Cutting(t, l, u, maxw, f, c, meas),
         meas[<<1, 0>>].len = l
  PROVE  EndsAt(c, meas, l)
<1>0. t \in Seq(Chars) /\ l \in 0 .. Len(t) /\ u \in Seq(Chars) /\ Len(u) = l /\ maxw \in Int
  BY DEF Cutting
<1>1. 1 \in 1 .. Len(t) + 3 /\ 0 \in Nat /\ 0 \in Int /\ 1 \in Int
  BY <1>0
<1>2. CASE Full(t, maxw, <<1, 0>>)
  <2>1. MeasuresOut(meas, 1, 0)
    BY <1>0, <1>1, <1>2, MeasureEnd DEF Cutting
  <2>2. meas[<<1, 0>>].width = 0 /\ l = 0
    BY <2>1 DEF MeasuresOut
  <2>3. PenStays(c, 1, 0, 0)
    <3>1. 1 \in Len(u) + 1 .. Len(u) + 3
      BY <1>0, <2>2
    <3>. QED BY <1>0, <1>1, <3>1, DrawEnd DEF Cutting
  <2>. QED BY <2>2, <2>3 DEF PenStays, EndsAt
<1>3. CASE ~Full(t, maxw, <<1, 0>>)
  <2>1. PICK q : q = 1 + SeqLen(t, 1)
    OBVIOUS
  <2>2. PICK g \in Nat : g = Gains(t, 1)
    BY GainsAre
  <2>3. MeasuresOn(meas, t, 1, 0, q, g)
    BY <1>0, <1>1, <1>3, <2>1, <2>2, MeasureStep DEF Cutting
  <2>4. q \in 2 .. Len(t) + 1 /\ meas[<<1, 0>>] = meas[<<q, 0 + g>>] /\ 1 \in 1 .. Len(t)
    BY <2>3 DEF MeasuresOn
  <2>5. PICK a \in Rulers(t) : a = <<q, 0 + g>> /\ a[1] = q /\ a[2] = 0 + g
    BY <1>0, <2>2, <2>4 DEF Rulers
  <2>6. a[1] <= Len(t) + 1 /\ meas[a].len = l
    BY <1>0, <2>4, <2>5
  <2>7. q <= l + 1 /\ \A x, y \in Int : CutAt(f, c, meas, l, q, 0 + g, x, y)
    BY <2>5, <2>6, CutAnywhere
  <2>8. CutAt(f, c, meas, l, q, 0 + g, 0 + g, 0)
    <3>1. 0 + g \in Int
      BY <2>2
    <3>. QED BY <1>1, <2>7, <3>1
  <2>9. CutSteps(t, l, u, f, c, meas, 1, 0, 0, 0, q, g)
    BY <1>1, <1>3, <2>1, <2>2, <2>4, <2>7, CutStepsOn
  <2>10. c[<<1, 0, 0>>].x = c[<<q, 0 + g, 0>>].x
    BY <2>9 DEF CutSteps, StepsOn
  <2>11. c[<<q, 0 + g, 0>>].x = 0 + g + (meas[<<q, 0 + g>>].width + 1 - (0 + g))
    BY <2>4, <2>8 DEF CutAt
  <2>12. meas[<<q, 0 + g>>].width \in Int
    BY <2>9 DEF CutSteps
  <2>13. \A k \in Int : 0 + g + (k + 1 - (0 + g)) = k + 1
    BY <2>2
  <2>14. l # 0
    BY <1>0, <2>4, <2>7
  <2>. QED BY <2>4, <2>10, <2>11, <2>12, <2>13, <2>14 DEF EndsAt
<1>. QED BY <1>2, <1>3

(* A text drawn at the origin, at scale 1.                                  *)
LEMMA DrawIsFlat ==
  ASSUME NEW t \in Seq(Chars)
  PROVE  \E f : f \in [Pens(t) -> Results] /\ Draws(f, t, 0, 1) /\ Draw(t, 0, 0, 1) = f[<<1, 0, 0>>]
<1>1. PICK zero \in Int, one \in Int : zero = 0 /\ one = 1 /\ one = IF one < 1 THEN 1 ELSE one
  OBVIOUS
<1>2. \E f \in [Pens(t) -> Results] : Draws(f, t, zero, one) /\ Draw(t, zero, zero, one) = f[<<1, zero, zero>>]
  BY <1>1, DrawIs
<1>. QED BY <1>1, <1>2

(* What is said of a text t cut after u where fit was measured.               *)
CutIsMeasured(t, maxw, fit, u, r) ==
  /\ Draw(u, 0, 0, 1).x = fit.width + (IF fit.len = 0 THEN 0 ELSE 1)
  /\ maxw >= 0 => Fits(fit.width, maxw)
  /\ OneLine(t) => Draw(t, 0, 0, 1).boxes =
                     Draw(u, 0, 0, 1).boxes \o Moved(Draw(r, 0, 0, 1).boxes, Draw(u, 0, 0, 1).x)

(* A text cut where it was measured to fit.                                 *)
LEMMA CutDrawn ==
  ASSUME NEW t \in Seq(Chars), NEW maxw \in Int, NEW fit, fit = Measure(t, maxw),
         NEW u, u = SubSeq(t, 1, fit.len), NEW r, r = SubSeq(t, fit.len + 1, Len(t))
  PROVE  CutIsMeasured(t, maxw, fit, u, r)
<1>1. PICK meas \in [Rulers(t) -> Measures] : MeasuresBy(meas, t, maxw) /\ fit = meas[<<1, 0>>]
  BY MeasureIs
<1>2. PICK a \in Rulers(t) : a = <<1, 0>> /\ a[1] = 1 /\ a[2] = 0 /\ a[1] <= Len(t) + 1
  <2>1. PICK p \in 1 .. Len(t) + 3 : p = 1
    OBVIOUS
  <2>2. PICK wid \in Nat : wid = 0
    OBVIOUS
  <2>3. <<p, wid>> \in Rulers(t) /\ <<p, wid>>[1] = p /\ <<p, wid>>[2] = wid
    BY RulerPlace
  <2>4. 1 <= Len(t) + 1
    OBVIOUS
  <2>. QED BY <2>1, <2>2, <2>3, <2>4
<1>3. PICK l \in 0 .. Len(t) : l = fit.len
  <2>1. meas[a].len \in a[1] - 1 .. Len(t)
    BY <1>1, <1>2, LengthFits
  <2>. QED BY <1>1, <1>2, <2>1
<1>4. u \in Seq(Chars) /\ r \in Seq(Chars)
  BY <1>3
<1>6. PICK f : f \in [Pens(t) -> Results] /\ Draws(f, t, 0, 1) /\ Draw(t, 0, 0, 1) = f[<<1, 0, 0>>]
  BY DrawIsFlat, Zenon
<1>7. PICK c : c \in [Pens(u) -> Results] /\ Draws(c, u, 0, 1) /\ Draw(u, 0, 0, 1) = c[<<1, 0, 0>>]
  BY <1>4, DrawIsFlat, Zenon
<1>8. PICK e : e \in [Pens(r) -> Results] /\ Draws(e, r, 0, 1) /\ Draw(r, 0, 0, 1) = e[<<1, 0, 0>>]
  BY <1>4, DrawIsFlat, Zenon
<1>9. Cutting(t, l, u, maxw, f, c, meas)
  BY <1>1, <1>3, <1>6, <1>7 DEF Cutting
<1>10. meas[<<1, 0>>].len = l
  BY <1>1, <1>3
<1>11. Draw(u, 0, 0, 1).x = fit.width + (IF fit.len = 0 THEN 0 ELSE 1)
  <2>1. EndsAt(c, meas, l)
    BY <1>9, <1>10, CutEndsAt, Zenon
  <2>. QED BY <1>1, <1>3, <1>7, <2>1 DEF EndsAt
<1>12. ASSUME maxw >= 0 PROVE Fits(fit.width, maxw)
  <2>1. CASE Full(t, maxw, a)
    <3>1. meas[a] = Measured(a)
      BY <1>1, <2>1 DEF MeasuresBy
    <3>. QED BY <1>1, <1>2, <1>12, <3>1 DEF Measured, Fits
  <2>2. CASE ~Full(t, maxw, a)
    <3>1. PICK b \in Rulers(t) : b = RulerAfter(t, a) /\ b[1] > a[1]
      BY <2>2, RulerGoesOn
    <3>2. meas[a] = meas[b]
      BY <2>2, <3>1, <1>1 DEF MeasuresBy
    <3>3. b[2] = 0 + Gains(t, 1) /\ b[1] > 1
      BY <1>2, <3>1 DEF RulerAfter
    <3>4. Fits(b[2] - 1, maxw)
      BY <3>3, GainsAre DEF Fits
    <3>5. Fits(meas[b].width, maxw)
      BY <1>1, <1>12, <3>3, <3>4, WidthFits
    <3>. QED BY <1>1, <1>2, <3>2, <3>5
  <2>. QED BY <2>1, <2>2
<1>13. ASSUME OneLine(t)
       PROVE  Draw(t, 0, 0, 1).boxes =
                Draw(u, 0, 0, 1).boxes \o Moved(Draw(r, 0, 0, 1).boxes, Draw(u, 0, 0, 1).x)
  <2>1. \A x, y \in Int : CutAt(f, c, meas, l, 1, 0, x, y)
    <3>1. meas[a].len = l
      BY <1>2, <1>10
    <3>2. \A x, y \in Int : CutAt(f, c, meas, l, a[1], a[2], x, y)
      BY <1>2, <1>9, <3>1, CutAnywhere
    <3>. QED BY <1>2, <3>2
  <2>2. CutAt(f, c, meas, l, 1, 0, 0, 0)
    <3>1. 0 \in Int
      OBVIOUS
    <3>. QED BY <2>1, <3>1
  <2>3. PICK dx \in Int : dx = c[<<1, 0, 0>>].x
    BY <2>2 DEF CutAt
  <2>4. f[<<1, 0, 0>>].boxes = c[<<1, 0, 0>>].boxes \o f[<<l + 1, dx, 0>>].boxes
    BY <2>2, <2>3 DEF CutAt
  <2>5. Resting(t, l, r, f, e)
    BY <1>3, <1>6, <1>8, <1>13 DEF Resting
  <2>6. PICK b \in Pens(r) : b = <<1, 0, 0>> /\ b[1] = 1 /\ b[2] = 0 /\ b[3] = 0 /\ b[1] <= Len(r) + 1
    <3>1. PICK p \in 1 .. Len(r) + 3 : p = 1
      BY <1>4
    <3>2. PICK z \in Int : z = 0
      OBVIOUS
    <3>3. <<p, z, z>> \in Pens(r) /\ <<p, z, z>>[1] = p /\ <<p, z, z>>[2] = z /\ <<p, z, z>>[3] = z
      BY PenPlace
    <3>4. 1 <= Len(r) + 1
      BY <1>4
    <3>. QED BY <3>1, <3>2, <3>3, <3>4
  <2>7. RestAt(f, e, l, dx, b[1], b[2], b[3])
    BY <2>3, <2>5, <2>6, RestDrawn
  <2>8. f[<<l + 1, dx + 0, 0>>].boxes = Moved(e[<<1, 0, 0>>].boxes, dx)
    BY <2>6, <2>7 DEF RestAt
  <2>9. dx + 0 = dx
    BY <2>3
  <2>. QED BY <1>6, <1>7, <1>8, <2>3, <2>4, <2>8, <2>9
<1>. QED BY <1>11, <1>12, <1>13 DEF CutIsMeasured

(* The rows of text on a card from row y on: likes, user, the lines of its  *)
(* caption, comments.                                                       *)
RowAt(y, lines, i) ==
  IF i = 1 THEN Row(y, 7) ELSE IF i <= 2 + lines THEN Row(y + 9 + 19 * (i - 2), 18) ELSE Row(y + 28 + 19 * lines, 7)

(* Those are the rows of a card whose caption shows v lines.                 *)
LEMMA RowsAre ==
  ASSUME NEW y \in Int, NEW c, NEW cw, NEW comments \in BOOLEAN, NEW expanded,
         NEW v \in Nat, v = VisibleLines(Len(WrapCaption(c, cw)), expanded),
         NEW n \in Nat, n = 2 + v + (IF comments THEN 1 ELSE 0)
  PROVE  CaptionRows(y, c, cw, comments, expanded) = [i \in 1 .. n |-> RowAt(y, v, i)]
<1> DEFINE upper == <<Row(y, 7), Row(y + 9, 18)>>
           lower == [i \in 1 .. v |-> Row(y + 28 + (i - 1) * 19, 18)]
           last == IF comments THEN <<Row(y + 28 + v * 19, 7)>> ELSE << >>
           Rowed == [y : Int, h : Int]
<1>1. y + 8 + 1 = y + 9 /\ y + 9 + 19 = y + 28
  OBVIOUS
<1>2. CaptionRows(y, c, cw, comments, expanded) = (upper \o lower) \o last
  BY <1>1 DEF CaptionRows, FontLine, FontWideLine, LatinHeight, HangulHeight
<1>3. upper \in Seq(Rowed) /\ Len(upper) = 2 /\ upper[1] = Row(y, 7) /\ upper[2] = Row(y + 9, 18)
  <2>1. Row(y, 7) \in Rowed /\ Row(y + 9, 18) \in Rowed
    BY DEF Row
  <2>. QED BY <2>1
<1>4. lower \in Seq(Rowed) /\ Len(lower) = v /\ \A i \in 1 .. v : lower[i] = Row(y + 28 + (i - 1) * 19, 18)
  <2>1. ASSUME NEW i \in 1 .. v PROVE Row(y + 28 + (i - 1) * 19, 18) \in Rowed
    BY DEF Row
  <2>2. lower \in [1 .. v -> Rowed]
    BY <2>1
  <2>3. \A i \in 1 .. v : lower[i] = Row(y + 28 + (i - 1) * 19, 18)
    OBVIOUS
  <2> HIDE DEF lower, Rowed
  <2>4. lower \in Seq(Rowed) /\ Len(lower) = v
    BY <2>2
  <2>. QED BY <2>3, <2>4
<1>5. /\ last \in Seq(Rowed) /\ Len(last) = (IF comments THEN 1 ELSE 0)
      /\ comments => last[1] = Row(y + 28 + v * 19, 7)
  <2>1. Row(y + 28 + v * 19, 7) \in Rowed
    BY DEF Row
  <2>2. CASE comments
    BY <2>1, <2>2
  <2>3. CASE ~comments
    BY <2>3
  <2>. QED BY <2>2, <2>3
<1> HIDE DEF upper, lower, last, Rowed
<1>6. PICK m \in Seq(Rowed) : m = upper \o lower
  BY <1>3, <1>4, ConcatProperties
<1>7. Len(m) = 2 + v /\ \A i \in 1 .. 2 + v : m[i] = IF i <= 2 THEN upper[i] ELSE lower[i - 2]
  <2>1. Len(m) = Len(upper) + Len(lower)
        /\ \A i \in 1 .. Len(upper) + Len(lower) : m[i] = IF i <= Len(upper) THEN upper[i] ELSE lower[i - Len(upper)]
    BY <1>3, <1>4, <1>6, ConcatProperties
  <2>. QED BY <1>3, <1>4, <2>1
<1>8. PICK r \in Seq(Rowed) : r = m \o last
  BY <1>5, <1>6, ConcatProperties
<1>9. Len(r) = n /\ \A i \in 1 .. n : r[i] = IF i <= 2 + v THEN m[i] ELSE last[i - (2 + v)]
  <2>1. Len(r) = Len(m) + Len(last)
        /\ \A i \in 1 .. Len(m) + Len(last) : r[i] = IF i <= Len(m) THEN m[i] ELSE last[i - Len(m)]
    <3>1. last \in Seq(Rowed) /\ m \in Seq(Rowed)
      BY <1>5, <1>6
    <3>. QED BY <1>8, <3>1, ConcatProperties
  <2>2. Len(m) + Len(last) = n
    BY <1>5, <1>7
  <2>. QED BY <1>7, <2>1, <2>2
<1>10. ASSUME NEW i \in 1 .. n PROVE r[i] = RowAt(y, v, i)
  <2>1. CASE i = 1
    <3>1. i <= 2 + v /\ i <= 2 /\ i \in 1 .. 2 + v
      BY <2>1
    <3>. QED BY <1>3, <1>7, <1>9, <2>1, <3>1 DEF RowAt
  <2>2. CASE i = 2
    <3>1. i <= 2 + v /\ i <= 2 /\ i # 1 /\ i \in 1 .. 2 + v /\ y + 9 + 19 * (i - 2) = y + 9
      BY <2>2
    <3>. QED BY <1>3, <1>7, <1>9, <2>2, <3>1 DEF RowAt
  <2>3. CASE i > 2 /\ i <= 2 + v
    <3>1. PICK j \in 1 .. v : j = i - 2
      BY <2>3
    <3>2. y + 28 + (j - 1) * 19 = y + 9 + 19 * (i - 2)
      BY <3>1
    <3>3. ~(i <= 2) /\ i # 1 /\ i \in 1 .. 2 + v
      BY <2>3
    <3>. QED BY <1>4, <1>7, <1>9, <2>3, <3>1, <3>2, <3>3 DEF RowAt
  <2>4. CASE i > 2 + v
    <3>1. comments /\ i - (2 + v) = 1 /\ i # 1 /\ ~(i <= 2 + v)
      BY <2>4
    <3>2. y + 28 + v * 19 = y + 28 + 19 * v
      OBVIOUS
    <3>. QED BY <1>5, <1>9, <3>1, <3>2 DEF RowAt
  <2>. QED BY <2>1, <2>2, <2>3, <2>4
<1>11. r = [i \in 1 .. n |-> r[i]]
  <2>1. DOMAIN r = 1 .. n
    BY <1>8, <1>9, LenProperties
  <2>2. r = [i \in DOMAIN r |-> r[i]]
    <3>1. r \in [1 .. Len(r) -> Rowed]
      BY <1>8, LenProperties
    <3>. QED BY <3>1
  <2>. QED BY <2>1, <2>2, Zenon
<1>. QED BY <1>2, <1>6, <1>8, <1>10, <1>11

(* Its place and its height.                                                *)
RowIs(r, y, v, i) ==
  /\ r.y = IF i = 1 THEN y ELSE IF i <= 2 + v THEN y + 9 + 19 * (i - 2) ELSE y + 28 + 19 * v
  /\ r.h = IF i = 1 THEN 7 ELSE IF i <= 2 + v THEN 18 ELSE 7

(* Where they begin, and how high they are.                                  *)
LEMMA RowAtIs ==
  ASSUME NEW y \in Int, NEW v \in Nat, NEW i \in Nat \ {0}, NEW r, r = RowAt(y, v, i)
  PROVE  RowIs(r, y, v, i)
<1>1. CASE i = 1
  BY <1>1 DEF RowAt, Row, RowIs
<1>2. CASE i # 1 /\ i <= 2 + v
  BY <1>2 DEF RowAt, Row, RowIs
<1>3. CASE i # 1 /\ ~(i <= 2 + v)
  BY <1>3 DEF RowAt, Row, RowIs
<1>. QED BY <1>1, <1>2, <1>3

(* The lines that a card shows are counted.                                 *)
LEMMA LinesCounted ==
  ASSUME NEW c \in CardCaptions, NEW wid, NEW expanded
  PROVE  LinesShown(wid, c, expanded) \in Nat
<1>1. c \in Seq(Glyphs)
  <2>1. PICK g1 \in Glyphs, g2 \in Glyphs, g3 \in Glyphs, g4 \in Glyphs :
          g1 = "latin" /\ g2 = "hangul" /\ g3 = "break" /\ g4 = "other"
    BY DEF Glyphs, Adv
  <2>2. << >> \in Seq(Glyphs) /\ <<g1>> \in Seq(Glyphs)
    OBVIOUS
  <2>3. <<g2, g3, g1, g3, g4, g3, g1>> \in Seq(Glyphs)
    OBVIOUS
  <2>4. ASSUME NEW n \in Nat PROVE [i \in 1 .. n |-> g2] \in Seq(Glyphs)
    OBVIOUS
  <2>5. CASE \E n \in {7, 30} : c = [i \in 1 .. n |-> "hangul"]
    BY <2>1, <2>4, <2>5
  <2>6. CASE c = << >> \/ c = <<"latin">>
    BY <2>1, <2>2, <2>6
  <2>7. CASE c = <<"hangul", "break", "latin", "break", "other", "break", "latin">>
    BY <2>1, <2>3, <2>7
  <2>. QED BY <2>5, <2>6, <2>7 DEF CardCaptions
<1>2. PICK total \in Nat : total = Len(WrapCaption(c, wid - 2 * PostPad))
  BY <1>1, CaptionAssumption, WrapIsLines
<1>3. VisibleLines(total, expanded) \in Nat
  BY CaptionAssumption DEF VisibleLines
<1>. QED BY <1>2, <1>3 DEF LinesShown

(* What is said of a card, of the boxes d.                                  *)
CardIsMeasured(d) ==
  LET rows == {d.rows[i] : i \in DOMAIN d.rows}
  IN /\ \A b \in d.header \cup {d.well, d.photo} \cup d.icons : Inside(b, d.card)
     /\ Above(d.header, {d.well}) /\ Inside(d.photo, d.well)
     /\ Above({d.well}, d.icons) /\ Above(d.icons, rows)
     /\ \A i \in 1 .. Len(d.rows) - 1 : Above({d.rows[i]}, {d.rows[i + 1]})
     /\ LET last == d.rows[Len(d.rows)]
        IN last.y + last.h + 1 + PostPad = d.card.y + d.card.h
     /\ d.next = d.card.y + d.card.h + PostGap

(* A card is as high as what is drawn on it, at any width with room for its *)
(* icons.                                                                   *)
LEMMA CardDrawn ==
  ASSUME NEW x \in Int, NEW y \in Int, NEW wid \in Nat, wid >= 68, NEW c, NEW comments \in BOOLEAN, NEW expanded,
         NEW v \in Nat, v = LinesShown(wid, c, expanded),
         NEW d, d = DrawPost(x, y, wid, c, comments, expanded)
  PROVE  CardIsMeasured(d)
<1> DEFINE W == [x |-> x + 8, y |-> y + 40, w |-> wid - 16, h |-> wid - 16]
           RowsTop == y + 40 + (wid - 16) + 26
           tall == 40 + (wid - 16) + 26 + (28 + 19 * v + (IF comments THEN 8 ELSE 0)) + 8
           n == 2 + v + (IF comments THEN 1 ELSE 0)
           H == {[x |-> x + 8, y |-> y + 8, w |-> 24, h |-> 24], [x |-> x + 8 + 2, y |-> y + 8 + 2, w |-> 20, h |-> 20]}
                  \cup {[x |-> x + 8 + (wid - 16) - 4 - i * 6, y |-> y + 8 + 10, w |-> 3, h |-> 3] : i \in 0 .. 2}
           K == y + 40 + (wid - 16) + 6
           I == {[x |-> x + 8, y |-> K, w |-> 14, h |-> 12], [x |-> x + 8 + 22, y |-> K, w |-> 14, h |-> 12],
                 [x |-> x + 8 + 44, y |-> K, w |-> 16, h |-> 12],
                 [x |-> x + 8 + (wid - 16) - 12, y |-> K, w |-> 10, h |-> 12]}
<1>1. wid - 2 * 8 = wid - 16
  OBVIOUS
<1>2. PICK k \in Nat : k = PostCardHeight(wid, v, comments) /\ k = tall
  <2>1. PostCardHeight(wid, v, comments) = tall
    BY <1>1 DEF PostCardHeight, CaptionBlockHeight, FontLine, FontWideLine, PostPad
  <2>2. tall \in Nat
    OBVIOUS
  <2>. QED BY <2>1, <2>2
<1>3. PICK m \in Nat : m = n
  OBVIOUS
<1>4. CaptionRows(RowsTop, c, wid - 16, comments, expanded) = [i \in 1 .. m |-> RowAt(RowsTop, v, i)]
  <2>1. PICK t \in Int, z \in Int : t = RowsTop /\ z = wid - 16
    OBVIOUS
  <2>2. v = VisibleLines(Len(WrapCaption(c, z)), expanded)
    BY <1>1, <2>1 DEF LinesShown, PostPad
  <2> HIDE DEF RowsTop
  <2>3. CaptionRows(t, c, z, comments, expanded) = [i \in 1 .. m |-> RowAt(t, v, i)]
    BY <1>3, <2>1, <2>2, RowsAre, SMTT(30)
  <2>. QED BY <2>1, <2>3
<1>5. /\ d.card = [x |-> x, y |-> y, w |-> wid, h |-> k] /\ d.well = W
      /\ d.photo = [x |-> W.x + 2, y |-> W.y + 2, w |-> W.w - 4, h |-> W.h - 4]
      /\ d.rows = [i \in 1 .. m |-> RowAt(RowsTop, v, i)] /\ d.next = y + k + 6
  <2>1. d.card = [x |-> x, y |-> y, w |-> wid, h |-> k]
    BY <1>2 DEF DrawPost, Box
  <2>2. d.well = W
    BY <1>1 DEF DrawPost, PostPad, Box
  <2>3. d.photo = [x |-> W.x + 2, y |-> W.y + 2, w |-> W.w - 4, h |-> W.h - 4]
    BY <1>1 DEF DrawPost, PostPad, Box
  <2>4. d.rows = [i \in 1 .. m |-> RowAt(RowsTop, v, i)]
    BY <1>1, <1>4 DEF DrawPost, PostPad
  <2>5. d.next = y + k + 6
    BY <1>2 DEF DrawPost, NextPost
  <2>. QED BY <2>1, <2>2, <2>3, <2>4, <2>5
<1>50. d.header = H
  BY <1>1 DEF DrawPost, PostPad, Box
<1>51. d.icons = I
  BY <1>1 DEF DrawPost, PostPad, Box
<1>6. PICK t \in Int : t = RowsTop
  OBVIOUS
<1>7. y + k = t + 28 + 19 * v + (IF comments THEN 8 ELSE 0) + 8
  BY <1>2, <1>6
<1>8. /\ d.card.x = x /\ d.card.y = y /\ d.card.w = wid /\ d.card.h = k
      /\ d.well.x = x + 8 /\ d.well.y = y + 40 /\ d.well.w = wid - 16 /\ d.well.h = wid - 16
      /\ d.photo.x = x + 10 /\ d.photo.y = y + 42 /\ d.photo.w = wid - 20 /\ d.photo.h = wid - 20
      /\ d.header = H /\ d.icons = I
      /\ d.rows = [i \in 1 .. m |-> RowAt(t, v, i)] /\ d.next = y + k + 6
  <2>1. d.card.x = x /\ d.card.y = y /\ d.card.w = wid /\ d.card.h = k
    BY <1>5
  <2>2. d.well.x = x + 8 /\ d.well.y = y + 40 /\ d.well.w = wid - 16 /\ d.well.h = wid - 16
    BY <1>5
  <2>3. W.x = x + 8 /\ W.y = y + 40 /\ W.w = wid - 16 /\ W.h = wid - 16
    OBVIOUS
  <2>4. d.photo = [x |-> x + 10, y |-> y + 42, w |-> wid - 20, h |-> wid - 20]
    <3>1. (x + 8) + 2 = x + 10 /\ (y + 40) + 2 = y + 42 /\ (wid - 16) - 4 = wid - 20
      OBVIOUS
    <3> HIDE DEF W
    <3>. QED BY <1>5, <2>3, <3>1
  <2>5. d.photo.x = x + 10 /\ d.photo.y = y + 42 /\ d.photo.w = wid - 20 /\ d.photo.h = wid - 20
    BY <2>4
  <2> HIDE DEF W, H, I
  <2>6. d.rows = [i \in 1 .. m |-> RowAt(t, v, i)] /\ d.next = y + k + 6
    BY <1>5, <1>6
  <2>. QED BY <1>50, <1>51, <2>1, <2>2, <2>5, <2>6
<1>9. Len(d.rows) = m /\ DOMAIN d.rows = 1 .. m /\ \A i \in 1 .. m : d.rows[i] = RowAt(t, v, i)
  BY <1>8
<1>10. ASSUME NEW b \in H
       PROVE  /\ b.x \in Int /\ b.w \in Int /\ b.y \in Int /\ b.h \in Int
              /\ b.x >= x /\ b.x + b.w <= x + wid /\ b.y >= y /\ b.y + b.h <= y + 40
  BY <1>10
<1>11. ASSUME NEW b \in I
       PROVE  /\ b.x \in Int /\ b.w \in Int
              /\ b.x >= x /\ b.x + b.w <= x + wid /\ b.y = y + 40 + (wid - 16) + 6 /\ b.h = 12
  BY <1>11
<1>12. t = y + 40 + (wid - 16) + 26 /\ y + 40 <= t /\ t <= y + k
  BY <1>6, <1>7
<1> HIDE DEF H, I, RowsTop, W, tall, n
<1>13. ASSUME NEW i \in 1 .. m
       PROVE  d.rows[i].y >= t /\ d.rows[i].y \in Int /\ d.rows[i].h \in Int
  <2>1. i \in Nat \ {0} /\ d.rows[i] = RowAt(t, v, i)
    BY <1>9
  <2>2. RowIs(d.rows[i], t, v, i)
    BY <1>6, <2>1, RowAtIs
  <2>. QED BY <1>6, <2>1, <2>2 DEF RowIs
<1>14. ASSUME NEW b \in H \cup {d.well, d.photo} \cup I PROVE Inside(b, d.card)
  <2>1. CASE b \in H
    <3>1. b.y + b.h <= y + k /\ b.x >= x /\ b.x + b.w <= x + wid /\ b.y >= y
      BY <1>2, <1>6, <1>10, <1>12, <2>1
    <3>. QED BY <1>8, <3>1 DEF Inside
  <2>2. CASE b = d.well \/ b = d.photo
    <3>1. k >= 40 + (wid - 16) /\ y + 40 + (wid - 16) <= y + k
      BY <1>2, <1>6, <1>12
    <3>2. Inside(d.well, d.card)
      <4>1. /\ d.card.x = x /\ d.card.y = y /\ d.card.w = wid /\ d.card.h = k
            /\ d.well.x = x + 8 /\ d.well.y = y + 40 /\ d.well.w = wid - 16 /\ d.well.h = wid - 16
        BY <1>8
      <4>2. /\ x <= x + 8 /\ x + 8 + (wid - 16) <= x + wid
            /\ y <= y + 40 /\ y + 40 + (wid - 16) <= y + k
        BY <3>1
      <4>. QED BY <4>1, <4>2 DEF Inside
    <3>3. Inside(d.photo, d.card)
      <4>1. /\ d.card.x = x /\ d.card.y = y /\ d.card.w = wid /\ d.card.h = k
            /\ d.photo.x = x + 10 /\ d.photo.y = y + 42 /\ d.photo.w = wid - 20 /\ d.photo.h = wid - 20
        BY <1>8
      <4>2. /\ x <= x + 10 /\ x + 10 + (wid - 20) <= x + wid
            /\ y <= y + 42 /\ y + 42 + (wid - 20) <= y + k
        BY <1>2, <3>1
      <4>. QED BY <4>1, <4>2 DEF Inside
    <3>. QED BY <2>2, <3>2, <3>3
  <2>3. CASE b \in I
    <3>1. b.y + b.h <= y + k /\ b.x >= x /\ b.x + b.w <= x + wid /\ b.y >= y
      BY <1>2, <1>6, <1>11, <1>12, <2>3
    <3>. QED BY <1>8, <3>1 DEF Inside
  <2>. QED BY <2>1, <2>2, <2>3
<1>15. Above(H, {d.well}) /\ Inside(d.photo, d.well) /\ Above({d.well}, I)
  <2>1. \A b \in H : b.y + b.h <= d.well.y
    BY <1>8, <1>10
  <2>2. \A b \in I : d.well.y + d.well.h <= b.y
    BY <1>8, <1>11
  <2>3. Inside(d.photo, d.well)
    BY <1>8 DEF Inside
  <2>. QED BY <2>1, <2>2, <2>3, Zenon DEF Above
<1>16. Above(I, {d.rows[i] : i \in DOMAIN d.rows})
  <2>1. ASSUME NEW b \in I, NEW i \in 1 .. m PROVE b.y + b.h <= d.rows[i].y
    BY <1>6, <1>11, <1>12, <1>13
  <2>. QED BY <1>9, <2>1, Zenon DEF Above
<1>17. ASSUME NEW i \in 1 .. m - 1 PROVE Above({d.rows[i]}, {d.rows[i + 1]})
  <2>1. PICK j \in 1 .. m : j = i + 1 /\ i \in 1 .. m
    OBVIOUS
  <2>2. i \in Nat \ {0} /\ j \in Nat \ {0} /\ d.rows[i] = RowAt(t, v, i) /\ d.rows[j] = RowAt(t, v, j)
    BY <1>9, <2>1
  <2>3. m <= 3 + v
    BY <1>3 DEF n
  <2>4. d.rows[i].y + d.rows[i].h <= d.rows[j].y
    <3>1. RowIs(d.rows[i], t, v, i) /\ RowIs(d.rows[j], t, v, j)
      BY <1>6, <2>2, RowAtIs
    <3>. QED BY <1>6, <2>1, <2>2, <2>3, <3>1 DEF RowIs
  <2>. QED BY <2>1, <2>4, Zenon DEF Above
<1>18. d.rows[m].y + d.rows[m].h + 1 + 8 = y + k
  <2>1. m \in Nat \ {0} /\ m \in 1 .. m /\ m > 1
    BY <1>3 DEF n
  <2>2. d.rows[m] = RowAt(t, v, m)
    BY <1>9, <2>1
  <2>3. CASE comments
    <3>1. m = 3 + v /\ y + k = t + 28 + 19 * v + 8 + 8
      BY <1>3, <1>7, <2>3 DEF n
    <3>2. RowIs(d.rows[m], t, v, m)
      BY <1>6, <2>1, <2>2, RowAtIs
    <3>. QED BY <1>6, <2>1, <3>1, <3>2 DEF RowIs
  <2>4. CASE ~comments
    <3>1. m = 2 + v /\ y + k = t + 28 + 19 * v + 8
      BY <1>3, <1>6, <1>7, <2>4 DEF n
    <3>2. RowIs(d.rows[m], t, v, m)
      BY <1>6, <2>1, <2>2, RowAtIs
    <3>. QED BY <1>6, <2>1, <3>1, <3>2 DEF RowIs
  <2>. QED BY <2>3, <2>4
<1>19. ASSUME NEW last, last = d.rows[Len(d.rows)]
       PROVE  last.y + last.h + 1 + PostPad = d.card.y + d.card.h
  BY <1>8, <1>9, <1>18, <1>19 DEF PostPad
<1>20. d.next = d.card.y + d.card.h + PostGap
  BY <1>8 DEF PostGap
<1>21. \A i \in 1 .. Len(d.rows) - 1 : Above({d.rows[i]}, {d.rows[i + 1]})
  BY <1>9, <1>17
<1>. QED BY <1>8, <1>14, <1>15, <1>16, <1>19, <1>20, <1>21, Zenon DEF CardIsMeasured

(* The bars of a window with room for the five icons.                       *)
LEMMA BarsDrawn ==
  ASSUME NEW width \in Nat, width >= 80, NEW height \in Nat, height >= 58,
         NEW d, d = Chrome(width, height)
  PROVE  /\ \A b \in d.app : b.x >= 0 /\ b.x + b.w <= width /\ b.y + b.h <= BarH + 1
         /\ \A b \in d.nav :
              b.x >= 0 /\ b.x + b.w <= width /\ b.y >= height - NavH /\ b.y + b.h <= height
<1>1. PICK f \in Nat : f = width \div 5 /\ f >= 16 /\ 5 * f <= width
  OBVIOUS
<1>2. PICK e \in Nat : e = f \div 2 /\ e >= 8 /\ 2 * e <= f
  BY <1>1
<1>3. \A b \in d.app : b.x >= 0 /\ b.x + b.w <= width /\ b.y + b.h <= BarH + 1
  <2>1. d.app = {[x |-> 0, y |-> 0, w |-> width, h |-> 30], [x |-> 0, y |-> 30, w |-> width, h |-> 1],
                 [x |-> width - 26, y |-> 8, w |-> 16, h |-> 14]}
    BY DEF Chrome, Box, BarH
  <2>. QED BY <2>1 DEF BarH
<1>4. \A b \in d.nav : b.x >= 0 /\ b.x + b.w <= width /\ b.y >= height - NavH /\ b.y + b.h <= height
  <2>1. PICK n \in Nat : n = height - 28
    OBVIOUS
  <2>2. d.nav = {[x |-> 0, y |-> n, w |-> width, h |-> 28], [x |-> 0, y |-> n, w |-> width, h |-> 1],
                 [x |-> 0, y |-> n + 1, w |-> width, h |-> 1]}
                  \cup {[x |-> f * i + e - 8, y |-> n + 8, w |-> 16, h |-> 14] : i \in 0 .. 4}
    BY <1>1, <1>2, <2>1 DEF Chrome, Box, NavH
  <2>3. ASSUME NEW i \in 0 .. 4 PROVE f * i + e - 8 >= 0 /\ f * i + e - 8 + 16 <= width
    <3>1. i \in {0, 1, 2, 3, 4}
      OBVIOUS
    <3>. QED BY <1>1, <1>2, <3>1
  <2>4. ASSUME NEW b \in d.nav
        PROVE  b.x >= 0 /\ b.x + b.w <= width /\ b.y >= n /\ b.y + b.h <= height
    <3>1. CASE b \in {[x |-> 0, y |-> n, w |-> width, h |-> 28], [x |-> 0, y |-> n, w |-> width, h |-> 1],
                      [x |-> 0, y |-> n + 1, w |-> width, h |-> 1]}
      BY <2>1, <3>1
    <3>2. CASE b \in {[x |-> f * i + e - 8, y |-> n + 8, w |-> 16, h |-> 14] : i \in 0 .. 4}
      <4>1. PICK i \in 0 .. 4 : b = [x |-> f * i + e - 8, y |-> n + 8, w |-> 16, h |-> 14]
        BY <3>2
      <4>. QED BY <2>1, <2>3, <4>1
    <3>. QED BY <2>2, <3>1, <3>2
  <2>. QED BY <2>1, <2>4 DEF NavH
<1>. QED BY <1>3, <1>4

(* The demo feed is as high as it is drawn.                                 *)
LEMMA DemoAsHigh == \A width, captions : DemoHeight(width, captions) = DemoDrawn(width, captions)
BY DEF DemoHeight, DemoDrawn, NextPost, PostGap

-----------------------------------------------------------------------------
(* Ten digits, each by its value.                                           *)
LEMMA DigitsHaveValues ==
  ASSUME NEW n \in 0 .. 9
  PROVE  DigitOf(n) \in Digit /\ ValueOf(DigitOf(n)) = n
<1>1. DigitOf(n) \in Digit
  BY DEF DigitOf, Digit
<1>2. ASSUME NEW m \in 0 .. 15, DigitOf(m) = DigitOf(n) PROVE m = n
  <2>1. m \in {0, 1, 2, 3, 4, 5, 6, 7, 8, 9, 10, 11, 12, 13, 14, 15}
    OBVIOUS
  <2>2. n \in {0, 1, 2, 3, 4, 5, 6, 7, 8, 9}
    OBVIOUS
  <2>. QED BY <1>2, <2>1, <2>2 DEF DigitOf, DigitChars
<1>3. n \in 0 .. 15
  OBVIOUS
<1>. QED BY <1>1, <1>2, <1>3 DEF ValueOf

(* The digits of every number, a number with one digit less further on.     *)
Numerals(f) == f = [n \in Nat |-> IF n < 10 THEN <<DigitOf(n)>> ELSE Append(f[n \div 10], DigitOf(n % 10))]

(* A number has a tenth, which is less, and a last digit.                    *)
LEMMA TenthIsLess ==
  ASSUME NEW n \in Nat, n >= 10
  PROVE  n \div 10 \in Nat /\ n \div 10 < n /\ n % 10 \in 0 .. 9 /\ (n \div 10) * 10 + (n % 10) = n
<1>1. 10 \in Nat \ {0}
  OBVIOUS
<1>2. n \div 10 \in Nat /\ n % 10 \in 0 .. 10 - 1 /\ (n \div 10) * 10 + (n % 10) = n
  BY <1>1, Division
<1>. QED BY <1>2

(* A number and its tenth: the walk from the last digit to the first.        *)
NumeralLeft == [n \in Nat |-> n]
NumeralNext == [n \in Nat |-> n \div 10]

(* It comes to one digit from every number.                                  *)
LEMMA NumeralIsWay == IsWay(Nat, 0 .. 9, NumeralLeft, NumeralNext)
<1>1. ASSUME NEW n \in Nat \ 0 .. 9 PROVE NumeralNext[n] \in Nat /\ NumeralLeft[NumeralNext[n]] < NumeralLeft[n]
  <2>1. n >= 10
    OBVIOUS
  <2>. QED BY <2>1, TenthIsLess DEF NumeralNext, NumeralLeft
<1>2. NumeralLeft \in [Nat -> Nat] /\ 0 .. 9 \subseteq Nat
  BY DEF NumeralLeft
<1>. QED BY <1>1, <1>2 DEF IsWay

(* Every number has its digits.                                              *)
LEMMA NumeralsExist == \E f : f \in [Nat -> Seq(Digit)] /\ Numerals(f)
<1> DEFINE last == [n \in Nat |-> <<DigitOf(n)>>]
           join == [u \in Nat \X Seq(Digit) |-> Append(u[2], DigitOf(u[1] % 10))]
           V == Seq(Digit)
<1>1. PICK f : IsWalk(f, Nat, 0 .. 9, NumeralNext, last, join)
  BY NumeralIsWay, WalksExist
<1>2. AreGivens(Nat, 0 .. 9, last, join, V)
  <2>1. ASSUME NEW n \in 0 .. 9 PROVE last[n] \in V
    BY DigitsHaveValues
  <2>2. ASSUME NEW n \in Nat \ 0 .. 9, NEW v \in V PROVE join[<<n, v>>] \in V
    <3>1. n % 10 \in 0 .. 9
      OBVIOUS
    <3>2. PICK c \in Digit : c = DigitOf(n % 10)
      BY <3>1, DigitsHaveValues
    <3>3. join[<<n, v>>] = Append(v, c)
      BY <3>2
    <3>. QED BY <3>3, AppendProperties
  <2> HIDE DEF last, join, V
  <2>. QED BY <2>1, <2>2 DEF AreGivens
<1>3. f \in [Nat -> V]
  <2> HIDE DEF last, join, V
  <2>. QED BY <1>1, <1>2, NumeralIsWay, WalksAre
<1>4. ASSUME NEW n \in Nat
      PROVE  f[n] = IF n < 10 THEN <<DigitOf(n)>> ELSE Append(f[n \div 10], DigitOf(n % 10))
  <2>1. f[n] = Given(f, 0 .. 9, NumeralNext, last, join, n)
    BY <1>1 DEF IsWalk
  <2>2. CASE n < 10
    <3>1. n \in 0 .. 9
      BY <2>2
    <3>2. f[n] = last[n]
      BY <2>1, <3>1 DEF Given
    <3>. QED BY <2>2, <3>2
  <2>3. CASE ~(n < 10)
    <3>1. n \notin 0 .. 9 /\ n >= 10
      BY <2>3
    <3>2. PICK k \in Nat : k = n \div 10
      BY <3>1, TenthIsLess
    <3>3. f[n] = join[<<n, f[k]>>]
      BY <2>1, <3>1, <3>2 DEF Given, NumeralNext
    <3>4. PICK v \in V : v = f[k]
      BY <1>3
    <3>5. join[<<n, v>>] = Append(v, DigitOf(n % 10))
      BY <3>4
    <3>. QED BY <2>3, <3>2, <3>3, <3>4, <3>5
  <2>. QED BY <2>2, <2>3
<1>5. f = [n \in Nat |-> f[n]]
  BY <1>3
<1>. QED BY <1>3, <1>4, <1>5 DEF Numerals

(* What holds of one digit and, if of its tenth, of a number, holds of all.  *)
LEMMA NumeralsReached ==
  ASSUME NEW T, 0 .. 9 \subseteq T, \A k \in Nat \ 0 .. 9 : NumeralNext[k] \in T => k \in T
  PROVE  Nat \subseteq T
BY NumeralIsWay, WalkEnds

(* The digits that are shown are those.                                      *)
LEMMA NumeralIs ==
  \E f : f \in [Nat -> Seq(Digit)] /\ Numerals(f) /\ \A n \in Nat : Numeral(n, 10) = f[n]
<1> DEFINE T(f) == {n \in Nat : f[n] \in Seq(Digit)}
<1>1. PICK f : f = CHOOSE g : Numerals(g)
  OBVIOUS
<1>2. Numerals(f)
  BY <1>1, NumeralsExist
<1>3. \A n \in Nat : Numeral(n, 10) = f[n]
  BY <1>1 DEF Numeral, Numerals
<1>4. \A n \in Nat : f[n] = IF n < 10 THEN <<DigitOf(n)>> ELSE Append(f[n \div 10], DigitOf(n % 10))
  BY <1>2 DEF Numerals
<1>5. 0 .. 9 \subseteq T(f)
  <2>1. SUFFICES ASSUME NEW n \in 0 .. 9 PROVE f[n] \in Seq(Digit)
    OBVIOUS
  <2>2. PICK c \in Digit : c = DigitOf(n)
    BY DigitsHaveValues
  <2>3. n \in Nat /\ n < 10
    BY <2>1
  <2>4. f[n] = <<c>>
    BY <1>4, <2>2, <2>3
  <2>. QED BY <2>4
<1>6. ASSUME NEW n \in Nat \ 0 .. 9, NumeralNext[n] \in T(f) PROVE n \in T(f)
  <2>1. ~(n < 10) /\ n >= 10
    OBVIOUS
  <2>2. PICK c \in Digit : c = DigitOf(n % 10)
    BY <2>1, TenthIsLess, DigitsHaveValues
  <2>3. PICK s \in Seq(Digit) : s = f[n \div 10]
    BY <1>6 DEF NumeralNext
  <2>4. f[n] = Append(s, c)
    BY <1>4, <2>1, <2>2, <2>3
  <2>. QED BY <2>4, AppendProperties, SMTT(30)
<1>7. Nat \subseteq T(f)
  <2> HIDE DEF T
  <2>. QED BY <1>5, <1>6, NumeralsReached
<1>8. f = [n \in Nat |-> f[n]]
  BY <1>2 DEF Numerals
<1>. QED BY <1>2, <1>3, <1>7, <1>8

(* What n digits say, from the first on.                                    *)
Values(f, s, n) == f = [k \in 0 .. n |-> IF k = 0 THEN 0 ELSE (f[k - 1] * 10) + ValueOf(s[k])]

(* Digits say something.                                                     *)
LEMMA ValuesExist ==
  ASSUME NEW s, NEW n \in Nat
  PROVE  \E f : Values(f, s, n)
<1> DEFINE T == {k \in 0 .. n : \E f : Values(f, s, k)}
<1>1. 0 \in T
  <2>1. PICK f : f = [k \in 0 .. 0 |-> 0]
    OBVIOUS
  <2>2. Values(f, s, 0)
    BY <2>1 DEF Values
  <2>. QED BY <2>2
<1>2. ASSUME NEW k \in 0 .. n, k # 0, k - 1 \in T PROVE k \in T
  <2>1. PICK f : Values(f, s, k - 1)
    BY <1>2
  <2>2. PICK g : g = [i \in 0 .. k |-> IF i = k THEN (f[k - 1] * 10) + ValueOf(s[k]) ELSE f[i]]
    OBVIOUS
  <2>3. ASSUME NEW i \in 0 .. k PROVE g[i] = IF i = 0 THEN 0 ELSE (g[i - 1] * 10) + ValueOf(s[i])
    <3>1. CASE i = k
      <4>1. k - 1 \in 0 .. k /\ k - 1 # k
        BY <1>2
      <4>2. g[k - 1] = f[k - 1]
        BY <2>2, <4>1
      <4>. QED BY <1>2, <2>2, <3>1, <4>2
    <3>2. CASE i # k
      <4>1. i \in 0 .. k - 1 /\ g[i] = f[i]
        BY <2>2, <3>2
      <4>2. f[i] = IF i = 0 THEN 0 ELSE (f[i - 1] * 10) + ValueOf(s[i])
        BY <2>1, <4>1 DEF Values
      <4>3. i # 0 => g[i - 1] = f[i - 1]
        BY <2>2, <3>2
      <4>. QED BY <4>1, <4>2, <4>3
    <3>. QED BY <3>1, <3>2
  <2>4. g = [i \in 0 .. k |-> g[i]]
    BY <2>2
  <2>5. Values(g, s, k)
    BY <2>3, <2>4 DEF Values
  <2>. QED BY <2>5
<1> HIDE DEF T
<1>3. 0 .. n \subseteq T
  BY <1>1, <1>2, UpFrom
<1>4. n \in T
  BY <1>3
<1>. QED BY <1>4 DEF T

(* The same digits say the same.                                            *)
LEMMA ValuesAgree ==
  ASSUME NEW s, NEW u, NEW n \in Nat, NEW m \in Nat, n <= m, \A k \in 1 .. n : s[k] = u[k],
         NEW f, Values(f, s, n), NEW g, Values(g, u, m)
  PROVE  \A k \in 0 .. n : f[k] = g[k]
<1> DEFINE T == {k \in 0 .. n : f[k] = g[k]}
<1>1. 0 \in T
  BY DEF Values
<1>2. ASSUME NEW k \in 0 .. n, k # 0, k - 1 \in T PROVE k \in T
  <2>1. k \in 1 .. n /\ k \in 0 .. m
    BY <1>2
  <2>2. f[k] = (f[k - 1] * 10) + ValueOf(s[k])
    BY <1>2 DEF Values
  <2>3. g[k] = (g[k - 1] * 10) + ValueOf(u[k])
    BY <1>2, <2>1 DEF Values
  <2>4. s[k] = u[k] /\ f[k - 1] = g[k - 1]
    BY <1>2, <2>1
  <2>. QED BY <2>2, <2>3, <2>4
<1> HIDE DEF T
<1>3. 0 .. n \subseteq T
  BY <1>1, <1>2, UpFrom
<1>. QED BY <1>3 DEF T

(* A number is what its digits say.                                         *)
Says(s, n) == \E f : Values(f, s, Len(s)) /\ f[Len(s)] = n

(* One digit more says ten times the number, and the digit.                  *)
LEMMA OneMoreSays ==
  ASSUME NEW u \in Seq(Digit), NEW n \in Nat, Says(u, n), NEW c \in Digit, NEW d \in 0 .. 9, ValueOf(c) = d
  PROVE  Says(Append(u, c), (n * 10) + d)
<1>1. PICK m \in Nat : m = Len(u)
  OBVIOUS
<1>2. PICK s \in Seq(Digit) : s = Append(u, c)
  BY AppendProperties
<1>3. Len(s) = m + 1 /\ s[m + 1] = c /\ \A k \in 1 .. m : u[k] = s[k]
  BY <1>1, <1>2, AppendProperties
<1>4. PICK f : Values(f, u, m) /\ f[m] = n
  BY <1>1 DEF Says
<1>5. m + 1 \in Nat /\ m + 1 \in 0 .. m + 1 /\ m + 1 # 0 /\ m <= m + 1 /\ (m + 1) - 1 = m /\ m \in 0 .. m
  OBVIOUS
<1>6. PICK g : Values(g, s, m + 1)
  BY <1>5, ValuesExist
<1>7. f[m] = g[m]
  BY <1>3, <1>4, <1>5, <1>6, ValuesAgree
<1>8. g[m + 1] = (g[m] * 10) + ValueOf(s[m + 1])
  BY <1>5, <1>6 DEF Values
<1>9. g[m + 1] = (n * 10) + d
  BY <1>3, <1>4, <1>7, <1>8
<1>. QED BY <1>2, <1>3, <1>6, <1>9 DEF Says

(* One digit says its value.                                                 *)
LEMMA OneSays ==
  ASSUME NEW n \in 0 .. 9
  PROVE  Says(<<DigitOf(n)>>, n)
<1> PICK c \in Digit : c = DigitOf(n) /\ ValueOf(c) = n
  BY DigitsHaveValues
<1>0. <<c>> \in Seq(Digit) /\ Len(<<c>>) = 1 /\ <<c>>[1] = c
  OBVIOUS
<1>1. PICK s \in Seq(Digit) : s = <<c>> /\ Len(s) = 1 /\ s[1] = c
  BY <1>0
<1>2. 1 \in Nat /\ 1 \in 0 .. 1 /\ 0 \in 0 .. 1
  OBVIOUS
<1>3. PICK f : Values(f, s, 1)
  BY <1>2, ValuesExist
<1>4. f[0] = 0 /\ f[1] = (f[0] * 10) + ValueOf(s[1])
  BY <1>2, <1>3 DEF Values
<1>5. f[1] = n
  BY <1>1, <1>4
<1>. QED BY <1>1, <1>3, <1>5 DEF Says

(* Every number is what its digits say.                                      *)
LEMMA NumeralsSay ==
  ASSUME NEW f \in [Nat -> Seq(Digit)], Numerals(f), NEW n \in Nat
  PROVE  Says(f[n], n)
<1>0. PICK T : T = {k \in Nat : Says(f[k], k)}
  OBVIOUS
<1>1. \A k \in Nat : f[k] = IF k < 10 THEN <<DigitOf(k)>> ELSE Append(f[k \div 10], DigitOf(k % 10))
  BY DEF Numerals
<1>2. ASSUME NEW k \in 0 .. 9 PROVE k \in T
  <2>1. k \in Nat /\ f[k] = <<DigitOf(k)>>
    BY <1>1
  <2>. QED BY <1>0, <2>1, OneSays
<1>3. ASSUME NEW k \in Nat \ 0 .. 9, NumeralNext[k] \in T PROVE k \in T
  <2>1. ~(k < 10) /\ k >= 10
    OBVIOUS
  <2>2. PICK q \in Nat, d \in 0 .. 9 : q = k \div 10 /\ d = k % 10 /\ (q * 10) + d = k
    BY <2>1, TenthIsLess
  <2>3. PICK c \in Digit : c = DigitOf(d) /\ ValueOf(c) = d
    BY <2>2, DigitsHaveValues
  <2>4. Says(f[q], q) /\ f[q] \in Seq(Digit)
    BY <1>0, <1>3, <2>2 DEF NumeralNext
  <2>5. Says(Append(f[q], c), (q * 10) + d)
    BY <2>2, <2>3, <2>4, OneMoreSays
  <2>6. f[k] = Append(f[q], c)
    BY <1>1, <2>1, <2>2, <2>3
  <2>. QED BY <1>0, <2>2, <2>5, <2>6
<1>4. 0 .. 9 \subseteq T
  BY <1>2
<1>7. \A k \in Nat \ 0 .. 9 : NumeralNext[k] \in T => k \in T
  BY <1>3
<1>5. Nat \subseteq T
  BY <1>4, <1>7, NumeralsReached
<1>6. n \in T
  BY <1>5
<1>. QED BY <1>0, <1>6, Zenon

(* Numbers below m have k digits at most.                                   *)
Within10(f, m, k) == \A n \in Nat : n < m => Len(f[n]) <= k

(* Ten times as many numbers have one digit more.                            *)
LEMMA OneDigitMore ==
  ASSUME NEW f \in [Nat -> Seq(Digit)], Numerals(f), NEW m \in Nat, NEW k \in Nat, k >= 1, Within10(f, m, k),
         NEW m2 \in Nat, m2 = 10 * m, NEW k2 \in Nat, k2 = k + 1
  PROVE  Within10(f, m2, k2)
<1>1. SUFFICES ASSUME NEW n \in Nat, n < m2 PROVE Len(f[n]) <= k2
  BY DEF Within10
<1>2. CASE n < 10
  <2>1. f[n] = <<DigitOf(n)>>
    BY <1>2 DEF Numerals
  <2>2. Len(f[n]) = 1
    BY <2>1
  <2>. QED BY <2>2
<1>3. CASE ~(n < 10)
  <2>0. n >= 10
    BY <1>3
  <2>1. PICK q \in Nat, d \in 0 .. 9 : q = n \div 10 /\ d = n % 10 /\ (q * 10) + d = n
    BY <2>0, TenthIsLess
  <2>2. q < m
    BY <1>1, <2>1
  <2>3. PICK s \in Seq(Digit) : s = f[q]
    OBVIOUS
  <2>4. f[n] = Append(s, DigitOf(d))
    BY <1>3, <2>1, <2>3 DEF Numerals
  <2>5. Len(f[n]) = Len(s) + 1
    BY <2>4
  <2>6. Len(s) <= k
    BY <2>2, <2>3 DEF Within10
  <2>. QED BY <2>5, <2>6
<1>. QED BY <1>2, <1>3

(* The largest count of likes.                                               *)
MostLikes == 2147483647

(* A number that fits the count of likes has ten digits at most.            *)
LEMMA TenDigits ==
  ASSUME NEW f \in [Nat -> Seq(Digit)], Numerals(f), NEW n \in Nat, n <= MostLikes
  PROVE  Len(f[n]) <= 10
<1> PICK m1 \in Nat, m2 \in Nat, m3 \in Nat, m4 \in Nat, m5 \in Nat :
      m1 = 10 /\ m2 = 10 * m1 /\ m3 = 10 * m2 /\ m4 = 10 * m3 /\ m5 = 10 * m4
  OBVIOUS
<1> PICK m6 \in Nat, m7 \in Nat, m8 \in Nat, m9 \in Nat, m10 \in Nat :
      m6 = 10 * m5 /\ m7 = 10 * m6 /\ m8 = 10 * m7 /\ m9 = 10 * m8 /\ m10 = 10 * m9
  OBVIOUS
<1> PICK k1 \in Nat, k2 \in Nat, k3 \in Nat, k4 \in Nat, k5 \in Nat :
      k1 = 1 /\ k2 = k1 + 1 /\ k3 = k2 + 1 /\ k4 = k3 + 1 /\ k5 = k4 + 1
  OBVIOUS
<1> PICK k6 \in Nat, k7 \in Nat, k8 \in Nat, k9 \in Nat, k10 \in Nat :
      k6 = k5 + 1 /\ k7 = k6 + 1 /\ k8 = k7 + 1 /\ k9 = k8 + 1 /\ k10 = k9 + 1
  OBVIOUS
<1>1. Within10(f, m1, k1)
  <2>1. ASSUME NEW i \in Nat, i < 10 PROVE Len(f[i]) <= 1
    <3>1. f[i] = <<DigitOf(i)>>
      BY <2>1 DEF Numerals
    <3>. QED BY <3>1
  <2>. QED BY <2>1 DEF Within10
<1>0. k1 >= 1 /\ k2 >= 1 /\ k3 >= 1 /\ k4 >= 1 /\ k5 >= 1 /\ k6 >= 1 /\ k7 >= 1 /\ k8 >= 1 /\ k9 >= 1
  OBVIOUS
<1>2. Within10(f, m2, k2)
  BY <1>0, <1>1, OneDigitMore
<1>3. Within10(f, m3, k3)
  BY <1>0, <1>2, OneDigitMore
<1>4. Within10(f, m4, k4)
  BY <1>0, <1>3, OneDigitMore
<1>5. Within10(f, m5, k5)
  BY <1>0, <1>4, OneDigitMore
<1>6. Within10(f, m6, k6)
  BY <1>0, <1>5, OneDigitMore
<1>7. Within10(f, m7, k7)
  BY <1>0, <1>6, OneDigitMore
<1>8. Within10(f, m8, k8)
  BY <1>0, <1>7, OneDigitMore
<1>9. Within10(f, m9, k9)
  BY <1>0, <1>8, OneDigitMore
<1>10. Within10(f, m10, k10)
  BY <1>0, <1>9, OneDigitMore
<1>11. n < m10 /\ k10 = 10
  BY SMT DEF MostLikes
<1>. QED BY <1>10, <1>11 DEF Within10

(* What the view says of the likes is right for r, shown for n.              *)
LikesAre(n, r) ==
  LET digits == Len(r) - Len(LikesSuffix)
      value[k \in 0 .. digits] == IF k = 0 THEN 0 ELSE (value[k - 1] * 10) + ValueOf(r[k])
  IN value[digits] = Greater(n, 0) /\ SubSeq(r, digits + 1, Len(r)) = LikesSuffix

(* r is u, of length e, and then v.                                          *)
Followed(r, u, v, e) ==
  /\ Len(r) = e + Len(v) /\ \A k \in 1 .. e : u[k] = r[k]
  /\ SubSeq(r, e + 1, Len(r)) = v

(* That is what concatenation gives.                                         *)
LEMMA AfterTheDigits ==
  ASSUME NEW S, NEW u \in Seq(S), NEW v \in Seq(S), NEW r, r = u \o v, NEW e \in Nat, e = Len(u)
  PROVE  Followed(r, u, v, e)
<1>1. PICK m \in Nat : m = Len(v)
  OBVIOUS
<1>2. r \in Seq(S) /\ Len(r) = e + m
  BY <1>1, ConcatProperties
<1>3. \A k \in 1 .. e + m : r[k] = IF k <= e THEN u[k] ELSE v[k - e]
  BY <1>1, ConcatProperties
<1>4. PICK wid : wid = SubSeq(r, e + 1, e + m)
  OBVIOUS
<1>5. wid \in Seq(S) /\ Len(wid) = m /\ \A i \in 1 .. m : wid[i] = r[e + i]
  <2>1. wid = [i \in 1 .. m |-> r[e + i]]
    BY <1>2, <1>4
  <2>2. \A i \in 1 .. m : r[e + i] \in S
    <3>1. \A i \in 1 .. m : e + i \in 1 .. e + m
      OBVIOUS
    <3>. QED BY <1>2, <3>1, ElementOfSeq
  <2>3. wid \in [1 .. m -> S]
    BY <2>1, <2>2
  <2>4. wid \in Seq(S) /\ Len(wid) = m
    BY <2>3
  <2>. QED BY <2>1, <2>4
<1>6. \A i \in 1 .. m : wid[i] = v[i]
  <2>1. SUFFICES ASSUME NEW i \in 1 .. m PROVE wid[i] = v[i]
    OBVIOUS
  <2>2. PICK k \in 1 .. e + m : k = e + i /\ ~(k <= e) /\ k - e = i
    BY SMTT(30)
  <2>. QED BY <1>3, <1>5, <2>2
<1>7. wid = v
  BY <1>1, <1>5, <1>6, SeqEqual
<1>8. \A k \in 1 .. e : u[k] = r[k]
  BY <1>3
<1>. QED BY <1>1, <1>2, <1>4, <1>7, <1>8 DEF Followed

(* A sequence of elements of S is one of elements of more.                   *)
LEMMA WiderSeq ==
  ASSUME NEW S, NEW T, S \subseteq T, NEW s \in Seq(S)
  PROVE  s \in Seq(T)
OBVIOUS

(* Six letters are a text of length 6.                                       *)
LEMMA SixLetters ==
  ASSUME NEW a, NEW b, NEW c, NEW d, NEW e, NEW f
  PROVE  <<a, b, c, d, e, f>> \in Seq({a, b, c, d, e, f}) /\ Len(<<a, b, c, d, e, f>>) = 6
OBVIOUS

(* The first n of both are the same, and so is what they say.                *)
SameDigits(s, u, n) == \A k \in 1 .. n : s[k] = u[k]

(* Of the same digits, both say the same.                                    *)
LEMMA SameDigitsSay ==
  ASSUME NEW s, NEW u, NEW n \in Nat, SameDigits(s, u, n),
         NEW f, Values(f, s, n), NEW g, Values(g, u, n)
  PROVE  f[n] = g[n]
<1>1. n <= n /\ n \in 0 .. n
  OBVIOUS
<1>2. \A k \in 0 .. n : f[k] = g[k]
  BY <1>1, ValuesAgree DEF SameDigits
<1>. QED BY <1>1, <1>2

(* The buffer of 24 holds every count of likes with its word.                *)
LEMMA LikesDrawn ==
  ASSUME NEW n \in Int, n <= MostLikes
  PROVE  LikesAre(n, FormatLikes(n, 24))
<1>1. PICK f \in [Nat -> Seq(Digit)] : Numerals(f) /\ \A k \in Nat : Numeral(k, 10) = f[k]
  BY NumeralIs
<1>2. PICK m \in Nat : m = (IF n < 0 THEN 0 ELSE n) /\ m = Greater(n, 0) /\ m <= MostLikes
  BY SMT DEF Greater, MostLikes
<1>3. PICK u \in Seq(Digit) : u = f[m]
  OBVIOUS
<1>4. PICK e \in Nat : e = Len(u) /\ e <= 10
  <2>1. m <= MostLikes
    BY <1>2
  <2>2. Len(f[m]) <= 10
    BY <1>1, <2>1, TenDigits
  <2>. QED BY <1>3, <2>2
<1>5. Says(u, m)
  BY <1>1, <1>3, NumeralsSay
<1>6. PICK L : LikesSuffix \in Seq(L) /\ Len(LikesSuffix) = 6
  <2>1. PICK a, b, c, d, g : a = " " /\ b = "l" /\ c = "i" /\ d = "k" /\ g = "e"
    OBVIOUS
  <2>2. PICK said : said = "s"
    OBVIOUS
  <2>3. LikesSuffix = <<a, b, c, d, g, said>>
    BY <2>1, <2>2 DEF LikesSuffix
  <2>. QED BY <2>3, SixLetters
<1>7. PICK S : S = Digit \cup L
  OBVIOUS
<1>8. u \in Seq(S)
  BY <1>7, WiderSeq
<1>20. PICK v \in Seq(S) : v = LikesSuffix /\ Len(v) = 6
  <2>1. LikesSuffix \in Seq(S)
    BY <1>6, <1>7, WiderSeq
  <2>. QED BY <1>6, <2>1
<1>9. PICK r : r = u \o v
  OBVIOUS
<1>10. Len(r) = e + Len(v) /\ (\A k \in 1 .. e : u[k] = r[k]) /\ SubSeq(r, e + 1, Len(r)) = v
  <2>1. Followed(r, u, v, e)
    BY <1>4, <1>8, <1>9, AfterTheDigits
  <2>. QED BY <2>1 DEF Followed
<1>11. FormatLikes(n, 24) = r
  <2>1. Numeral(IF n < 0 THEN 0 ELSE n, 10) = u
    BY <1>1, <1>2, <1>3
  <2>2. Len(r) <= 24 - 1
    BY <1>4, <1>20, <1>10
  <2>. QED BY <1>20, <1>9, <2>1, <2>2 DEF FormatLikes
<1>12. PICK g : Values(g, u, e) /\ g[e] = m
  BY <1>4, <1>5 DEF Says
<1>13. PICK said : said = CHOOSE k : Values(k, r, e)
  OBVIOUS
<1>14. Values(said, r, e)
  BY <1>13, ValuesExist
<1>15. said[e] = m
  <2>1. e <= e /\ e \in 0 .. e
    OBVIOUS
  <2>2. g[e] = said[e]
    <3>1. SameDigits(u, r, e)
      BY <1>10 DEF SameDigits
    <3>2. Values(g, u, e)
      BY <1>12
    <3>. QED BY <1>14, <3>1, <3>2, SameDigitsSay
  <2>. QED BY <1>12, <2>1, <2>2
<1>16. Len(r) - Len(LikesSuffix) = e
  BY <1>4, <1>20, <1>10
<1>17. LikesAre(n, r)
  BY <1>2, <1>20, <1>10, <1>13, <1>15, <1>16 DEF LikesAre, Values
<1>. QED BY <1>11, <1>17

(* What is tried of the drawing side, and that the code's answer is looked at. *)
TriedText ==
  \E t \in Seq(Chars), s \in {0, 2} :
    input = [text |-> t, scale |-> s] /\ result = [drawn |-> Draw(t, 3, 4, s), width |-> TextWidth(t, s)]

FitShown(t, fit) ==
  [fit |-> fit, cut |-> Draw(SubSeq(t, 1, fit.len), 0, 0, 1),
   rest |-> Draw(SubSeq(t, fit.len + 1, Len(t)), 0, 0, 1), whole |-> Draw(t, 0, 0, 1)]
TriedFit ==
  \E t \in Seq(Chars), maxw \in Int :
    input = [text |-> t, maxw |-> maxw] /\ result = FitShown(t, Measure(t, maxw))
TriedCard ==
  \E width \in Nat, c \in CardCaptions, comments, expanded \in BOOLEAN :
    width >= 80 /\ result = DrawPost(6, PostGap, CardWidth(width), c, comments, expanded)
TriedDemo ==
  \E width, c, d : result = [height |-> DemoHeight(width, <<c, d>>), drawn |-> DemoDrawn(width, <<c, d>>)]
TriedBars ==
  \E width, height \in Nat :
    width >= 80 /\ height >= 58 /\ input = [width |-> width, height |-> height] /\ result = Chrome(width, height)
TriedLikes == input \in Int /\ input <= MostLikes /\ result = FormatLikes(input, 24)

(* Whatever is tried, the code was asked and its answer is looked at.        *)
TriedDrawing ==
  /\ subject = "text" => TriedText
  /\ subject = "fit" => TriedFit
  /\ subject = "card" => TriedCard
  /\ subject = "demo" => TriedDemo
  /\ subject = "bars" => TriedBars
  /\ subject = "likes" => TriedLikes

(* The texts that are tried have no NUL.                                     *)
LEMMA TextsAreBytes ==
  ASSUME NEW t \in Texts
  PROVE  t \in Seq(Chars)
<1>1. PICK n \in Nat : t \in [1 .. n -> FontBytes]
  BY MCDrawingAssumption DEF Texts
<1>2. FontBytes \subseteq Chars
  BY MCDrawingAssumption DEF Chars
<1>. QED BY <1>1, <1>2

(* Every step of the drawing side tries something so.                        *)
LEMMA DrawingTried == DrawingSpec => []TriedDrawing
<1>1. Start => TriedDrawing
  BY DEF Start, AtStart, TriedDrawing
<1>2. TriedDrawing /\ [DrawingNext \/ Again]_trialVars => TriedDrawing'
  <2> SUFFICES ASSUME TriedDrawing, [DrawingNext \/ Again]_trialVars PROVE TriedDrawing'
    OBVIOUS
  <2>1. CASE DrawText
    <3>1. PICK t \in Seq(Chars), s \in {0, 2} :
            /\ subject' = "text" /\ input' = [text |-> t, scale |-> s]
            /\ result' = [drawn |-> Draw(t, 3, 4, s), width |-> TextWidth(t, s)]
      BY <2>1, TextsAreBytes DEF DrawText, Try
    <3>. QED BY <3>1 DEF TriedDrawing, TriedText
  <2>2. CASE FitText
    <3>1. PICK t \in Seq(Chars), maxw \in Int :
            /\ subject' = "fit" /\ input' = [text |-> t, maxw |-> maxw]
            /\ result' = FitShown(t, Measure(t, maxw))
      BY <2>2, TextsAreBytes, MCDrawingAssumption DEF FitText, Try, FitShown, FitWidth
    <3>. QED BY <3>1 DEF TriedDrawing, TriedFit
  <2>3. CASE DrawCard
    <3>1. PICK width \in CardWidths, c \in CardCaptions, comments \in BOOLEAN, expanded \in BOOLEAN :
            /\ subject' = "card"
            /\ result' = DrawPost(6, PostGap, CardWidth(width), c, comments, expanded)
      BY <2>3 DEF DrawCard, Try
    <3>2. width \in Nat /\ width >= 80
      BY MCDrawingAssumption
    <3>. QED BY <3>1, <3>2 DEF TriedDrawing, TriedCard
  <2>4. CASE DrawDemo
    <3>1. PICK width, c, d :
            /\ subject' = "demo"
            /\ result' = [height |-> DemoHeight(width, <<c, d>>), drawn |-> DemoDrawn(width, <<c, d>>)]
      BY <2>4 DEF DrawDemo, Try
    <3>. QED BY <3>1 DEF TriedDrawing, TriedDemo
  <2>5. CASE DrawBars
    <3>1. PICK width \in CardWidths, height \in {58, 59, 338} :
            /\ subject' = "bars" /\ input' = [width |-> width, height |-> height]
            /\ result' = Chrome(width, height)
      BY <2>5 DEF DrawBars, Try
    <3>2. width \in Nat /\ width >= 80 /\ height \in Nat /\ height >= 58
      BY MCDrawingAssumption
    <3>. QED BY <3>1, <3>2 DEF TriedDrawing, TriedBars
  <2>6. CASE CountLikes
    <3>1. PICK n \in Int : n <= MostLikes /\ subject' = "likes" /\ input' = n /\ result' = FormatLikes(n, 24)
      BY <2>6, SMT DEF CountLikes, Try, MostLikes
    <3>. QED BY <3>1 DEF TriedDrawing, TriedLikes
  <2>7. CASE Again
    BY <2>7 DEF Again, TriedDrawing
  <2>8. CASE UNCHANGED trialVars
    BY <2>8 DEF trialVars, TriedDrawing, TriedText, TriedFit, TriedCard, TriedDemo, TriedBars, TriedLikes
  <2>. QED BY <2>1, <2>2, <2>3, <2>4, <2>5, <2>6, <2>7, <2>8 DEF DrawingNext
<1>. QED BY <1>1, <1>2, PTL DEF DrawingSpec

(* For every font of Hangul codepoints, every set of texts, widths and cards *)
(* that have room for their icons: what is measured is what is drawn.        *)
THEOREM DrawingAsMeasured == DrawingSpec => []DrawnAsMeasured
<1>1. TriedDrawing => TextAsMeasured
  <2>1. SUFFICES ASSUME TriedDrawing, subject = "text" PROVE TextAsMeasured
    BY DEF TextAsMeasured
  <2>2. PICK t \in Seq(Chars), s \in {0, 2} :
          /\ input.text = t /\ input.scale = s
          /\ result.drawn = Draw(t, 3, 4, s) /\ result.width = TextWidth(t, s)
    BY <2>1 DEF TriedDrawing, TriedText
  <2>. QED BY <2>2, TextDrawn DEF TextAsMeasured
<1>2. TriedDrawing => CutAsMeasured
  <2>1. SUFFICES ASSUME TriedDrawing, subject = "fit" PROVE CutAsMeasured
    BY DEF CutAsMeasured
  <2>2. PICK t \in Seq(Chars), maxw \in Int :
          /\ input.text = t /\ input.maxw = maxw
          /\ result = FitShown(t, Measure(t, maxw))
    BY <2>1 DEF TriedDrawing, TriedFit
  <2>3. PICK fit : fit = Measure(t, maxw)
    OBVIOUS
  <2>4. PICK u, r : u = SubSeq(t, 1, fit.len) /\ r = SubSeq(t, fit.len + 1, Len(t))
    OBVIOUS
  <2>5. /\ result.fit = fit /\ result.cut = Draw(u, 0, 0, 1)
        /\ result.rest = Draw(r, 0, 0, 1) /\ result.whole = Draw(t, 0, 0, 1)
    BY <2>2, <2>3, <2>4 DEF FitShown
  <2>6. CutIsMeasured(t, maxw, fit, u, r)
    BY <2>3, <2>4, CutDrawn
  <2>. QED BY <2>2, <2>5, <2>6 DEF CutAsMeasured, CutIsMeasured, Fits, FontW, HangulW
<1>3. TriedDrawing => CardAsMeasured
  <2>1. SUFFICES ASSUME TriedDrawing, subject = "card" PROVE CardAsMeasured
    BY DEF CardAsMeasured
  <2>2. PICK width \in Nat, c \in CardCaptions, comments \in BOOLEAN, expanded \in BOOLEAN :
          width >= 80 /\ result = DrawPost(6, PostGap, CardWidth(width), c, comments, expanded)
    BY <2>1 DEF TriedDrawing, TriedCard
  <2>3. PICK wid \in Nat : wid = CardWidth(width) /\ wid >= 68
    BY <2>2 DEF CardWidth
  <2>4. PICK v \in Nat : v = LinesShown(wid, c, expanded)
    BY LinesCounted
  <2>5. PICK x \in Int, y \in Int : x = 6 /\ y = PostGap
    BY DEF PostGap
  <2>6. result = DrawPost(x, y, wid, c, comments, expanded)
    BY <2>2, <2>3, <2>5
  <2>7. CardIsMeasured(result)
    BY <2>3, <2>4, <2>5, <2>6, CardDrawn
  <2>. QED BY <2>7 DEF CardAsMeasured, CardIsMeasured
<1>4. TriedDrawing => BarsAsMeasured
  <2>1. SUFFICES ASSUME TriedDrawing, subject = "bars" PROVE BarsAsMeasured
    BY DEF BarsAsMeasured
  <2>2. PICK width \in Nat, height \in Nat :
          /\ width >= 80 /\ height >= 58 /\ input.width = width /\ input.height = height
          /\ result = Chrome(width, height)
    BY <2>1 DEF TriedDrawing, TriedBars
  <2>. QED BY <2>2, BarsDrawn DEF BarsAsMeasured
<1>5. TriedDrawing => LikesWhole
  <2>1. SUFFICES ASSUME TriedDrawing, subject = "likes" PROVE LikesWhole
    BY DEF LikesWhole
  <2>2. LikesAre(input, result)
    BY <2>1, LikesDrawn DEF TriedDrawing, TriedLikes
  <2>. QED BY <2>2 DEF LikesWhole, LikesAre
<1>6. TriedDrawing /\ subject = "demo" => result.height = result.drawn
  <2>1. SUFFICES ASSUME TriedDemo PROVE result.height = result.drawn
    BY DEF TriedDrawing
  <2>2. PICK width, c, d :
          result = [height |-> DemoHeight(width, <<c, d>>), drawn |-> DemoDrawn(width, <<c, d>>)]
    BY <2>1 DEF TriedDemo
  <2>3. result.height = DemoHeight(width, <<c, d>>) /\ result.drawn = DemoDrawn(width, <<c, d>>)
    BY <2>2
  <2>. QED BY <2>3, DemoAsHigh
<1>7. TriedDrawing => DrawnAsMeasured
  BY <1>1, <1>2, <1>3, <1>4, <1>5, <1>6 DEF DrawnAsMeasured
<1>. QED BY <1>7, DrawingTried, PTL

=============================================================================
