--------------------------- MODULE FinalStreamProofs ---------------------------
(***************************************************************************)
(* Proofs about FinalStream, for any texts and lists of keywords, however  *)
(* the text is cut into chunks, and any number of other handlers.          *)
(***************************************************************************)
EXTENDS FinalStream, Integers, SequenceTheorems, FiniteSetTheorems, TLAPS

\* s is the stretch of t after its first o glyphs.
Piece(s, t, o) ==
    /\ s \in Seq(Glyphs) /\ o \in Nat /\ o + Len(s) <= Len(t)
    /\ \A i \in 1..Len(s) : s[i] = t[o + i]

\* Keyword k ends at the e-th glyph of t; some keyword of the list l does.
EndsAt(t, k, e) ==
    e \in Len(k)..Len(t) /\ \A i \in 1..Len(k) : t[e - Len(k) + i] = k[i]
HeardAt(t, l, e) == \E i \in DOMAIN l : EndsAt(t, l[i], e)

\* The glyphs handled, and how many of them come before those on their way.
Seen == IF stream = "handle" THEN said - Len(chunk) ELSE said
Start == Seen - Len(OnItsWay)
Longest == Max({Len(keywords[i]) : i \in DOMAIN keywords})

\* Whatever the handler holds is a stretch of the text: the chunk that comes
\* next; the last glyphs handled, as many as the longest keyword has; and all
\* those on their way, in the channel's hands or the callback's.
ChunkInv == stream = "handle" => Piece(chunk, text, said - Len(chunk))
WindowInv ==
    /\ Piece(lastTokens, text, Seen - Len(lastTokens))
    /\ keywords # <<>> => Len(lastTokens) \in {Seen, Longest}
WayInv ==
    /\ Piece(OnItsWay, text, Start)
    /\ ~printOutput => OnItsWay = <<>>
    /\ reader # "callback" => received = <<>>
    /\ keywords = <<>> => said = 0 /\ ~printOutput

\* What is on its way does not begin before some keyword does.
AfterKeyword ==
    printOutput => \E l \in Lists : \E i \in DOMAIN l : \E e \in 0..Seen :
                       EndsAt(text, l[i], e) /\ Start >= e - Len(l[i])

\* As long as nobody replaces the list, the handler prints as soon as one of its
\* keywords was handled, and from there on, but for spaces.
HeardInv ==
    alone => /\ keywords # <<>> => defaults = keywords
             /\ ~printOutput => \A e \in 0..Seen : ~HeardAt(text, keywords, e)
             /\ printOutput => \E e \in 0..Seen :
                    /\ HeardAt(text, keywords, e)
                    /\ \A j \in (e + 1)..Start : text[j] = Space

\* A colon after such a keyword would be taken for the keyword's own.
NoKeywordEndsInSpace ==
    \A l \in Lists : \A i \in DOMAIN l : Last(l[i]) # Space

IInv ==
    /\ TypeOK /\ ChunkInv /\ WindowInv /\ WayInv /\ AfterKeyword
    /\ NoKeywordEndsInSpace => HeardInv

------------------------------------------------------------------------------
\* Greatest and smallest elements.

LEMMA FiniteMax ==
    ASSUME NEW S, S \subseteq Int, S # {}, IsFiniteSet(S)
    PROVE  Max(S) \in S /\ \A y \in S : Max(S) >= y
<1> DEFINE HasMax(U) == \E x \in U : \A y \in U : x >= y
           T == {U \in SUBSET S : U # {} /\ ~HasMax(U)}
<1>1. IsWellFoundedOn(StrictSubsetOrdering(S), SUBSET S)
  BY FS_StrictSubsetOrderingWellFounded, FS_FiniteSubsetsOfFinite
<1>2. ASSUME T # {} PROVE FALSE
  <2>1. PICK U \in T : \A V \in T : ~ (<<V, U>> \in StrictSubsetOrdering(S))
    <3> HIDE DEF T
    <3>1. T \subseteq SUBSET S
      BY DEF T
    <3> QED BY <1>1, <1>2, <3>1, WFMin
  <2>2. PICK x \in U : TRUE
    OBVIOUS
  <2> DEFINE V == U \ {x}
  <2>3. V \subseteq U /\ V # U /\ V \in SUBSET S
    BY <2>2
  <2>4. <<V, U>> \in StrictSubsetOrdering(S)
    BY <2>1, <2>3 DEF StrictSubsetOrdering
  <2>5. V = {} \/ HasMax(V)
    BY <2>1, <2>3, <2>4
  <2>6. CASE V = {}
    <3>1. \A y \in U : y = x
      BY <2>2, <2>6
    <3> QED BY <2>1, <2>2, <3>1
  <2>7. CASE HasMax(V)
    <3>1. PICK m \in V : \A y \in V : m >= y
      BY <2>7
    <3>2. \A y \in U : y = x \/ m >= y
      BY <3>1
    <3>3. m \in Int /\ x \in Int /\ U \subseteq Int
      BY <2>1, <2>2, <3>1
    <3>4. HasMax(U)
      <4>1. CASE m >= x
        BY <3>1, <3>2, <3>3, <4>1
      <4>2. CASE ~(m >= x)
        <5>1. \A y \in U : x >= y
          BY <3>2, <3>3, <4>2
        <5> QED BY <2>2, <5>1
      <4> QED BY <4>1, <4>2
    <3> QED BY <2>1, <3>4
  <2> QED BY <2>5, <2>6, <2>7
<1>3. HasMax(S)
  BY <1>2
<1> QED BY <1>3 DEF Max

LEMMA BoundedMax ==
    ASSUME NEW a \in Int, NEW b \in Int, NEW S, S \subseteq a..b, S # {}
    PROVE  Max(S) \in S /\ \A y \in S : Max(S) >= y
<1>1. IsFiniteSet(a..b)
  BY FS_Interval
<1>2. IsFiniteSet(S)
  BY <1>1, FS_Subset
<1>3. S \subseteq Int
  OBVIOUS
<1> QED BY <1>2, <1>3, FiniteMax

\* The smallest of a set is the greatest of its mirror image.
LEMMA BoundedMin ==
    ASSUME NEW a \in Int, NEW b \in Int, NEW S, S \subseteq a..b, S # {}
    PROVE  Min(S) \in S /\ \A y \in S : Min(S) <= y
<1> DEFINE M == {0 - x : x \in S}
<1>1. M \subseteq (0 - b)..(0 - a) /\ M # {}
  OBVIOUS
<1>2. Max(M) \in M /\ \A y \in M : Max(M) >= y
  <2> HIDE DEF M
  <2>1. 0 - b \in Int /\ 0 - a \in Int
    OBVIOUS
  <2> QED BY <1>1, <2>1, BoundedMax
<1>3. PICK x \in S : Max(M) = 0 - x
  BY <1>2
<1>4. \A y \in S : 0 - x >= 0 - y
  BY <1>2, <1>3
<1>5. \A y \in S : x <= y
  BY <1>4
<1> QED BY <1>5 DEF Min

LEMMA MaxWithZero ==
    ASSUME NEW a \in Int
    PROVE  Max({0, a}) = IF a >= 0 THEN a ELSE 0
<1>1. Max({0, a}) \in {0, a} /\ \A y \in {0, a} : Max({0, a}) >= y
  <2>1. IsFiniteSet({0}) /\ IsFiniteSet({a})
    BY FS_Singleton
  <2>2. IsFiniteSet({0, a})
    <3>1. {0} \cup {a} = {0, a}
      OBVIOUS
    <3> QED BY <2>1, <3>1, FS_Union
  <2>3. {0, a} \subseteq Int /\ {0, a} # {}
    OBVIOUS
  <2> QED BY <2>2, <2>3, FiniteMax
<1> QED BY <1>1

------------------------------------------------------------------------------
\* Stretches of a text.

LEMMA SeqFacts ==
    ASSUME NEW s \in Seq(Glyphs)
    PROVE  Len(s) \in Nat /\ DOMAIN s = 1..Len(s) /\ \A i \in 1..Len(s) : s[i] \in Glyphs
  OBVIOUS

LEMMA DropFacts ==
    ASSUME NEW s \in Seq(Glyphs), NEW n \in 0..Len(s)
    PROVE  /\ Drop(s, n) \in Seq(Glyphs) /\ Len(Drop(s, n)) = Len(s) - n
           /\ \A i \in 1..(Len(s) - n) : Drop(s, n)[i] = s[n + i]
<1>1. Len(s) \in Nat /\ \A i \in (n + 1)..Len(s) : s[i] \in Glyphs
  OBVIOUS
<1>2. /\ SubSeq(s, n + 1, Len(s)) \in Seq(Glyphs)
      /\ Len(SubSeq(s, n + 1, Len(s))) = IF n + 1 <= Len(s) THEN Len(s) - (n + 1) + 1 ELSE 0
      /\ \A i \in 1..(Len(s) - (n + 1) + 1) : SubSeq(s, n + 1, Len(s))[i] = s[n + 1 + i - 1]
  BY <1>1, SubSeqProperties, n + 1 \in Int
<1>3. /\ (IF n + 1 <= Len(s) THEN Len(s) - (n + 1) + 1 ELSE 0) = Len(s) - n
      /\ Len(s) - (n + 1) + 1 = Len(s) - n
      /\ \A i \in 1..(Len(s) - n) : n + 1 + i - 1 = n + i
  BY <1>1
<1> QED BY <1>2, <1>3 DEF Drop

LEMMA DropPiece ==
    ASSUME NEW t \in Seq(Glyphs), NEW s, NEW o, Piece(s, t, o), NEW n \in 0..Len(s)
    PROVE  Piece(Drop(s, n), t, o + n) /\ Len(Drop(s, n)) = Len(s) - n
<1>1. /\ s \in Seq(Glyphs) /\ o \in Nat /\ Len(s) \in Nat /\ n \in Nat /\ n <= Len(s)
      /\ o + Len(s) <= Len(t) /\ Len(t) \in Nat
      /\ \A i \in 1..Len(s) : s[i] = t[o + i]
  BY DEF Piece
<1>2. /\ Drop(s, n) \in Seq(Glyphs) /\ Len(Drop(s, n)) = Len(s) - n
      /\ \A i \in 1..(Len(s) - n) : Drop(s, n)[i] = s[n + i]
  BY <1>1, DropFacts
<1>3. \A i \in 1..(Len(s) - n) : n + i \in 1..Len(s) /\ o + (n + i) = (o + n) + i
  BY <1>1
<1>4. o + n \in Nat /\ (o + n) + (Len(s) - n) <= Len(t)
  BY <1>1
<1>5. \A i \in 1..(Len(s) - n) : Drop(s, n)[i] = t[(o + n) + i]
  BY <1>1, <1>2, <1>3
<1> QED BY <1>2, <1>4, <1>5 DEF Piece

\* Two stretches that follow each other.
LEMMA JoinPieces ==
    ASSUME NEW t \in Seq(Glyphs), NEW s, NEW o, Piece(s, t, o),
           NEW r, Piece(r, t, o + Len(s))
    PROVE  Piece(s \o r, t, o) /\ Len(s \o r) = Len(s) + Len(r)
<1>1. /\ s \in Seq(Glyphs) /\ r \in Seq(Glyphs) /\ o \in Nat /\ Len(s) \in Nat /\ Len(r) \in Nat
      /\ (o + Len(s)) + Len(r) <= Len(t) /\ Len(t) \in Nat
      /\ \A i \in 1..Len(s) : s[i] = t[o + i]
      /\ \A i \in 1..Len(r) : r[i] = t[(o + Len(s)) + i]
  BY DEF Piece
<1>2. /\ s \o r \in Seq(Glyphs) /\ Len(s \o r) = Len(s) + Len(r)
      /\ \A i \in 1..(Len(s) + Len(r)) :
            (s \o r)[i] = IF i <= Len(s) THEN s[i] ELSE r[i - Len(s)]
  BY <1>1, ConcatProperties
<1>3. ASSUME NEW i \in 1..(Len(s) + Len(r)) PROVE (s \o r)[i] = t[o + i]
  <2>1. CASE i <= Len(s)
    <3>1. i \in 1..Len(s)
      BY <1>1, <2>1
    <3> QED BY <1>1, <1>2, <2>1, <3>1
  <2>2. CASE ~(i <= Len(s))
    <3>1. i - Len(s) \in 1..Len(r) /\ (o + Len(s)) + (i - Len(s)) = o + i
      BY <1>1, <2>2
    <3> QED BY <1>1, <1>2, <2>2, <3>1
  <2> QED BY <2>1, <2>2
<1>4. o + (Len(s) + Len(r)) <= Len(t)
  BY <1>1
<1> QED BY <1>1, <1>2, <1>3, <1>4 DEF Piece

LEMMA EmptyList ==
    ASSUME NEW S
    PROVE  <<>> \in Seq(S) /\ Len(<<>>) = 0 /\ DOMAIN <<>> = {}
<1>1. <<>> \in Seq(S) /\ Len(<<>>) = 0
  BY EmptySeq
<1>2. DOMAIN <<>> = 1..0
  BY <1>1, LenProperties
<1> QED BY <1>1, <1>2

LEMMA EmptyPiece ==
    ASSUME NEW t \in Seq(Glyphs), NEW o \in 0..Len(t)
    PROVE  Piece(<<>>, t, o)
  BY DEF Piece

\* A keyword found in a stretch is found there in the text.
LEMMA EndsOfPiece ==
    ASSUME NEW t \in Seq(Glyphs), NEW s, NEW o, Piece(s, t, o),
           NEW k \in Seq(Glyphs), NEW e \in Nat
    PROVE  e \in Ends(s, k) <=> e <= Len(s) /\ Len(k) <= e /\ EndsAt(t, k, o + e)
<1>1. /\ s \in Seq(Glyphs) /\ o \in Nat /\ Len(s) \in Nat /\ Len(k) \in Nat
      /\ o + Len(s) <= Len(t) /\ Len(t) \in Nat
      /\ \A i \in 1..Len(s) : s[i] = t[o + i]
  BY DEF Piece
<1>2. ASSUME e <= Len(s), Len(k) <= e
      PROVE  SubSeq(s, e - Len(k) + 1, e) = k <=> \A i \in 1..Len(k) : t[(o + e) - Len(k) + i] = k[i]
  <2> DEFINE q == SubSeq(s, e - Len(k) + 1, e)
  <2>1. /\ e - Len(k) + 1 \in Int /\ \A i \in (e - Len(k) + 1)..e : s[i] \in Glyphs
    BY <1>1, <1>2
  <2>2. /\ q \in Seq(Glyphs)
        /\ Len(q) = IF e - Len(k) + 1 <= e THEN e - (e - Len(k) + 1) + 1 ELSE 0
        /\ \A i \in 1..(e - (e - Len(k) + 1) + 1) : q[i] = s[e - Len(k) + 1 + i - 1]
    BY <2>1, SubSeqProperties
  <2>3. /\ Len(q) = Len(k) /\ e - (e - Len(k) + 1) + 1 = Len(k)
    BY <1>1, <1>2, <2>2
  <2>4. ASSUME NEW i \in 1..Len(k)
        PROVE  q[i] = t[(o + e) - Len(k) + i]
    <3>1. e - Len(k) + 1 + i - 1 \in 1..Len(s)
      BY <1>1, <1>2
    <3>2. o + (e - Len(k) + 1 + i - 1) = (o + e) - Len(k) + i
      BY <1>1, <1>2
    <3> QED BY <1>1, <2>2, <2>3, <3>1, <3>2
  <2> HIDE DEF q
  <2>5. (\A i \in 1..Len(k) : t[(o + e) - Len(k) + i] = k[i]) => q = k
    BY <2>2, <2>3, <2>4, SeqEqual
  <2>6. q = k <=> \A i \in 1..Len(k) : t[(o + e) - Len(k) + i] = k[i]
    BY <2>4, <2>5
  <2> QED BY <2>6 DEF q
<1>3. ASSUME e <= Len(s), Len(k) <= e
      PROVE  o + e \in Len(k)..Len(t)
  BY <1>1, <1>3
<1>4. e \in Ends(s, k) <=> e <= Len(s) /\ Len(k) <= e /\ SubSeq(s, e - Len(k) + 1, e) = k
  BY <1>1 DEF Ends
<1>5. ASSUME e <= Len(s), Len(k) <= e
      PROVE  EndsAt(t, k, o + e) <=> SubSeq(s, e - Len(k) + 1, e) = k
  <2>1. EndsAt(t, k, o + e) <=> \A i \in 1..Len(k) : t[(o + e) - Len(k) + i] = k[i]
    <3>1. o + e \in Len(k)..Len(t)
      BY <1>3, <1>5
    <3> QED BY <3>1, Zenon DEF EndsAt
  <2>2. SubSeq(s, e - Len(k) + 1, e) = k <=> \A i \in 1..Len(k) : t[(o + e) - Len(k) + i] = k[i]
    BY <1>2, <1>5
  <2> QED BY <2>1, <2>2
<1> QED BY <1>4, <1>5

------------------------------------------------------------------------------
\* What is trimmed from a chunk.

LEMMA DropDrop ==
    ASSUME NEW s \in Seq(Glyphs), NEW a \in 0..Len(s), NEW b \in 0..(Len(s) - a)
    PROVE  Drop(Drop(s, a), b) = Drop(s, a + b)
<1>1. Len(s) \in Nat /\ a + b \in 0..Len(s)
  OBVIOUS
<1>2. /\ Drop(s, a) \in Seq(Glyphs) /\ Len(Drop(s, a)) = Len(s) - a
      /\ \A i \in 1..(Len(s) - a) : Drop(s, a)[i] = s[a + i]
  BY DropFacts
<1>3. b \in 0..Len(Drop(s, a))
  BY <1>2
<1>4. /\ Drop(Drop(s, a), b) \in Seq(Glyphs)
      /\ Len(Drop(Drop(s, a), b)) = Len(Drop(s, a)) - b
      /\ \A i \in 1..(Len(Drop(s, a)) - b) : Drop(Drop(s, a), b)[i] = Drop(s, a)[b + i]
  BY <1>2, <1>3, DropFacts
<1>5. /\ Drop(s, a + b) \in Seq(Glyphs) /\ Len(Drop(s, a + b)) = Len(s) - (a + b)
      /\ \A i \in 1..(Len(s) - (a + b)) : Drop(s, a + b)[i] = s[(a + b) + i]
  BY <1>1, DropFacts
<1>6. Len(Drop(Drop(s, a), b)) = Len(Drop(s, a + b))
  <2>1. (Len(s) - a) - b = Len(s) - (a + b)
    BY <1>1
  <2> QED BY <1>2, <1>4, <1>5, <2>1
<1>7. ASSUME NEW i \in 1..(Len(s) - (a + b))
      PROVE  Drop(Drop(s, a), b)[i] = Drop(s, a + b)[i]
  <2>1. b + i \in 1..(Len(s) - a) /\ i \in 1..((Len(s) - a) - b) /\ a + (b + i) = (a + b) + i
    BY <1>1
  <2> QED BY <1>2, <1>4, <1>5, <2>1
<1> QED BY <1>4, <1>5, <1>6, <1>7, SeqEqual

LEMMA TrimFacts ==
    ASSUME NEW s \in Seq(Glyphs)
    PROVE  \E n \in 0..Len(s) : /\ TrimLeft(s) = Drop(s, n)
                                /\ \A i \in 1..n : s[i] = Space
                                /\ n < Len(s) => s[n + 1] # Space
<1> DEFINE N == {n \in 0..Len(s) : \A i \in 1..n : s[i] = Space}
<1>1. Len(s) \in Nat /\ 0 \in N /\ N \subseteq 0..Len(s)
  OBVIOUS
<1>2. Max(N) \in N /\ \A y \in N : Max(N) >= y
  <2> HIDE DEF N
  <2>1. 0 \in Int /\ Len(s) \in Int /\ N # {}
    BY <1>1
  <2> QED BY <1>1, <2>1, BoundedMax
<1>3. PICK n \in N : n = Max(N)
  BY <1>2
<1>4. ASSUME n < Len(s), s[n + 1] = Space PROVE FALSE
  <2>1. n \in 0..Len(s) /\ \A i \in 1..n : s[i] = Space
    OBVIOUS
  <2>2. \A i \in 1..(n + 1) : s[i] = Space
    BY <2>1, <1>4
  <2>3. n + 1 \in N
    BY <1>1, <1>4, <2>1, <2>2
  <2>4. n >= n + 1
    BY <1>2, <1>3, <2>3
  <2> QED BY <2>1, <2>4
<1>5. TrimLeft(s) = Drop(s, n)
  BY <1>3 DEF TrimLeft
<1> QED BY <1>4, <1>5

\* After spaces and a cut, spaces again.
LEMMA CutFacts ==
    ASSUME NEW s \in Seq(Glyphs), NEW a \in 0..Len(s)
    PROVE  \E n \in a..Len(s) : /\ TrimLeft(Drop(s, a)) = Drop(s, n)
                                /\ \A j \in (a + 1)..n : s[j] = Space
<1>1. /\ Drop(s, a) \in Seq(Glyphs) /\ Len(Drop(s, a)) = Len(s) - a /\ Len(s) \in Nat
      /\ \A i \in 1..(Len(s) - a) : Drop(s, a)[i] = s[a + i]
  BY DropFacts
<1>2. PICK b \in 0..(Len(s) - a) : /\ TrimLeft(Drop(s, a)) = Drop(Drop(s, a), b)
                                   /\ \A i \in 1..b : Drop(s, a)[i] = Space
  BY <1>1, TrimFacts
<1>3. Drop(Drop(s, a), b) = Drop(s, a + b)
  BY DropDrop
<1>4. ASSUME NEW j \in (a + 1)..(a + b) PROVE s[j] = Space
  <2>1. j - a \in 1..b /\ j - a \in 1..(Len(s) - a) /\ a + (j - a) = j
    BY <1>1
  <2> QED BY <1>1, <1>2, <2>1
<1>5. a + b \in a..Len(s)
  BY <1>1
<1> QED BY <1>2, <1>3, <1>4, <1>5

\* Where the keyword is found in what is left of the first spaces.
LEMMA EndsOfDrop ==
    ASSUME NEW s \in Seq(Glyphs), NEW a \in 0..Len(s), NEW k \in Seq(Glyphs), NEW e \in Nat
    PROVE  e \in Ends(Drop(s, a), k) <=> a + e \in Ends(s, k) /\ Len(k) <= e
<1>1. Piece(s, s, 0) /\ Len(s) \in Nat /\ Len(k) \in Nat
  BY DEF Piece
<1>2. Piece(Drop(s, a), s, 0 + a) /\ Len(Drop(s, a)) = Len(s) - a
  BY <1>1, DropPiece
<1>3. 0 + a = a /\ a \in Nat
  BY <1>1
<1>4. e \in Ends(Drop(s, a), k) <=> e <= Len(s) - a /\ Len(k) <= e /\ EndsAt(s, k, a + e)
  BY <1>2, <1>3, EndsOfPiece
<1>5. a + e \in Ends(s, k) <=> a + e <= Len(s) /\ Len(k) <= a + e /\ EndsAt(s, k, 0 + (a + e))
  BY <1>1, <1>3, a + e \in Nat, EndsOfPiece
<1>6. /\ e <= Len(s) - a <=> a + e <= Len(s)
      /\ Len(k) <= e => Len(k) <= a + e
      /\ 0 + (a + e) = a + e
  BY <1>1, <1>3
<1> QED BY <1>4, <1>5, <1>6

\* What filterFinalString cuts off a chunk s: not beyond the beginning of the
\* keyword, if that is in s; and if the keyword ends at d, in s or not begun in
\* it, nothing but spaces after d or after another end of the keyword.
LEMMA FilterFacts ==
    ASSUME NEW s \in Seq(Glyphs), NEW k \in Seq(Glyphs) \ {<<>>}
    PROVE  \E n \in 0..Len(s) :
             /\ FilterFinalString(s, k) = Drop(s, n)
             /\ Ends(s, k) # {} => \E e \in Ends(s, k) : n >= e - Len(k)
             /\ \A d \in 1..Len(s) : s[d] # Space =>
                  \E e \in Ends(s, k) \cup {d} : \A j \in (e + 1)..n : s[j] = Space
<1>0. Len(s) \in Nat /\ Len(k) \in Nat
  OBVIOUS
<1>1. PICK a \in 0..Len(s) : /\ TrimLeft(s) = Drop(s, a)
                             /\ \A i \in 1..a : s[i] = Space
                             /\ a < Len(s) => s[a + 1] # Space
  BY TrimFacts
<1> DEFINE t == Drop(s, a)
<1>2. t \in Seq(Glyphs) /\ Len(t) = Len(s) - a /\ \A i \in 1..(Len(s) - a) : t[i] = s[a + i]
  BY DropFacts
<1>3. \A e \in Ends(s, k) : e \in Nat /\ e <= Len(s)
  BY <1>0 DEF Ends
<1>4. CASE Ends(t, k) # {}
  <2>1. Ends(t, k) \subseteq 0..Len(s)
    BY <1>0, <1>2 DEF Ends
  <2>2. PICK c \in Ends(t, k) : c = Min(Ends(t, k))
    BY <1>0, <1>4, <2>1, BoundedMin
  <2>3. c \in Nat /\ a + c \in Ends(s, k) /\ a + c \in 0..Len(s) /\ c \in 0..(Len(s) - a)
    <3>1. c \in Nat
      BY <2>1
    <3>2. a + c \in Ends(s, k)
      BY <3>1, EndsOfDrop
    <3> QED BY <1>0, <1>3, <3>1, <3>2
  <2>4. FilterFinalString(s, k) = TrimLeft(Drop(t, c))
    BY <1>1, <1>4, <2>2 DEF FilterFinalString, Occurs
  <2>5. Drop(t, c) = Drop(s, a + c)
    BY <2>3, DropDrop
  <2>6. PICK n \in (a + c)..Len(s) : /\ TrimLeft(Drop(s, a + c)) = Drop(s, n)
                                     /\ \A j \in ((a + c) + 1)..n : s[j] = Space
    BY <2>3, CutFacts
  <2>7. n \in 0..Len(s) /\ n >= (a + c) - Len(k)
    BY <1>0, <2>3
  <2> QED BY <2>3, <2>4, <2>5, <2>6, <2>7
<1>5. CASE Ends(t, k) = {}
  <2>1. ASSUME NEW e \in Ends(s, k) PROVE a >= e - Len(k)
    <3>1. e \in Nat
      BY <1>3
    <3>2. CASE e - Len(k) > a
      <4>1. e - a \in Nat /\ a + (e - a) = e /\ Len(k) <= e - a
        BY <1>0, <3>1, <3>2
      <4>2. e - a \in Ends(t, k)
        BY <4>1, EndsOfDrop
      <4> QED BY <1>5, <4>2
    <3> QED BY <1>0, <3>1, <3>2
  <2>2. ASSUME NEW d \in 1..Len(s), s[d] # Space PROVE d >= a + 1
    BY <1>0, <1>1, <2>2
  <2>3. CASE t # <<>> /\ Head(t) = Colon
    <3>1. Tail(t) = Drop(t, 1)
      <4>1. Tail(t) = SubSeq(t, 2, Len(t))
        BY <1>2, <2>3, TailIsSubSeq
      <4> QED BY <4>1 DEF Drop
    <3>2. Len(t) # 0
      BY <1>2, <2>3, EmptySeq
    <3>3. 1 \in 0..(Len(s) - a) /\ a + 1 \in 0..Len(s)
      BY <1>0, <1>2, <3>2
    <3>4. FilterFinalString(s, k) = TrimLeft(Drop(s, a + 1))
      <4>1. FilterFinalString(s, k) = TrimLeft(Tail(t))
        BY <1>1, <1>5, <2>3 DEF FilterFinalString, Occurs
      <4>2. Drop(t, 1) = Drop(s, a + 1)
        BY <3>3, DropDrop
      <4> QED BY <3>1, <4>1, <4>2
    <3>5. PICK n \in (a + 1)..Len(s) : /\ TrimLeft(Drop(s, a + 1)) = Drop(s, n)
                                       /\ \A j \in ((a + 1) + 1)..n : s[j] = Space
      BY <3>3, CutFacts
    <3>6. n \in 0..Len(s) /\ n >= a
      BY <1>0
    <3>7. \A e \in Ends(s, k) : n >= e - Len(k)
      BY <1>0, <1>3, <2>1, <3>6
    <3>8. ASSUME NEW d \in 1..Len(s), s[d] # Space
          PROVE  \A j \in (d + 1)..n : s[j] = Space
      <4>1. d >= a + 1
        BY <2>2, <3>8
      <4>2. (d + 1)..n \subseteq ((a + 1) + 1)..n
        BY <1>0, <4>1
      <4> QED BY <3>5, <4>2
    <3> QED BY <3>4, <3>5, <3>6, <3>7, <3>8
  <2>4. CASE ~(t # <<>> /\ Head(t) = Colon)
    <3>1. FilterFinalString(s, k) = TrimLeft(t)
      BY <1>1, <1>5, <2>4 DEF FilterFinalString, Occurs
    <3>2. PICK n \in a..Len(s) : /\ TrimLeft(Drop(s, a)) = Drop(s, n)
                                 /\ \A j \in (a + 1)..n : s[j] = Space
      BY CutFacts
    <3>3. n \in 0..Len(s) /\ n >= a
      BY <1>0
    <3>4. \A e \in Ends(s, k) : n >= e - Len(k)
      BY <1>0, <1>3, <2>1, <3>3
    <3>5. ASSUME NEW d \in 1..Len(s), s[d] # Space
          PROVE  \A j \in (d + 1)..n : s[j] = Space
      <4>1. d >= a + 1
        BY <2>2, <3>5
      <4>2. (d + 1)..n \subseteq (a + 1)..n
        BY <1>0, <4>1
      <4> QED BY <3>2, <4>2
    <3> QED BY <3>1, <3>2, <3>3, <3>4, <3>5
  <2> QED BY <2>3, <2>4
<1> QED BY <1>4, <1>5

------------------------------------------------------------------------------
\* Types.

LEMMA KeywordFacts ==
    ASSUME NEW l \in Lists
    PROVE  /\ l # <<>> /\ Len(l) \in Nat \ {0} /\ DOMAIN l = 1..Len(l)
           /\ \A i \in DOMAIN l : l[i] \in Seq(Glyphs) \ {<<>>} /\ Len(l[i]) \in Nat \ {0}
<1>1. l \in Seq(Seq(Glyphs) \ {<<>>}) /\ l # <<>>
  BY TextsAssumption
<1>2. Len(l) \in Nat \ {0} /\ DOMAIN l = 1..Len(l)
  BY <1>1, EmptySeq, LenProperties
<1>3. ASSUME NEW i \in DOMAIN l
      PROVE  l[i] \in Seq(Glyphs) \ {<<>>} /\ Len(l[i]) \in Nat \ {0}
  <2>1. l[i] \in Seq(Glyphs) \ {<<>>}
    BY <1>1, <1>2, ElementOfSeq
  <2> QED BY <2>1, EmptySeq
<1> QED BY <1>1, <1>2, <1>3

LEMMA StateFacts ==
    ASSUME TypeOK
    PROVE  /\ text \in Seq(Glyphs) /\ Len(text) \in Nat /\ said \in 0..Len(text)
           /\ lastTokens \in Seq(Glyphs) /\ chunk \in Seq(Glyphs)
           /\ received \in Seq(Glyphs) /\ forwarded \in Seq(Glyphs)
           /\ Len(lastTokens) \in Nat /\ Len(chunk) \in Nat
<1>1. text \in Seq(Glyphs) /\ said \in 0..Len(text)
  BY TextsAssumption DEF TypeOK
<1>2. /\ lastTokens \in Seq(Glyphs) /\ chunk \in Seq(Glyphs)
      /\ received \in Seq(Glyphs) /\ forwarded \in Seq(Glyphs)
  BY DEF TypeOK
<1> QED BY <1>1, <1>2, LenProperties

LEMMA LongestFacts ==
    ASSUME TypeOK, keywords # <<>>
    PROVE  Longest \in Nat /\ \A i \in DOMAIN keywords : Len(keywords[i]) <= Longest
<1> DEFINE S == {Len(keywords[i]) : i \in DOMAIN keywords}
<1>1. keywords \in Lists
  BY DEF TypeOK
<1>2. /\ Len(keywords) \in Nat \ {0} /\ DOMAIN keywords = 1..Len(keywords)
      /\ \A i \in DOMAIN keywords : Len(keywords[i]) \in Nat
  BY <1>1, KeywordFacts
<1>3. S \subseteq Nat /\ S # {}
  <2>1. 1 \in DOMAIN keywords
    BY <1>2
  <2> QED BY <1>2, <2>1
<1>4. IsFiniteSet(S)
  <2> DEFINE f == [i \in DOMAIN keywords |-> Len(keywords[i])]
  <2>1. f \in Surjection(DOMAIN keywords, S)
    BY DEF Surjection
  <2>2. IsFiniteSet(DOMAIN keywords)
    <3>1. 1 \in Int /\ Len(keywords) \in Int
      BY <1>2
    <3> QED BY <1>2, <3>1, FS_Interval
  <2> HIDE DEF f, S
  <2> QED BY <2>1, <2>2, FS_Surjection
<1>5. Max(S) \in S /\ \A y \in S : Max(S) >= y
  <2> HIDE DEF S
  <2>1. S \subseteq Int
    BY <1>3
  <2> QED BY <1>3, <1>4, <2>1, FiniteMax
<1>6. Longest = Max(S)
  BY DEF Longest
<1>7. \A i \in DOMAIN keywords : Len(keywords[i]) \in S
  OBVIOUS
<1> HIDE DEF S
<1> QED BY <1>2, <1>3, <1>5, <1>6, <1>7

\* The window is the end of what it is cut from, of the length of the longest
\* keyword or shorter.
LEMMA WindowFacts ==
    ASSUME TypeOK, keywords # <<>>, NEW s \in Seq(Glyphs)
    PROVE  \E n \in 0..Len(s) :
              /\ Window(s) = Drop(s, n)
              /\ Len(s) - n = IF Len(s) >= Longest THEN Longest ELSE Len(s)
<1>1. Longest \in Nat /\ Len(s) \in Nat
  BY LongestFacts
<1>2. Window(s) = Drop(s, Max({0, Len(s) - Longest}))
  BY DEF Window, Longest
<1>3. Max({0, Len(s) - Longest}) = IF Len(s) - Longest >= 0 THEN Len(s) - Longest ELSE 0
  BY <1>1, Len(s) - Longest \in Int, MaxWithZero
<1>4. CASE Len(s) >= Longest
  <2>1. /\ Max({0, Len(s) - Longest}) = Len(s) - Longest
        /\ Len(s) - Longest \in 0..Len(s) /\ Len(s) - (Len(s) - Longest) = Longest
    BY <1>1, <1>3, <1>4
  <2> QED BY <1>2, <1>4, <2>1
<1>5. CASE ~(Len(s) >= Longest)
  <2>1. Max({0, Len(s) - Longest}) = 0 /\ 0 \in 0..Len(s) /\ Len(s) - 0 = Len(s)
    BY <1>1, <1>3, <1>5
  <2> QED BY <1>2, <1>5, <2>1
<1> QED BY <1>4, <1>5

\* What is on its way, in the states in which no chunk waits to be sent.
LEMMA WayFacts ==
    ASSUME TypeOK
    PROVE  /\ OnItsWay \in Seq(Glyphs) /\ Len(OnItsWay) \in Nat
           /\ stream # "send" => OnItsWay = forwarded \o received
           /\ stream = "send" => OnItsWay = (forwarded \o received) \o chunk
           /\ forwarded \o received \in Seq(Glyphs)
<1>1. /\ chunk \in Seq(Glyphs) /\ received \in Seq(Glyphs) /\ forwarded \in Seq(Glyphs)
  BY StateFacts
<1>2. forwarded \o received \in Seq(Glyphs)
  BY <1>1, ConcatProperties
<1>3. stream # "send" => OnItsWay = (forwarded \o received) \o <<>>
  BY DEF OnItsWay
<1>4. (forwarded \o received) \o <<>> = forwarded \o received
  BY <1>2, ConcatEmptySeq
<1>5. stream = "send" => OnItsWay = (forwarded \o received) \o chunk
  BY DEF OnItsWay
<1>6. OnItsWay \in Seq(Glyphs)
  BY <1>1, <1>2, <1>3, <1>4, <1>5, ConcatProperties
<1> QED BY <1>2, <1>3, <1>4, <1>5, <1>6, LenProperties

------------------------------------------------------------------------------
\* Steps that hand nothing over: what is handled and what is on its way stay.

SameView ==
    /\ UNCHANGED <<text, said, keywords, lastTokens, printOutput>>
    /\ Seen' = Seen /\ OnItsWay' = OnItsWay

LEMMA ViewStep ==
    ASSUME IInv, SameView
    PROVE  /\ WindowInv' /\ Piece(OnItsWay, text, Start)' /\ AfterKeyword'
           /\ (~printOutput => OnItsWay = <<>>)'
           /\ (keywords = <<>> => said = 0 /\ ~printOutput)'
           /\ alone' = alone /\ defaults' = defaults /\ NoKeywordEndsInSpace => HeardInv'
<1>1. /\ text' = text /\ said' = said /\ keywords' = keywords /\ lastTokens' = lastTokens
      /\ printOutput' = printOutput /\ Seen' = Seen /\ OnItsWay' = OnItsWay
  BY DEF SameView
<1>2. Start' = Start /\ Longest' = Longest
  BY <1>1 DEF Start, Longest
<1>3. WindowInv'
  BY <1>1, <1>2 DEF IInv, WindowInv, Piece
<1>4. /\ Piece(OnItsWay, text, Start)'
      /\ (~printOutput => OnItsWay = <<>>)'
      /\ (keywords = <<>> => said = 0 /\ ~printOutput)'
  BY <1>1, <1>2 DEF IInv, WayInv, Piece
<1>5. AfterKeyword'
  BY <1>1, <1>2 DEF IInv, AfterKeyword, EndsAt
<1>6. alone' = alone /\ defaults' = defaults /\ NoKeywordEndsInSpace => HeardInv'
  BY <1>1, <1>2 DEF IInv, HeardInv, HeardAt, EndsAt
<1> QED BY <1>3, <1>4, <1>5, <1>6

\* A new handler has handled nothing.
LEMMA NewHandlerStep ==
    ASSUME IInv, NewHandler
    PROVE  IInv'
<1>1. PICK l \in Lists : defaults' = l /\ keywords' = l
  BY DEF NewHandler, IInv, TypeOK
<1>2. /\ UNCHANGED <<others, alone, text, said, lastTokens, keywordDetected, printOutput>>
      /\ UNCHANGED <<stream, chunk, reader, received, forwarded>>
      /\ keywords = <<>>
  BY DEF NewHandler
<1>3. /\ l # <<>> /\ \A i \in DOMAIN l : Len(l[i]) \in Nat \ {0}
  BY KeywordFacts
<1>4. /\ said = 0 /\ ~printOutput /\ stream # "handle" /\ Seen = 0
  BY <1>2 DEF IInv, TypeOK, WayInv, Seen
<1>5. Seen' = Seen /\ OnItsWay' = OnItsWay /\ Start' = Start
  BY <1>2 DEF Seen, OnItsWay, Start
<1>6. TypeOK'
  <2>1. {lastTokens, chunk, received, forwarded}' = {lastTokens, chunk, received, forwarded}
    BY <1>2
  <2> QED BY <1>1, <1>2, <1>3, <1>4, <2>1 DEF IInv, TypeOK
<1>7. WindowInv'
  <2>1. Piece(lastTokens, text, Seen - Len(lastTokens)) /\ Len(lastTokens) \in Nat
    BY StateFacts DEF IInv, WindowInv
  <2>2. Len(lastTokens) = 0
    BY <1>4, <2>1 DEF Piece
  <2> QED BY <1>2, <1>4, <1>5, <2>1, <2>2 DEF WindowInv, Piece
<1>8. ChunkInv' /\ WayInv'
  BY <1>1, <1>2, <1>3, <1>4, <1>5 DEF IInv, ChunkInv, WayInv, Piece
<1>9. AfterKeyword'
  BY <1>2, <1>4 DEF AfterKeyword
<1>10. HeardInv'
  <2>1. ASSUME NEW e \in 0..0, HeardAt(text, l, e) PROVE FALSE
    BY <1>3, <2>1 DEF HeardAt, EndsAt
  <2>2. \A e \in 0..Seen' : ~HeardAt(text', keywords', e)
    BY <1>1, <1>2, <1>4, <1>5, <2>1
  <2> QED BY <1>1, <1>2, <1>4, <2>2 DEF HeardInv, HeardAt, EndsAt
<1> QED BY <1>6, <1>7, <1>8, <1>9, <1>10 DEF IInv

\* Another handler may replace the list; then this one is no longer alone.
LEMMA NewOtherStep ==
    ASSUME IInv, NewOther
    PROVE  IInv'
<1>1. /\ others' = others + 1 /\ others < MaxOthers /\ defaults' \in Lists
      /\ alone' = (alone /\ keywords \in {<<>>, defaults'})
      /\ UNCHANGED <<keywords, lastTokens, keywordDetected, printOutput, text, said>>
      /\ UNCHANGED <<stream, chunk, reader, received, forwarded>>
  BY DEF NewOther, handler
<1>2. SameView
  BY <1>1 DEF SameView, Seen, OnItsWay
<1>3. TypeOK'
  <2>1. {lastTokens, chunk, received, forwarded}' = {lastTokens, chunk, received, forwarded}
    BY <1>1
  <2>2. others' \in 0..MaxOthers /\ alone' \in BOOLEAN
    <3>1. others \in 0..MaxOthers /\ MaxOthers \in Nat
      BY TextsAssumption DEF IInv, TypeOK
    <3>2. others' \in 0..MaxOthers
      BY <1>1, <3>1
    <3>3. alone' \in BOOLEAN
      BY <1>1, Zenon
    <3> QED BY <3>2, <3>3
  <2> QED BY <1>1, <2>1, <2>2 DEF IInv, TypeOK
<1>4. ChunkInv' /\ WayInv'
  BY <1>1, <1>2, ViewStep DEF IInv, ChunkInv, WayInv, Piece
<1>5. ASSUME NoKeywordEndsInSpace PROVE HeardInv'
  <2>1. SUFFICES ASSUME alone' PROVE HeardInv'
    BY DEF HeardInv
  <2>2. alone /\ keywords \in {<<>>, defaults'}
    BY <1>1, <2>1
  <2>3. HeardInv
    BY <1>5 DEF IInv
  <2>4. Seen' = Seen /\ Start' = Start
    BY <1>2 DEF SameView, Start
  <2> QED BY <1>1, <2>2, <2>3, <2>4 DEF HeardInv, HeardAt, EndsAt
<1> QED BY <1>2, <1>3, <1>4, <1>5, ViewStep DEF IInv

\* The next chunk is what comes next in the text.
LEMMA NextChunkStep ==
    ASSUME IInv, NextChunk
    PROVE  IInv'
<1>1. PICK n \in 1..MaxChunk : /\ said + n <= Len(text)
                               /\ chunk' = SubSeq(text, said + 1, said + n)
                               /\ said' = said + n
  BY DEF NextChunk
<1>2. /\ stream = "idle" /\ stream' = "handle" /\ keywords # <<>>
      /\ UNCHANGED <<defaults, others, alone, keywords, lastTokens, keywordDetected, printOutput>>
      /\ UNCHANGED <<text, reader, received, forwarded>>
  BY DEF NextChunk, handler
<1>3. text \in Seq(Glyphs) /\ Len(text) \in Nat /\ said \in Nat /\ n \in Nat
  BY StateFacts, TextsAssumption DEF IInv
<1>4. /\ chunk' \in Seq(Glyphs) /\ Len(chunk') = n
      /\ \A i \in 1..n : chunk'[i] = text[said + i]
  <2>1. \A i \in (said + 1)..(said + n) : text[i] \in Glyphs
    BY <1>1, <1>3, SeqFacts
  <2>2. /\ SubSeq(text, said + 1, said + n) \in Seq(Glyphs)
        /\ Len(SubSeq(text, said + 1, said + n)) =
              IF said + 1 <= said + n THEN (said + n) - (said + 1) + 1 ELSE 0
        /\ \A i \in 1..((said + n) - (said + 1) + 1) :
              SubSeq(text, said + 1, said + n)[i] = text[said + 1 + i - 1]
    BY <1>3, <2>1, said + 1 \in Int, said + n \in Int, SubSeqProperties
  <2>3. said + 1 <= said + n /\ (said + n) - (said + 1) + 1 = n
    BY <1>3
  <2>4. \A i \in 1..n : said + 1 + i - 1 = said + i
    BY <1>3
  <2> QED BY <1>1, <2>2, <2>3, <2>4
<1>5. Seen' = Seen /\ Seen = said /\ OnItsWay' = OnItsWay
  BY <1>1, <1>2, <1>3, <1>4 DEF Seen, OnItsWay
<1>6. Piece(chunk', text', said' - Len(chunk'))
  <2>1. said' - Len(chunk') = said
    BY <1>1, <1>3, <1>4
  <2> QED BY <1>1, <1>2, <1>3, <1>4, <2>1 DEF Piece
<1>7. TypeOK'
  <2>1. {lastTokens, chunk, received, forwarded}' \subseteq Seq(Glyphs)
    BY <1>2, <1>4 DEF IInv, TypeOK
  <2>2. said' \in 0..Len(text')
    BY <1>1, <1>2, <1>3
  <2> QED BY <1>2, <2>1, <2>2 DEF IInv, TypeOK
<1>8. Start' = Start /\ Longest' = Longest
  BY <1>2, <1>5 DEF Start, Longest
<1>9. WindowInv' /\ WayInv'
  BY <1>2, <1>5, <1>8 DEF IInv, WindowInv, WayInv, Piece
<1>10. AfterKeyword'
  BY <1>2, <1>5, <1>8 DEF IInv, AfterKeyword, EndsAt
<1>11. NoKeywordEndsInSpace => HeardInv'
  BY <1>2, <1>5, <1>8 DEF IInv, HeardInv, HeardAt, EndsAt
<1>12. ChunkInv'
  BY <1>6 DEF ChunkInv
<1> QED BY <1>7, <1>9, <1>10, <1>11, <1>12 DEF IInv

\* The channel and the callback pass on what they were given.
LEMMA PassStep ==
    ASSUME IInv, SendOnEgress \/ StreamEnds \/ ReadFromEgress \/ Callback \/ UNCHANGED vars
    PROVE  IInv'
<1>1. /\ UNCHANGED <<defaults, others, alone, keywords, lastTokens, keywordDetected, printOutput>>
      /\ UNCHANGED <<text, said>>
  BY DEF SendOnEgress, StreamEnds, ReadFromEgress, Callback, handler, vars
<1>2. /\ chunk \in Seq(Glyphs) /\ received \in Seq(Glyphs) /\ forwarded \in Seq(Glyphs)
      /\ <<>> \in Seq(Glyphs) /\ forwarded \o received \in Seq(Glyphs)
  BY StateFacts, WayFacts, EmptySeq DEF IInv
<1>3. TypeOK' /\ ChunkInv' /\ (reader # "callback" => received = <<>>)'
      /\ Seen' = Seen /\ OnItsWay' = OnItsWay
  <2>1. CASE SendOnEgress
    <3>1. /\ stream = "send" /\ reader = "receive" /\ received' = chunk /\ reader' = "callback"
          /\ stream' = "idle" /\ chunk' = <<>> /\ forwarded' = forwarded
      BY <2>1 DEF SendOnEgress
    <3>2. received = <<>>
      BY <3>1 DEF IInv, WayInv
    <3>3. OnItsWay = forwarded \o chunk
      <4>1. OnItsWay = (forwarded \o <<>>) \o chunk
        BY <3>1, <3>2, WayFacts DEF IInv
      <4>2. forwarded \o <<>> = forwarded
        BY <1>2, ConcatEmptySeq
      <4> QED BY <4>1, <4>2
    <3>4. {lastTokens, chunk, received, forwarded}' \subseteq Seq(Glyphs)
      BY <1>1, <1>2, <3>1 DEF IInv, TypeOK
    <3>5. TypeOK'
      BY <1>1, <3>1, <3>4 DEF IInv, TypeOK
    <3>6. OnItsWay' = OnItsWay
      <4>1. OnItsWay' = (forwarded \o chunk) \o <<>>
        BY <3>1 DEF OnItsWay
      <4>2. (forwarded \o chunk) \o <<>> = forwarded \o chunk
        BY <1>2, ConcatProperties, ConcatEmptySeq
      <4> QED BY <3>3, <4>1, <4>2
    <3>7. Seen' = Seen
      BY <1>1, <3>1 DEF Seen
    <3> QED BY <3>1, <3>5, <3>6, <3>7 DEF ChunkInv
  <2>2. CASE StreamEnds
    <3>1. /\ stream = "idle" /\ stream' = "ended"
          /\ UNCHANGED <<chunk, reader, received, forwarded>>
      BY <2>2 DEF StreamEnds
    <3>2. Seen' = Seen /\ OnItsWay' = OnItsWay /\ ChunkInv'
      BY <1>1, <3>1 DEF Seen, OnItsWay, ChunkInv
    <3>3. {lastTokens, chunk, received, forwarded}' = {lastTokens, chunk, received, forwarded}
      BY <1>1, <3>1
    <3>4. TypeOK'
      BY <1>1, <3>1, <3>3 DEF IInv, TypeOK
    <3> QED BY <3>1, <3>2, <3>4 DEF IInv, WayInv
  <2>3. CASE ReadFromEgress
    <3>1. /\ keywords # <<>> /\ reader = "not called" /\ reader' = "receive"
          /\ UNCHANGED <<stream, chunk, received, forwarded>>
      BY <2>3 DEF ReadFromEgress, handler
    <3>2. Seen' = Seen /\ OnItsWay' = OnItsWay /\ ChunkInv'
      BY <1>1, <3>1 DEF Seen, OnItsWay, ChunkInv, IInv, Piece
    <3>3. {lastTokens, chunk, received, forwarded}' = {lastTokens, chunk, received, forwarded}
      BY <1>1, <3>1
    <3>4. TypeOK'
      BY <1>1, <3>1, <3>3 DEF IInv, TypeOK
    <3> QED BY <3>1, <3>2, <3>4 DEF IInv, WayInv
  <2>4. CASE Callback
    <3>1. /\ reader = "callback" /\ reader' = "receive" /\ forwarded' = forwarded \o received
          /\ received' = <<>> /\ UNCHANGED <<stream, chunk>>
      BY <2>4 DEF Callback
    <3>2. {lastTokens, chunk, received, forwarded}' \subseteq Seq(Glyphs)
      BY <1>1, <1>2, <3>1 DEF IInv, TypeOK
    <3>3. TypeOK'
      BY <1>1, <3>1, <3>2 DEF IInv, TypeOK
    <3>4. forwarded' \o received' = forwarded \o received
      <4>1. (forwarded \o received) \o <<>> = forwarded \o received
        BY <1>2, ConcatEmptySeq
      <4> QED BY <3>1, <4>1
    <3>5. OnItsWay' = OnItsWay
      BY <3>1, <3>4 DEF OnItsWay
    <3>6. Seen' = Seen /\ ChunkInv'
      BY <1>1, <3>1 DEF Seen, ChunkInv, IInv, Piece
    <3> QED BY <3>1, <3>3, <3>5, <3>6
  <2>5. CASE UNCHANGED vars
    <3>1. UNCHANGED <<stream, chunk, reader, received, forwarded>>
      BY <2>5 DEF vars
    <3>2. Seen' = Seen /\ OnItsWay' = OnItsWay /\ ChunkInv'
      BY <1>1, <3>1 DEF Seen, OnItsWay, ChunkInv, IInv, Piece
    <3>3. {lastTokens, chunk, received, forwarded}' = {lastTokens, chunk, received, forwarded}
      BY <1>1, <3>1
    <3>4. TypeOK'
      BY <1>1, <3>1, <3>3 DEF IInv, TypeOK
    <3> QED BY <3>1, <3>2, <3>4 DEF IInv, WayInv
  <2> QED BY <2>1, <2>2, <2>3, <2>4, <2>5
<1>4. SameView
  BY <1>1, <1>3 DEF SameView
<1>5. /\ WindowInv' /\ AfterKeyword' /\ WayInv'
      /\ NoKeywordEndsInSpace => HeardInv'
  BY <1>1, <1>3, <1>4, ViewStep DEF WayInv
<1> QED BY <1>3, <1>5 DEF IInv

------------------------------------------------------------------------------
\* The handler looks at a chunk.

Tokens == lastTokens \o chunk
Found == {i \in DOMAIN defaults : Occurs(Tokens, defaults[i])}

LEMMA HandleFacts ==
    ASSUME IInv, HandleStreamingFunc
    PROVE  /\ stream = "handle" /\ keywords # <<>> /\ lastTokens' = Window(Tokens)
           /\ UNCHANGED <<defaults, others, alone, keywords, text, said, reader, received, forwarded>>
           /\ \/ /\ printOutput /\ printOutput' = printOutput /\ keywordDetected' = keywordDetected
                 /\ chunk' = chunk /\ stream' = "send"
              \/ /\ ~printOutput /\ Found # {} /\ printOutput' = TRUE /\ keywordDetected' = TRUE
                 /\ chunk' = FilterFinalString(chunk, defaults[Max(Found)]) /\ stream' = "send"
              \/ /\ ~printOutput /\ Found = {} /\ printOutput' = FALSE /\ keywordDetected' = FALSE
                 /\ chunk' = <<>> /\ stream' = "idle"
<1>1. printOutput \in BOOLEAN /\ printOutput = keywordDetected
  BY DEF IInv, TypeOK
<1>2. /\ stream = "handle" /\ lastTokens' = Window(Tokens)
      /\ keywordDetected' = (keywordDetected \/ Found # {})
      /\ IF keywordDetected' /\ ~printOutput
           THEN printOutput' = TRUE /\ chunk' = FilterFinalString(chunk, defaults[Max(Found)])
           ELSE chunk' = (IF printOutput THEN chunk ELSE <<>>) /\ printOutput' = printOutput
      /\ stream' = IF printOutput' THEN "send" ELSE "idle"
      /\ UNCHANGED <<defaults, others, alone, keywords, text, said, reader, received, forwarded>>
  BY DEF HandleStreamingFunc, Tokens, Found
<1>3. keywords # <<>>
  BY <1>2 DEF IInv, TypeOK
<1>4. CASE printOutput
  <2>1. printOutput = TRUE /\ keywordDetected = TRUE
    BY <1>1, <1>4, Zenon
  <2>2. keywordDetected' = TRUE /\ printOutput' = TRUE /\ chunk' = chunk
    BY <1>2, <2>1
  <2> QED BY <1>2, <1>3, <2>1, <2>2
<1>5. CASE ~printOutput
  <2>1. printOutput = FALSE /\ keywordDetected = FALSE
    BY <1>1, <1>5, Zenon
  <2>2. keywordDetected' = (Found # {})
    BY <1>2, <2>1, Zenon
  <2>3. CASE Found # {}
    <3>1. keywordDetected' = TRUE
      BY <2>2, <2>3, Zenon
    <3> QED BY <1>2, <1>3, <2>1, <2>3, <3>1
  <2>4. CASE Found = {}
    <3>1. keywordDetected' = FALSE
      BY <2>2, <2>4, Zenon
    <3> QED BY <1>2, <1>3, <2>1, <2>4, <3>1
  <2> QED BY <2>3, <2>4
<1> QED BY <1>4, <1>5

\* The chunk and the window before it are one stretch of the text.
LEMMA TokensFacts ==
    ASSUME IInv, stream = "handle", keywords # <<>>
    PROVE  /\ Seen \in Nat /\ Seen + Len(chunk) = said /\ Len(chunk) \in Nat
           /\ Piece(chunk, text, Seen)
           /\ Len(lastTokens) \in Nat /\ Len(lastTokens) <= Seen
           /\ Len(lastTokens) \in {Seen, Longest}
           /\ Piece(Tokens, text, Seen - Len(lastTokens))
           /\ Len(Tokens) = Len(lastTokens) + Len(chunk)
           /\ Tokens \in Seq(Glyphs)
<1>1. /\ Len(lastTokens) \in Nat /\ Len(chunk) \in Nat /\ said \in Nat /\ text \in Seq(Glyphs)
  BY StateFacts DEF IInv
<1>2. Seen = said - Len(chunk) /\ Piece(chunk, text, said - Len(chunk))
  BY DEF IInv, ChunkInv, Seen
<1>3. Seen \in Nat /\ Seen + Len(chunk) = said
  BY <1>1, <1>2 DEF Piece
<1>4. /\ Piece(lastTokens, text, Seen - Len(lastTokens))
      /\ Len(lastTokens) \in {Seen, Longest}
  BY DEF IInv, WindowInv
<1>5. Seen - Len(lastTokens) \in Nat
  BY <1>4 DEF Piece
<1>6. (Seen - Len(lastTokens)) + Len(lastTokens) = Seen /\ Len(lastTokens) <= Seen
  BY <1>1, <1>3, <1>5
<1>7. Piece(Tokens, text, Seen - Len(lastTokens)) /\ Len(Tokens) = Len(lastTokens) + Len(chunk)
  <2>1. Piece(chunk, text, (Seen - Len(lastTokens)) + Len(lastTokens))
    BY <1>2, <1>6
  <2> QED BY <1>1, <1>4, <2>1, JoinPieces DEF Tokens
<1> QED BY <1>1, <1>2, <1>3, <1>4, <1>6, <1>7 DEF Piece

\* The window the chunk leaves.
LEMMA HandleWindow ==
    ASSUME IInv, HandleStreamingFunc
    PROVE  /\ lastTokens' \in Seq(Glyphs)
           /\ Piece(lastTokens', text, said - Len(lastTokens'))
           /\ Len(lastTokens') \in {said, Longest}
<1>1. stream = "handle" /\ keywords # <<>> /\ lastTokens' = Window(Tokens)
  BY HandleFacts
<1>2. /\ Seen \in Nat /\ Seen + Len(chunk) = said /\ Len(chunk) \in Nat
      /\ Len(lastTokens) \in Nat /\ Len(lastTokens) <= Seen
      /\ Len(lastTokens) \in {Seen, Longest}
      /\ Piece(Tokens, text, Seen - Len(lastTokens))
      /\ Len(Tokens) = Len(lastTokens) + Len(chunk)
      /\ Tokens \in Seq(Glyphs)
  BY <1>1, TokensFacts
<1>3. Longest \in Nat /\ text \in Seq(Glyphs)
  BY <1>1, LongestFacts, StateFacts DEF IInv
<1>4. PICK n \in 0..Len(Tokens) :
           /\ Window(Tokens) = Drop(Tokens, n)
           /\ Len(Tokens) - n = IF Len(Tokens) >= Longest THEN Longest ELSE Len(Tokens)
  BY <1>1, <1>2, WindowFacts DEF IInv
<1>5. Piece(lastTokens', text, (Seen - Len(lastTokens)) + n) /\ Len(lastTokens') = Len(Tokens) - n
  <2>1. /\ Piece(Drop(Tokens, n), text, (Seen - Len(lastTokens)) + n)
        /\ Len(Drop(Tokens, n)) = Len(Tokens) - n
    BY <1>2, <1>3, DropPiece
  <2> QED BY <1>1, <1>4, <2>1
<1>6. (Seen - Len(lastTokens)) + n = said - Len(lastTokens')
  <2>1. Len(lastTokens') = (Len(lastTokens) + Len(chunk)) - n /\ n \in Nat
    BY <1>2, <1>4, <1>5
  <2> QED BY <1>2, <2>1
<1>7. Len(lastTokens') \in {said, Longest}
  <2>1. CASE Len(Tokens) >= Longest
    BY <1>4, <1>5, <2>1
  <2>2. CASE ~(Len(Tokens) >= Longest)
    <3>1. Len(lastTokens') = Len(Tokens)
      BY <1>4, <1>5, <2>2
    <3>2. Len(lastTokens) = Seen
      BY <1>2, <1>3, <2>2
    <3> QED BY <1>2, <3>1, <3>2
  <2> QED BY <2>1, <2>2
<1> QED BY <1>5, <1>6, <1>7 DEF Piece

\* A keyword of this handler that ends in the chunk is seen.
LEMMA EndIsFound ==
    ASSUME IInv, stream = "handle", keywords # <<>>, defaults = keywords,
           NEW e \in (Seen + 1)..said, HeardAt(text, keywords, e)
    PROVE  Found # {}
<1>1. PICK i \in DOMAIN keywords : EndsAt(text, keywords[i], e)
  BY DEF HeardAt
<1> DEFINE k == keywords[i]
           d == e - (Seen - Len(lastTokens))
<1>2. /\ Seen \in Nat /\ Seen + Len(chunk) = said /\ Len(chunk) \in Nat
      /\ Len(lastTokens) \in Nat /\ Len(lastTokens) <= Seen
      /\ Len(lastTokens) \in {Seen, Longest}
      /\ Piece(Tokens, text, Seen - Len(lastTokens))
      /\ Len(Tokens) = Len(lastTokens) + Len(chunk)
  BY TokensFacts
<1>3. k \in Seq(Glyphs) /\ Len(k) \in Nat /\ Len(k) <= Longest /\ Longest \in Nat
  BY KeywordFacts, LongestFacts DEF IInv, TypeOK
<1>4. Len(k) <= e
  BY <1>1 DEF EndsAt
<1>5. d \in Nat /\ d <= Len(Tokens) /\ Len(k) <= d /\ (Seen - Len(lastTokens)) + d = e
  <2>1. e \in Nat /\ e >= Seen + 1 /\ e <= Seen + Len(chunk)
    BY <1>2
  <2>2. CASE Len(lastTokens) = Seen
    BY <1>2, <1>3, <1>4, <2>1, <2>2
  <2>3. CASE Len(lastTokens) = Longest
    BY <1>2, <1>3, <1>4, <2>1, <2>3
  <2> QED BY <1>2, <2>2, <2>3
<1>6. text \in Seq(Glyphs)
  BY StateFacts DEF IInv
<1> HIDE DEF d, k
<1>7. EndsAt(text, k, (Seen - Len(lastTokens)) + d)
  BY <1>1, <1>5 DEF k
<1>8. d \in Ends(Tokens, k)
  BY <1>2, <1>3, <1>5, <1>6, <1>7, EndsOfPiece
<1> QED BY <1>8 DEF Found, Occurs, k

\* The keyword it is detected by, where it is, and where the output begins.
LEMMA DetectFacts ==
    ASSUME IInv, stream = "handle", keywords # <<>>, Found # {}
    PROVE  \E k \in Seq(Glyphs) \ {<<>>}, n \in 0..Len(chunk), e \in 0..said :
             /\ \E i \in DOMAIN defaults : k = defaults[i]
             /\ FilterFinalString(chunk, defaults[Max(Found)]) = Drop(chunk, n)
             /\ EndsAt(text, k, e)
             /\ \E c \in 0..said : EndsAt(text, k, c) /\ Seen + n >= c - Len(k)
             /\ e > Seen /\ text[e] # Space =>
                  \E c \in 0..said : EndsAt(text, k, c)
                                     /\ \A j \in (c + 1)..(Seen + n) : text[j] = Space
<1>0. defaults \in Lists /\ text \in Seq(Glyphs) /\ Len(text) \in Nat /\ said \in 0..Len(text)
  BY StateFacts DEF IInv, TypeOK
<1>1. PICK i \in Found : i = Max(Found)
  <2>1. Len(defaults) \in Nat /\ DOMAIN defaults = 1..Len(defaults)
    BY <1>0, KeywordFacts
  <2>2. Found \subseteq 1..Len(defaults)
    BY <2>1 DEF Found
  <2>3. 1 \in Int /\ Len(defaults) \in Int
    BY <2>1
  <2> QED BY <2>2, <2>3, BoundedMax
<1>2. /\ i \in DOMAIN defaults /\ defaults[i] \in Seq(Glyphs) \ {<<>>}
      /\ Len(defaults[i]) \in Nat \ {0} /\ Ends(Tokens, defaults[i]) # {}
  BY <1>0, <1>1, KeywordFacts DEF Found, Occurs
<1>3. PICK k \in Seq(Glyphs) \ {<<>>} : k = defaults[i]
  BY <1>2
<1>4. /\ Seen \in Nat /\ Seen + Len(chunk) = said /\ Len(chunk) \in Nat
      /\ Piece(chunk, text, Seen)
      /\ Len(lastTokens) \in Nat /\ Len(lastTokens) <= Seen
      /\ Piece(Tokens, text, Seen - Len(lastTokens))
      /\ Len(Tokens) = Len(lastTokens) + Len(chunk) /\ Tokens \in Seq(Glyphs)
  BY TokensFacts
<1>5. chunk \in Seq(Glyphs) /\ \A j \in 1..Len(chunk) : chunk[j] = text[Seen + j]
  BY <1>4 DEF Piece
<1>6. PICK n \in 0..Len(chunk) :
         /\ FilterFinalString(chunk, k) = Drop(chunk, n)
         /\ Ends(chunk, k) # {} => \E c \in Ends(chunk, k) : n >= c - Len(k)
         /\ \A d \in 1..Len(chunk) : chunk[d] # Space =>
              \E c \in Ends(chunk, k) \cup {d} : \A j \in (c + 1)..n : chunk[j] = Space
  BY <1>5, FilterFacts
<1>7. PICK e0 \in Ends(Tokens, k) : TRUE
  BY <1>2, <1>3
<1>8. e0 \in Nat /\ e0 <= Len(Tokens) /\ Len(k) \in Nat \ {0} /\ Len(k) <= e0
  BY <1>2, <1>3, <1>4, <1>7 DEF Ends
<1>9. PICK e \in Nat : e = (Seen - Len(lastTokens)) + e0
  <2>1. (Seen - Len(lastTokens)) + e0 \in Nat
    BY <1>4, <1>8
  <2> QED BY <2>1
<1>10. EndsAt(text, k, e) /\ e \in 0..said
  <2>1. EndsAt(text, k, (Seen - Len(lastTokens)) + e0)
    BY <1>0, <1>4, <1>7, <1>8, EndsOfPiece
  <2>2. e <= said
    BY <1>4, <1>8, <1>9
  <2> QED BY <1>0, <1>9, <2>1, <2>2
\* An end in the chunk is one in the text.
<1>11. ASSUME NEW c \in Ends(chunk, k)
       PROVE  c \in Nat /\ Seen + c \in 0..said /\ EndsAt(text, k, Seen + c)
  <2>1. c \in Nat /\ c <= Len(chunk)
    BY <1>5, <1>8 DEF Ends
  <2>2. EndsAt(text, k, Seen + c)
    BY <1>0, <1>4, <2>1, EndsOfPiece
  <2> QED BY <1>0, <1>4, <2>1, <2>2
<1>12. \E c \in 0..said : EndsAt(text, k, c) /\ Seen + n >= c - Len(k)
  <2>1. CASE Ends(chunk, k) # {}
    <3>1. PICK c \in Ends(chunk, k) : n >= c - Len(k)
      BY <1>6, <2>1
    <3>2. c \in Nat /\ Seen + c \in 0..said /\ EndsAt(text, k, Seen + c)
      BY <1>11
    <3>3. Seen + n >= (Seen + c) - Len(k)
      BY <1>4, <1>8, <3>1, <3>2
    <3> QED BY <3>2, <3>3
  <2>2. CASE Ends(chunk, k) = {}
    <3>1. Seen >= e - Len(k)
      <4>1. CASE e - Len(k) > Seen
        <5>1. e - Seen \in Nat /\ e - Seen <= Len(chunk) /\ Len(k) <= e - Seen /\ Seen + (e - Seen) = e
          BY <1>4, <1>8, <1>10, <4>1
        <5>2. EndsAt(text, k, Seen + (e - Seen))
          BY <1>10, <5>1
        <5>3. e - Seen \in Ends(chunk, k)
          BY <1>0, <1>4, <5>1, <5>2, EndsOfPiece
        <5> QED BY <2>2, <5>3
      <4> QED BY <1>4, <1>8, <1>10, <4>1
    <3>2. Seen + n >= e - Len(k)
      BY <1>4, <1>8, <1>10, <3>1
    <3> QED BY <1>10, <3>2
  <2> QED BY <2>1, <2>2
<1>13. ASSUME e > Seen, text[e] # Space
       PROVE  \E c \in 0..said : /\ EndsAt(text, k, c)
                                 /\ \A j \in (c + 1)..(Seen + n) : text[j] = Space
  <2>1. e - Seen \in 1..Len(chunk) /\ Seen + (e - Seen) = e
    BY <1>4, <1>10, <1>13
  <2>2. chunk[e - Seen] # Space
    BY <1>5, <1>13, <2>1
  <2>3. PICK c \in Ends(chunk, k) \cup {e - Seen} : \A j \in (c + 1)..n : chunk[j] = Space
    BY <1>6, <2>1, <2>2
  <2>4. c \in Nat /\ Seen + c \in 0..said /\ EndsAt(text, k, Seen + c)
    BY <1>10, <1>11, <2>1, <2>3
  <2>5. ASSUME NEW j \in ((Seen + c) + 1)..(Seen + n)
        PROVE  text[j] = Space
    <3>1. j - Seen \in (c + 1)..n /\ j - Seen \in 1..Len(chunk) /\ Seen + (j - Seen) = j
      BY <1>4, <2>4
    <3> QED BY <1>5, <2>3, <3>1
  <2> QED BY <2>4, <2>5
<1>14. FilterFinalString(chunk, defaults[Max(Found)]) = Drop(chunk, n)
  BY <1>1, <1>3, <1>6
<1>15. \E x \in DOMAIN defaults : k = defaults[x]
  BY <1>2, <1>3
<1> QED BY <1>10, <1>12, <1>13, <1>14, <1>15

LEMMA HandleStep ==
    ASSUME IInv, HandleStreamingFunc
    PROVE  IInv'
<1>1. /\ stream = "handle" /\ keywords # <<>>
      /\ UNCHANGED <<defaults, others, alone, keywords, text, said, reader, received, forwarded>>
      /\ stream' \in {"send", "idle"}
  BY HandleFacts
<1>2. /\ Seen \in Nat /\ Seen + Len(chunk) = said /\ Len(chunk) \in Nat /\ Piece(chunk, text, Seen)
  BY <1>1, TokensFacts
<1>3. /\ text \in Seq(Glyphs) /\ Len(text) \in Nat /\ said \in 0..Len(text) /\ said \in Nat
      /\ chunk \in Seq(Glyphs) /\ received \in Seq(Glyphs) /\ forwarded \in Seq(Glyphs)
  BY StateFacts DEF IInv
<1>4. Seen' = said /\ Longest' = Longest /\ Seen <= said
  BY <1>1, <1>2 DEF Seen, Longest
<1>5. /\ lastTokens' \in Seq(Glyphs) /\ WindowInv'
  BY <1>1, <1>4, HandleWindow DEF WindowInv, Piece
<1>6. /\ OnItsWay = forwarded \o received /\ OnItsWay \in Seq(Glyphs) /\ Len(OnItsWay) \in Nat
      /\ forwarded \o received \in Seq(Glyphs)
  BY <1>1, WayFacts DEF IInv
<1>7. /\ Piece(OnItsWay, text, Start) /\ Start = Seen - Len(OnItsWay)
      /\ ~printOutput => OnItsWay = <<>>
      /\ reader # "callback" => received = <<>>
  BY DEF IInv, WayInv, Start
<1>8. ASSUME chunk' \in Seq(Glyphs), printOutput' = keywordDetected', printOutput' \in BOOLEAN,
             stream' = "send" => printOutput'
      PROVE  TypeOK'
  <2>1. {lastTokens, chunk, received, forwarded}' \subseteq Seq(Glyphs)
    BY <1>1, <1>3, <1>5, <1>8
  <2> QED BY <1>1, <1>8, <2>1 DEF IInv, TypeOK
<1>9. ChunkInv'
  BY <1>1 DEF ChunkInv
<1>10. CASE /\ printOutput /\ printOutput' = printOutput /\ keywordDetected' = keywordDetected
            /\ chunk' = chunk /\ stream' = "send"
  <2>1. OnItsWay' = OnItsWay \o chunk
    BY <1>1, <1>6, <1>10 DEF OnItsWay
  <2>2. /\ Piece(OnItsWay \o chunk, text, Start)
        /\ Len(OnItsWay \o chunk) = Len(OnItsWay) + Len(chunk)
    <3>1. Start + Len(OnItsWay) = Seen
      BY <1>2, <1>6, <1>7
    <3> QED BY <1>2, <1>3, <1>7, <3>1, JoinPieces
  <2>3. Start' = Start
    <3>1. Start' = said - (Len(OnItsWay) + Len(chunk))
      BY <1>4, <2>1, <2>2 DEF Start
    <3> QED BY <1>2, <1>6, <1>7, <3>1
  <2>4. WayInv'
    BY <1>1, <1>7, <1>10, <2>1, <2>2, <2>3 DEF WayInv, Piece
  <2>5. 0..Seen \subseteq 0..said
    BY <1>2, <1>3, <1>4
  <2>6. AfterKeyword'
    <3>0. PICK l \in Lists : \E i \in DOMAIN l : \E e \in 0..Seen :
               EndsAt(text, l[i], e) /\ Start >= e - Len(l[i])
      BY <1>10 DEF IInv, AfterKeyword
    <3>1. PICK i \in DOMAIN l : \E e \in 0..Seen :
               EndsAt(text, l[i], e) /\ Start >= e - Len(l[i])
      BY <3>0
    <3>2. PICK e \in 0..Seen : EndsAt(text, l[i], e) /\ Start >= e - Len(l[i])
      BY <3>1
    <3>3. e \in 0..Seen'
      BY <1>4, <2>5
    <3>4. EndsAt(text, l[i], e)' /\ Start' >= e - Len(l[i])
      BY <1>1, <2>3, <3>2 DEF EndsAt
    <3> QED BY <3>3, <3>4 DEF AfterKeyword, EndsAt
  <2>7. ASSUME NoKeywordEndsInSpace, alone PROVE HeardInv'
    <3>1. PICK e \in 0..Seen : /\ HeardAt(text, keywords, e)
                               /\ \A j \in (e + 1)..Start : text[j] = Space
      BY <1>10, <2>7 DEF IInv, HeardInv
    <3>2. e \in 0..Seen' /\ HeardAt(text', keywords', e)
      BY <1>1, <1>4, <2>5, <3>1
    <3>3. defaults' = keywords'
      BY <1>1, <2>7 DEF IInv, HeardInv
    <3>4. printOutput'
      BY <1>10
    <3> QED BY <1>1, <2>3, <3>1, <3>2, <3>3, <3>4 DEF HeardInv, HeardAt, EndsAt
  <2>8. TypeOK'
    BY <1>3, <1>8, <1>10 DEF IInv, TypeOK
  <2>9. NoKeywordEndsInSpace => HeardInv'
    BY <1>1, <2>7 DEF HeardInv
  <2> QED BY <1>5, <1>9, <2>4, <2>6, <2>8, <2>9 DEF IInv
<1>11. CASE /\ ~printOutput /\ Found # {} /\ printOutput' = TRUE /\ keywordDetected' = TRUE
            /\ chunk' = FilterFinalString(chunk, defaults[Max(Found)]) /\ stream' = "send"
  <2>1. PICK k \in Seq(Glyphs) \ {<<>>}, n \in 0..Len(chunk), e \in 0..said :
             /\ \E i \in DOMAIN defaults : k = defaults[i]
             /\ chunk' = Drop(chunk, n)
             /\ EndsAt(text, k, e)
             /\ \E c \in 0..said : EndsAt(text, k, c) /\ Seen + n >= c - Len(k)
             /\ e > Seen /\ text[e] # Space =>
                  \E c \in 0..said : EndsAt(text, k, c)
                                     /\ \A j \in (c + 1)..(Seen + n) : text[j] = Space
    BY <1>1, <1>11, DetectFacts
  <2>2. PICK i \in DOMAIN defaults : k = defaults[i]
    BY <2>1
  <2>3. /\ Piece(Drop(chunk, n), text, Seen + n) /\ Len(Drop(chunk, n)) = Len(chunk) - n
        /\ Drop(chunk, n) \in Seq(Glyphs)
    <3>1. /\ Piece(Drop(chunk, n), text, Seen + n)
          /\ Len(Drop(chunk, n)) = Len(chunk) - n
      BY <1>2, <1>3, DropPiece
    <3> QED BY <3>1 DEF Piece
  <2>4. OnItsWay' = Drop(chunk, n)
    <3>1. OnItsWay' = OnItsWay \o chunk'
      BY <1>1, <1>6, <1>11 DEF OnItsWay
    <3>2. OnItsWay = <<>>
      BY <1>7, <1>11
    <3>3. <<>> \o Drop(chunk, n) = Drop(chunk, n)
      BY <2>3, ConcatEmptySeq
    <3> QED BY <2>1, <3>1, <3>2, <3>3
  <2>5. Start' = Seen + n
    <3>1. Start' = said - (Len(chunk) - n)
      BY <1>4, <2>3, <2>4 DEF Start
    <3> QED BY <1>2, <3>1
  <2>6. WayInv'
    BY <1>1, <1>7, <1>11, <2>3, <2>4, <2>5 DEF WayInv, Piece
  <2>7. TypeOK'
    BY <1>8, <1>11, <2>1, <2>3
  <2>8. AfterKeyword'
    <3>1. PICK c \in 0..said : EndsAt(text, k, c) /\ Seen + n >= c - Len(k)
      BY <2>1
    <3>2. defaults \in Lists
      BY DEF IInv, TypeOK
    <3>3. c \in 0..Seen' /\ EndsAt(text', defaults[i], c) /\ Start' >= c - Len(defaults[i])
      BY <1>1, <1>4, <2>2, <2>5, <3>1
    <3> QED BY <2>2, <3>2, <3>3 DEF AfterKeyword, EndsAt
  <2>9. ASSUME NoKeywordEndsInSpace, alone PROVE HeardInv'
    <3>1. defaults = keywords /\ \A x \in 0..Seen : ~HeardAt(text, keywords, x)
      BY <1>1, <1>11, <2>9 DEF IInv, HeardInv
    <3>2. \A c : EndsAt(text, k, c) => HeardAt(text, keywords, c)
      BY <2>2, <3>1 DEF HeardAt
    <3>3. e > Seen
      BY <1>2, <2>1, <3>1, <3>2
    <3>4. text[e] # Space
      <4>1. Last(k) # Space
        BY <2>2, <2>9 DEF NoKeywordEndsInSpace, IInv, TypeOK
      <4>2. Len(k) \in Nat \ {0} /\ Last(k) = k[Len(k)]
        BY EmptySeq DEF Last
      <4>3. text[(e - Len(k)) + Len(k)] = k[Len(k)]
        <5>1. Len(k) \in 1..Len(k)
          BY <4>2
        <5>2. EndsAt(text, k, e)
          BY <2>1
        <5> QED BY <5>1, <5>2 DEF EndsAt
      <4>4. (e - Len(k)) + Len(k) = e
        BY <4>2
      <4> QED BY <4>1, <4>2, <4>3, <4>4
    <3>5. PICK c \in 0..said : /\ EndsAt(text, k, c)
                               /\ \A j \in (c + 1)..(Seen + n) : text[j] = Space
      BY <2>1, <3>3, <3>4
    <3>6. c \in 0..Seen' /\ HeardAt(text', keywords', c)
      BY <1>1, <1>4, <3>2, <3>5
    <3>7. \A j \in (c + 1)..Start' : text'[j] = Space
      BY <1>1, <2>5, <3>5
    <3> QED BY <1>1, <1>11, <3>1, <3>6, <3>7 DEF HeardInv, HeardAt, EndsAt
  <2>10. NoKeywordEndsInSpace => HeardInv'
    BY <1>1, <2>9 DEF HeardInv
  <2> QED BY <1>5, <1>9, <2>6, <2>7, <2>8, <2>10 DEF IInv
<1>12. CASE /\ ~printOutput /\ Found = {} /\ printOutput' = FALSE /\ keywordDetected' = FALSE
            /\ chunk' = <<>> /\ stream' = "idle"
  <2>1. OnItsWay' = <<>>
    <3>1. OnItsWay' = OnItsWay \o <<>>
      BY <1>1, <1>6, <1>12 DEF OnItsWay
    <3>2. OnItsWay = <<>> /\ <<>> \o <<>> = <<>>
      BY <1>6, <1>7, <1>12, ConcatEmptySeq
    <3> QED BY <3>1, <3>2
  <2>2. WayInv'
    <3>1. Start' = said
      BY <1>3, <1>4, <2>1 DEF Start
    <3>2. Piece(<<>>, text, said)
      BY <1>3, EmptyPiece
    <3> QED BY <1>1, <1>7, <1>12, <2>1, <3>1, <3>2 DEF WayInv, Piece
  <2>3. TypeOK'
    BY <1>8, <1>12, EmptySeq
  <2>4. AfterKeyword'
    BY <1>12 DEF AfterKeyword
  <2>5. ASSUME NoKeywordEndsInSpace, alone PROVE HeardInv'
    <3>1. defaults = keywords /\ \A x \in 0..Seen : ~HeardAt(text, keywords, x)
      BY <1>1, <1>12, <2>5 DEF IInv, HeardInv
    <3>2. ASSUME NEW e \in 0..said, HeardAt(text, keywords, e) PROVE FALSE
      <4>1. e \in (Seen + 1)..said
        BY <1>2, <1>3, <3>1, <3>2
      <4> QED BY <1>1, <1>12, <3>1, <3>2, <4>1, EndIsFound
    <3>3. \A e \in 0..Seen' : ~HeardAt(text', keywords', e)
      BY <1>1, <1>4, <3>2
    <3> QED BY <1>1, <1>12, <3>1, <3>3 DEF HeardInv, HeardAt, EndsAt
  <2>6. NoKeywordEndsInSpace => HeardInv'
    BY <1>1, <2>5 DEF HeardInv
  <2> QED BY <1>5, <1>9, <2>2, <2>3, <2>4, <2>6 DEF IInv
<1> QED BY <1>10, <1>11, <1>12, HandleFacts

------------------------------------------------------------------------------
\* The theorems.

LEMMA InitIInv == Init => IInv
<1> SUFFICES ASSUME Init PROVE IInv
  OBVIOUS
<1>1. /\ defaults = DefaultKeywords /\ others = 0 /\ keywords = <<>> /\ alone = TRUE
      /\ text \in Texts /\ said = 0 /\ lastTokens = <<>>
      /\ keywordDetected = FALSE /\ printOutput = FALSE
      /\ stream = "idle" /\ chunk = <<>> /\ reader = "not called"
      /\ received = <<>> /\ forwarded = <<>>
  BY DEF Init
<1>2. text \in Seq(Glyphs) /\ Len(text) \in Nat
  <2>1. text \in Seq(Glyphs)
    BY <1>1, TextsAssumption
  <2> QED BY <2>1, LenProperties
<1>3. <<>> \in Seq(Glyphs) /\ Len(<<>>) = 0
  BY EmptyList
<1>4. TypeOK
  <2>1. defaults \in Lists /\ keywords \in Lists \cup {<<>>}
    BY <1>1, TextsAssumption
  <2>2. others \in 0..MaxOthers
    <3>1. MaxOthers \in Nat
      BY TextsAssumption
    <3>2. others = 0
      BY <1>1
    <3> QED BY <3>1, <3>2
  <2>3. said \in 0..Len(text)
    <3>1. said = 0
      BY <1>1
    <3> QED BY <1>2, <3>1
  <2>4. {lastTokens, chunk, received, forwarded} \subseteq Seq(Glyphs)
    BY <1>1, <1>3
  <2> QED BY <1>1, <2>1, <2>2, <2>3, <2>4 DEF TypeOK
<1>5. OnItsWay = <<>>
  <2>1. <<>> \o <<>> = <<>>
    BY <1>3, ConcatEmptySeq
  <2> QED BY <1>1, <2>1 DEF OnItsWay
<1>6. Seen = 0
  BY <1>1 DEF Seen
<1>7. Start = 0
  <2>1. Len(OnItsWay) = 0
    BY <1>3, <1>5, Zenon
  <2> QED BY <1>6, <2>1 DEF Start
<1>8. Piece(<<>>, text, 0)
  BY <1>2, EmptyPiece
<1>9. ChunkInv /\ WayInv /\ AfterKeyword
  BY <1>1, <1>5, <1>7, <1>8 DEF ChunkInv, WayInv, AfterKeyword
<1>10. WindowInv
  <2>1. Len(lastTokens) = 0
    BY <1>1, <1>3, Zenon
  <2>2. Seen - Len(lastTokens) = 0
    BY <1>6, <2>1
  <2>3. Piece(lastTokens, text, 0) /\ keywords = <<>>
    BY <1>1, <1>8
  <2> QED BY <2>2, <2>3, Zenon DEF WindowInv
<1>11. HeardInv
  <2>1. DOMAIN keywords = {}
    BY <1>1, EmptyList
  <2>2. \A e : ~HeardAt(text, keywords, e)
    BY <2>1 DEF HeardAt
  <2> QED BY <1>1, <2>2 DEF HeardInv
<1> QED BY <1>4, <1>9, <1>10, <1>11 DEF IInv

LEMMA StepIInv == IInv /\ [Next]_vars => IInv'
<1> SUFFICES ASSUME IInv, [Next]_vars PROVE IInv'
  OBVIOUS
<1>1. CASE NewHandler
  BY <1>1, NewHandlerStep
<1>2. CASE NewOther
  BY <1>2, NewOtherStep
<1>3. CASE NextChunk
  BY <1>3, NextChunkStep
<1>4. CASE HandleStreamingFunc
  BY <1>4, HandleStep
<1>5. CASE SendOnEgress \/ StreamEnds \/ ReadFromEgress \/ Callback \/ UNCHANGED vars
  BY <1>5, PassStep
<1>6. Stopped => UNCHANGED vars
  BY DEF Stopped
<1> QED BY <1>1, <1>2, <1>3, <1>4, <1>5, <1>6 DEF Next, StreamStep

\* The inductive invariant of the handler, its channel and its reader, for any
\* text, cut into chunks anywhere, and any lists of keywords.
THEOREM Invariant == Spec => []IInv
  BY InitIInv, StepIInv, PTL DEF Spec

\* Every variable stays in its type: PrintOutput is set with KeywordDetected, and
\* a chunk is sent only after that.
THEOREM TypeCorrect == Spec => []TypeOK
<1>1. IInv => TypeOK
  BY DEF IInv
<1> QED BY <1>1, Invariant, PTL

LEMMA SuffixFacts ==
    ASSUME NEW t \in Seq(Glyphs), NEW s, Piece(s, t, Len(t) - Len(s))
    PROVE  IsSuffix(s, t)
<1>1. /\ s \in Seq(Glyphs) /\ Len(s) \in Nat /\ Len(t) \in Nat /\ Len(s) <= Len(t)
      /\ \A i \in 1..Len(s) : s[i] = t[(Len(t) - Len(s)) + i]
      /\ \A i \in 1..Len(t) : t[i] \in Glyphs
      /\ \A i \in 1..Len(s) : s[i] \in Glyphs
  BY DEF Piece
<1> DEFINE rs == Reverse(s)  rt == Reverse(t)
<1>2. /\ rs = [i \in 1..Len(s) |-> s[(Len(s) - i) + 1]]
      /\ rt = [i \in 1..Len(t) |-> t[(Len(t) - i) + 1]]
  BY DEF Reverse
<1>3. Len(rs) = Len(s) /\ Len(rt) = Len(t)
  BY <1>1, <1>2
<1>4. ASSUME NEW i \in 1..Len(s)
      PROVE  rs[i] = rt[i] /\ rs[i] \in Glyphs
  <2>1. (Len(s) - i) + 1 \in 1..Len(s) /\ i \in 1..Len(t)
        /\ (Len(t) - Len(s)) + ((Len(s) - i) + 1) = (Len(t) - i) + 1
    BY <1>1
  <2>2. rs[i] = s[(Len(s) - i) + 1] /\ rt[i] = t[(Len(t) - i) + 1]
    BY <1>2, <2>1
  <2> QED BY <1>1, <2>1, <2>2
<1> HIDE DEF rs, rt
<1>5. SubSeq(rs, 1, Len(s)) = SubSeq(rt, 1, Len(s))
  <2>1. /\ SubSeq(rs, 1, Len(s)) \in Seq(Glyphs)
        /\ Len(SubSeq(rs, 1, Len(s))) = IF 1 <= Len(s) THEN Len(s) - 1 + 1 ELSE 0
        /\ \A i \in 1..(Len(s) - 1 + 1) : SubSeq(rs, 1, Len(s))[i] = rs[1 + i - 1]
    BY <1>1, <1>4, SubSeqProperties
  <2>2. /\ SubSeq(rt, 1, Len(s)) \in Seq(Glyphs)
        /\ Len(SubSeq(rt, 1, Len(s))) = IF 1 <= Len(s) THEN Len(s) - 1 + 1 ELSE 0
        /\ \A i \in 1..(Len(s) - 1 + 1) : SubSeq(rt, 1, Len(s))[i] = rt[1 + i - 1]
    BY <1>1, <1>4, SubSeqProperties
  <2>3. (IF 1 <= Len(s) THEN Len(s) - 1 + 1 ELSE 0) = Len(s) /\ Len(s) - 1 + 1 = Len(s)
        /\ \A i \in 1..Len(s) : 1 + i - 1 = i
    BY <1>1
  <2>4. \A i \in 1..Len(s) : SubSeq(rs, 1, Len(s))[i] = SubSeq(rt, 1, Len(s))[i]
    BY <1>4, <2>1, <2>2, <2>3
  <2> QED BY <2>1, <2>2, <2>3, <2>4, SeqEqual
<1> QED BY <1>1, <1>3, <1>5 DEF IsSuffix, IsPrefix, rs, rt

\* What was handled, and the places of keywords in it.
LEMMA HandledFacts ==
    ASSUME IInv
    PROVE  /\ Seen \in Nat /\ Seen <= Len(text) /\ text \in Seq(Glyphs) /\ Len(text) \in Nat
           /\ Handled \in Seq(Glyphs) /\ Len(Handled) = Seen
           /\ \A i \in 1..Seen : Handled[i] = text[i]
           /\ Piece(OnItsWay, Handled, Seen - Len(OnItsWay))
           /\ OnItsWay \in Seq(Glyphs) /\ Len(OnItsWay) \in Nat /\ Len(OnItsWay) <= Seen
           /\ \A k \in Seq(Glyphs) : \A e \in Nat :
                e \in Ends(Handled, k) <=> e <= Seen /\ EndsAt(text, k, e)
<1>1. /\ text \in Seq(Glyphs) /\ Len(text) \in Nat /\ said \in 0..Len(text) /\ said \in Nat
      /\ Len(chunk) \in Nat /\ OnItsWay \in Seq(Glyphs) /\ Len(OnItsWay) \in Nat
  BY StateFacts, WayFacts DEF IInv
<1>2. Seen \in Nat /\ Seen <= Len(text)
  <2>1. CASE stream = "handle"
    <3>1. said - Len(chunk) \in Nat
      BY <2>1 DEF IInv, ChunkInv, Piece
    <3> QED BY <1>1, <2>1, <3>1 DEF Seen
  <2>2. CASE stream # "handle"
    BY <1>1, <2>2 DEF Seen
  <2> QED BY <2>1, <2>2
<1>3. Handled = SubSeq(text, 1, Seen)
  BY DEF Handled, Seen
<1>4. /\ Handled \in Seq(Glyphs) /\ Len(Handled) = Seen
      /\ \A i \in 1..Seen : Handled[i] = text[i]
  <2>1. \A i \in 1..Seen : text[i] \in Glyphs
    BY <1>1, <1>2
  <2>2. /\ SubSeq(text, 1, Seen) \in Seq(Glyphs)
        /\ Len(SubSeq(text, 1, Seen)) = IF 1 <= Seen THEN Seen - 1 + 1 ELSE 0
        /\ \A i \in 1..(Seen - 1 + 1) : SubSeq(text, 1, Seen)[i] = text[1 + i - 1]
    BY <1>2, <2>1, SubSeqProperties
  <2>3. (IF 1 <= Seen THEN Seen - 1 + 1 ELSE 0) = Seen /\ Seen - 1 + 1 = Seen
        /\ \A i \in 1..Seen : 1 + i - 1 = i
    BY <1>2
  <2> QED BY <1>3, <2>2, <2>3
<1>5. Piece(OnItsWay, text, Seen - Len(OnItsWay))
  BY DEF IInv, WayInv, Start
<1>6. Len(OnItsWay) <= Seen /\ Seen - Len(OnItsWay) \in Nat
  BY <1>1, <1>2, <1>5 DEF Piece
<1>7. Piece(OnItsWay, Handled, Seen - Len(OnItsWay))
  <2>1. ASSUME NEW i \in 1..Len(OnItsWay)
        PROVE  OnItsWay[i] = Handled[(Seen - Len(OnItsWay)) + i]
    <3>1. (Seen - Len(OnItsWay)) + i \in 1..Seen
      BY <1>1, <1>2, <1>6
    <3> QED BY <1>4, <1>5, <3>1 DEF Piece
  <2>2. (Seen - Len(OnItsWay)) + Len(OnItsWay) <= Len(Handled)
    BY <1>1, <1>2, <1>4
  <2> QED BY <1>1, <1>6, <2>1, <2>2 DEF Piece
<1>8. ASSUME NEW k \in Seq(Glyphs), NEW e \in Nat
      PROVE  e \in Ends(Handled, k) <=> e <= Seen /\ EndsAt(text, k, e)
  <2>1. Piece(Handled, text, 0)
    BY <1>1, <1>2, <1>4 DEF Piece
  <2>2. e \in Ends(Handled, k) <=> e <= Len(Handled) /\ Len(k) <= e /\ EndsAt(text, k, 0 + e)
    BY <1>1, <2>1, EndsOfPiece
  <2>3. EndsAt(text, k, e) => Len(k) <= e
    BY <1>1 DEF EndsAt
  <2>4. 0 + e = e
    OBVIOUS
  <2> QED BY <1>4, <2>2, <2>3, <2>4
<1> QED BY <1>1, <1>2, <1>4, <1>6, <1>7, <1>8

\* What ReadFromEgress's callback gets, with what is on its way to it, is the end
\* of what the model has said and does not begin before a keyword does, for any
\* cut into chunks and whatever other handlers do to the list of keywords.
THEOREM OnlyTheAnswer == Spec => []ForwardsTheRest
<1>1. ASSUME IInv, OnItsWay # <<>> PROVE IsSuffix(OnItsWay, Handled)
  BY <1>1, HandledFacts, SuffixFacts
<1>2. ASSUME IInv, OnItsWay # <<>>
      PROVE  \E p \in Places(Lists) : Len(Handled) - Len(OnItsWay) >= p[1] - p[2]
  <2>1. printOutput
    BY <1>2 DEF IInv, WayInv
  <2>2. PICK l \in Lists : \E i \in DOMAIN l : \E e \in 0..Seen :
             EndsAt(text, l[i], e) /\ Start >= e - Len(l[i])
    BY <1>2, <2>1 DEF IInv, AfterKeyword
  <2>3. PICK i \in DOMAIN l : \E e \in 0..Seen :
             EndsAt(text, l[i], e) /\ Start >= e - Len(l[i])
    BY <2>2
  <2>4. PICK e \in 0..Seen : EndsAt(text, l[i], e) /\ Start >= e - Len(l[i])
    BY <2>3
  <2>5. l[i] \in Seq(Glyphs)
    BY KeywordFacts
  <2>6. e \in Ends(Handled, l[i])
    <3>1. e \in Nat /\ e <= Seen
      BY <1>2, HandledFacts
    <3> QED BY <1>2, <2>4, <2>5, <3>1, HandledFacts
  <2>7. <<e, Len(l[i])>> \in Places(Lists)
    <3>1. l[i] \in UNION {ToSet(x) : x \in Lists}
      BY DEF ToSet
    <3> QED BY <2>6, <3>1 DEF Places
  <2>8. Len(Handled) - Len(OnItsWay) >= e - Len(l[i])
    BY <1>2, <2>4, HandledFacts DEF Start
  <2> QED BY <2>7, <2>8
<1>3. IInv => ForwardsTheRest
  BY <1>1, <1>2 DEF ForwardsTheRest
<1> QED BY <1>3, Invariant, PTL

\* While nobody replaces the package's list, the handler misses none of its
\* keywords, however they fall into chunks: all that follows the last one is on
\* its way.  A keyword that ends in a space is excepted, since a colon after it
\* is cut off as the keyword's own.
THEOREM NoKeywordMissed == Spec => [](NoKeywordEndsInSpace => KeywordHeard)
<1> DEFINE heard == {p[1] : p \in Places({keywords})}
<1>1. ASSUME IInv, NoKeywordEndsInSpace, alone, heard # {}
      PROVE  printOutput /\ IsSuffix(TrimLeft(Drop(Handled, Max(heard))), OnItsWay)
  <2>1. /\ Seen \in Nat /\ Handled \in Seq(Glyphs) /\ Len(Handled) = Seen
        /\ \A i \in 1..Seen : Handled[i] = text[i]
        /\ Piece(OnItsWay, Handled, Seen - Len(OnItsWay))
        /\ OnItsWay \in Seq(Glyphs) /\ Len(OnItsWay) \in Nat /\ Len(OnItsWay) <= Seen
        /\ \A k \in Seq(Glyphs) : \A e \in Nat :
             e \in Ends(Handled, k) <=> e <= Seen /\ EndsAt(text, k, e)
    BY <1>1, HandledFacts
  <2>2. \A e \in heard : \E k \in ToSet(keywords) : e \in Ends(Handled, k)
    BY DEF Places
  <2>3. \A k \in ToSet(keywords) : \A e \in Ends(Handled, k) : e \in heard
    <3>1. ASSUME NEW k \in ToSet(keywords), NEW e \in Ends(Handled, k) PROVE e \in heard
      <4>1. <<e, Len(k)>> \in Places({keywords})
        BY DEF Places
      <4> QED BY <4>1
    <3> QED BY <3>1
  <2>4. ToSet(keywords) = {keywords[i] : i \in DOMAIN keywords}
    BY DEF ToSet
  <2>5. keywords # <<>>
    <3>1. PICK e \in heard : TRUE
      BY <1>1
    <3>2. PICK k \in ToSet(keywords) : TRUE
      BY <2>2, <3>1
    <3>3. DOMAIN keywords # {}
      BY <2>4, <3>2
    <3> QED BY <3>3, EmptyList
  <2>6. \A i \in DOMAIN keywords : keywords[i] \in Seq(Glyphs) /\ Len(keywords[i]) \in Nat
    BY <1>1, <2>5, KeywordFacts DEF IInv, TypeOK
  <2> HIDE DEF heard
  <2>7. \A e \in heard : e \in 0..Seen /\ HeardAt(text, keywords, e)
    <3>1. ASSUME NEW e \in heard PROVE e \in 0..Seen /\ HeardAt(text, keywords, e)
      <4>1. PICK i \in DOMAIN keywords : e \in Ends(Handled, keywords[i])
        BY <2>2, <2>4
      <4>2. e \in Nat /\ e <= Seen
        BY <2>1, <2>6, <4>1 DEF Ends
      <4>3. EndsAt(text, keywords[i], e)
        BY <2>1, <2>6, <4>1, <4>2
      <4> QED BY <2>1, <4>2, <4>3 DEF HeardAt
    <3> QED BY <3>1
  <2>8. PICK m \in heard : m = Max(heard) /\ \A y \in heard : m >= y
    <3>1. heard \subseteq 0..Seen /\ 0 \in Int /\ Seen \in Int
      BY <2>1, <2>7
    <3> QED BY <1>1, <3>1, BoundedMax
  <2>9. printOutput
    BY <1>1, <2>7, <2>8 DEF IInv, HeardInv
  <2>10. PICK e \in 0..Seen : /\ HeardAt(text, keywords, e)
                              /\ \A j \in (e + 1)..Start : text[j] = Space
    BY <1>1, <2>9 DEF IInv, HeardInv
  <2>11. e <= m /\ m \in 0..Seen
    <3>1. PICK i \in DOMAIN keywords : EndsAt(text, keywords[i], e)
      BY <2>10 DEF HeardAt
    <3>2. e \in Nat /\ e <= Seen
      BY <2>1
    <3>3. e \in Ends(Handled, keywords[i])
      BY <2>1, <2>6, <3>1, <3>2
    <3>4. e \in heard
      BY <2>3, <2>4, <3>3
    <3> QED BY <2>7, <2>8, <3>2, <3>4
  <2>12. PICK n \in 0..(Seen - m) : /\ TrimLeft(Drop(Handled, m)) = Drop(Drop(Handled, m), n)
                                    /\ n < Seen - m => Drop(Handled, m)[n + 1] # Space
    <3>1. Drop(Handled, m) \in Seq(Glyphs) /\ Len(Drop(Handled, m)) = Seen - m
      BY <2>1, <2>11, DropFacts
    <3> QED BY <3>1, TrimFacts
  <2>13. m + n >= Start
    <3>1. CASE n = Seen - m
      BY <2>1, <2>11, <3>1 DEF Start
    <3>2. CASE n < Seen - m
      <4>1. n + 1 \in 1..(Seen - m) /\ m + (n + 1) \in 1..Seen /\ m + (n + 1) > e
        BY <2>1, <2>11, <3>2
      <4>2. Drop(Handled, m)[n + 1] = Handled[m + (n + 1)]
        BY <2>1, <2>11, <4>1, DropFacts
      <4>3. text[m + (n + 1)] # Space
        BY <2>1, <2>12, <3>2, <4>1, <4>2
      <4>4. Start \in Int
        BY <2>1 DEF Start
      <4>5. ~(m + (n + 1) <= Start)
        <5>1. m + (n + 1) <= Start => m + (n + 1) \in (e + 1)..Start
          BY <2>1, <2>11, <4>1, <4>4
        <5> QED BY <2>10, <4>3, <5>1
      <4> QED BY <2>1, <2>11, <4>4, <4>5
    <3> QED BY <2>1, <2>11, <3>1, <3>2
  <2>14. Drop(Drop(Handled, m), n) = Drop(Handled, m + n)
    BY <2>1, <2>11, DropDrop
  <2>15. IsSuffix(Drop(Handled, m + n), OnItsWay)
    <3>1. PICK o \in Nat : o = Seen - Len(OnItsWay)
      BY <2>1
    <3>2. m + n \in 0..Seen /\ m + n >= o
      BY <2>1, <2>11, <2>13, <3>1 DEF Start
    <3>3. /\ Drop(Handled, m + n) \in Seq(Glyphs) /\ Len(Drop(Handled, m + n)) = Seen - (m + n)
          /\ \A i \in 1..(Seen - (m + n)) : Drop(Handled, m + n)[i] = Handled[(m + n) + i]
      BY <2>1, <3>2, DropFacts
    <3>4. Len(OnItsWay) = Seen - o
      BY <2>1, <3>1
    <3>5. ASSUME NEW i \in 1..(Seen - (m + n))
          PROVE  Drop(Handled, m + n)[i] = OnItsWay[((m + n) - o) + i]
      <4>1. ((m + n) - o) + i \in 1..Len(OnItsWay) /\ o + (((m + n) - o) + i) = (m + n) + i
        <5>1. m \in Nat /\ n \in Nat /\ Seen \in Nat
          BY <2>1, <2>11
        <5>2. m + n <= Seen
          BY <3>2, <5>1
        <5>3. i \in Nat /\ i >= 1 /\ i <= Seen - (m + n)
          BY <5>1
        <5> QED BY <3>2, <3>4, <5>1, <5>2, <5>3
      <4>2. OnItsWay[((m + n) - o) + i] = Handled[o + (((m + n) - o) + i)]
        BY <2>1, <3>1, <4>1 DEF Piece
      <4> QED BY <3>3, <4>1, <4>2
    <3>6. /\ Len(OnItsWay) - Len(Drop(Handled, m + n)) = (m + n) - o
          /\ (m + n) - o \in Nat /\ ((m + n) - o) + (Seen - (m + n)) <= Len(OnItsWay)
      BY <2>1, <2>11, <3>2, <3>3, <3>4
    <3>7. Piece(Drop(Handled, m + n), OnItsWay, Len(OnItsWay) - Len(Drop(Handled, m + n)))
      BY <3>3, <3>5, <3>6 DEF Piece
    <3> QED BY <2>1, <3>7, SuffixFacts
  <2> QED BY <2>8, <2>9, <2>12, <2>14, <2>15
<1>2. IInv => (NoKeywordEndsInSpace => KeywordHeard)
  BY <1>1 DEF KeywordHeard
<1> QED BY <1>2, Invariant, PTL

==============================================================================
