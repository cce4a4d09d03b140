-------------------------- MODULE TextSplitterProofs --------------------------
(***************************************************************************)
(* Proofs about TextSplitter, for texts of every length, every list of     *)
(* separators, chunk size and overlap.                                     *)
(***************************************************************************)
EXTENDS TextSplitter, SequenceTheorems, TLAPS

Merging == pc \in {"merge", "pop"}

\* Each call of splitText is at the end of the split its callee was given, and
\* the outermost was given the whole text.
StackInv ==
    /\ stack[1].last = Atoms
    /\ \A i \in 1..Len(stack) : stack[i].next <= stack[i].last + 1
    /\ \A i \in 1..(Len(stack) - 1) : stack[i].next = stack[i+1].last + 1

\* goodSplits end at a separator of their call, and none of them is big.
GoodInv ==
    /\ from <= Top.next
    /\ from < Top.next /\ Top.next <= Top.last => text.gap[Top.next - 1] = Top.level
    /\ \A a, e \in 1..Atoms :
          from <= a /\ e < Top.next /\ IsSplit(a, e) => Length(a, e) < size
    /\ pc = "done" => from > Atoms

\* currentDoc is a row of good splits, and too long by a separator at most.
MergeInv ==
    Merging =>
        /\ from <= first /\ first <= at /\ at <= Top.next /\ from < Top.next
        /\ from < at /\ at <= Top.last => text.gap[at - 1] = Top.level
        /\ first < at /\ pc = "merge" => Length(first, at - 1) <= size + Sep
        /\ pc = "pop" => at < Top.next

\* The chunks are behind what is in hand, and those that reach into it are
\* trimmed: a chunk to come starts and ends no earlier.
Behind == IF Merging THEN at ELSE from
OrderInv ==
    /\ \A k \in 1..Len(chunks) :
          /\ chunks[k].from <= chunks[k].to /\ chunks[k].to < Behind
          /\ from <= chunks[k].to => ~Blank(chunks[k].to, chunks[k].to)
    /\ Merging => \A k \in 1..Len(chunks), f \in 1..Atoms :
          first <= f /\ ~Blank(f, f) => chunks[k].from <= f

\* What the last chunk shares with currentDoc is within the overlap.
OverlapInv ==
    pc = "merge" /\ chunks # <<>> =>
        LET last == chunks[Len(chunks)].to IN
        first <= last => Length(first, last) <= overlap

\* What is behind currentDoc is in a chunk, and once it was emitted, so is it.
Covered == CASE pc = "merge" -> first [] pc = "pop" -> at [] OTHER -> from
CoverInv ==
    \A a \in 1..Atoms :
        a < Covered /\ ~Blank(a, a) =>
            \E k \in 1..Len(chunks) : chunks[k].from <= a /\ a <= chunks[k].to

IInv == /\ TypeOK /\ StackInv /\ GoodInv /\ MergeInv /\ TotalIsLength
        /\ OrderInv /\ OverlapInv /\ CoverInv
        /\ ChunksFit /\ OverlapWithinLimit /\ InTextOrder

------------------------------------------------------------------------------
\* The text, the calls, and what changing the innermost one does.

LEMMA LastOrBefore ==
    ASSUME NEW n \in Nat, NEW i \in 1..n
    PROVE  i = n \/ (i \in 1..(n-1) /\ i + 1 \in 1..n)
  OBVIOUS

LEMMA LeaveLast ==
    ASSUME NEW n \in Nat, n # 0, n # 1
    PROVE  /\ n - 1 \in Int /\ 1 \in Int /\ 1 <= n - 1 /\ (n - 1) - 1 + 1 = n - 1
           /\ \A i \in 1..(n-1) : i \in 1..n /\ 1 + i - 1 = i
  OBVIOUS

LEMMA TextFacts ==
    ASSUME TypeOK
    PROVE  /\ Atoms \in Nat \ {0}
           /\ size \in Nat \ {0} /\ overlap \in Nat
           /\ \A a \in 1..Atoms : /\ text.start[a] \in Int /\ text.end[a] \in Int
                                  /\ text.start[a] <= text.end[a]
           /\ \A a, b \in 1..Atoms : a <= b => /\ text.start[a] <= text.start[b]
                                               /\ text.end[a] <= text.end[b]
           /\ \A g \in 1..(Atoms-1) :
                 /\ text.gap[g] \in 1..Len(text.sep)
                 /\ text.start[g+1] = text.end[g] + text.sep[text.gap[g]]
           /\ Len(text.sep) \in Nat \ {0}
           /\ \A s \in 1..Len(text.sep) : text.sep[s] \in Nat
<1>1. Atoms \in Nat \ {0} /\ size \in Nat \ {0} /\ overlap \in Nat
  BY TextAssumption DEF TypeOK
<1>2. text.start \in [1..Atoms -> Int] /\ text.end \in [1..Atoms -> Int]
  BY DEF TypeOK
<1>3. /\ \A a \in 1..Atoms : text.start[a] <= text.end[a]
      /\ \A a, b \in 1..Atoms : a <= b => /\ text.start[a] <= text.start[b]
                                          /\ text.end[a] <= text.end[b]
      /\ \A g \in 1..(Atoms-1) : text.start[g+1] = text.end[g] + text.sep[text.gap[g]]
  BY DEF TypeOK, IsText
<1>4. text.sep \in Seq(Nat) /\ text.sep # <<>>
  BY DEF TypeOK
<1>5. /\ Len(text.sep) \in Nat \ {0}
      /\ \A s \in 1..Len(text.sep) : text.sep[s] \in Nat
      /\ DOMAIN text.sep = 1..Len(text.sep)
  BY <1>4
<1>6. \A g \in 1..(Atoms-1) : text.gap[g] \in 1..Len(text.sep)
  BY <1>5 DEF TypeOK
<1> QED BY <1>1, <1>2, <1>3, <1>5, <1>6

LEMMA LengthFacts ==
    ASSUME TypeOK, NEW f \in 1..Atoms, NEW t \in 1..Atoms,
           NEW a \in 1..Atoms, NEW e \in 1..Atoms, f <= a, e <= t
    PROVE  /\ Length(f, t) \in Int /\ Length(a, e) \in Int
           /\ Length(a, e) <= Length(f, t)
<1>1. text.start[f] <= text.start[a] /\ text.end[e] <= text.end[t]
  BY TextFacts
<1>2. /\ text.start[f] \in Int /\ text.start[a] \in Int
      /\ text.end[e] \in Int /\ text.end[t] \in Int
  BY TextFacts
<1> QED BY <1>1, <1>2 DEF Length

LEMMA TopFacts ==
    ASSUME TypeOK
    PROVE  /\ Len(stack) \in Nat \ {0} /\ Top = stack[Len(stack)] /\ Top \in Calls
           /\ \A i \in 1..Len(stack) : stack[i] \in Calls
           /\ Top.level \in 1..Len(text.sep) /\ Top.rest \in 0..Len(text.sep)
           /\ Top.next \in 1..(Atoms+1) /\ Top.last \in 1..Atoms
           /\ Sep \in Nat
<1>1. Len(stack) \in Nat \ {0} /\ \A i \in 1..Len(stack) : stack[i] \in Calls
  BY DEF TypeOK
<1>2. Top \in Calls
  BY <1>1 DEF Top
<1>3. /\ Top.level \in 1..Len(text.sep) /\ Top.rest \in 0..Len(text.sep)
      /\ Top.next \in 1..(Atoms+1) /\ Top.last \in 1..Atoms
  BY <1>2 DEF Calls
<1> QED BY <1>1, <1>2, <1>3, TextFacts DEF Top, Sep

LEMMA AdvanceFacts ==
    ASSUME TypeOK, NEW e \in 1..Atoms
    PROVE  /\ Advance(e) \in Seq(Calls) \ {<<>>}
           /\ Len(Advance(e)) = Len(stack)
           /\ \A i \in 1..(Len(stack) - 1) : Advance(e)[i] = stack[i]
           /\ Advance(e)[Len(stack)] = [Top EXCEPT !.next = e + 1]
           /\ LET t == Advance(e)[Len(stack)] IN
              /\ t \in Calls /\ t.next = e + 1 /\ t.last = Top.last
              /\ t.level = Top.level /\ t.rest = Top.rest
<1> DEFINE t == [Top EXCEPT !.next = e + 1]
<1>1. /\ t \in Calls /\ t.next = e + 1 /\ t.last = Top.last
      /\ t.level = Top.level /\ t.rest = Top.rest
  <2>1. e + 1 \in 1..(Atoms+1)
    BY TextAssumption
  <2>2. Top \in Calls
    BY TopFacts
  <2> HIDE DEF Top
  <2> QED BY <2>1, <2>2 DEF Calls
<1>2. Advance(e) = [stack EXCEPT ![Len(stack)] = [Top EXCEPT !.next = e + 1]]
  BY DEF Advance, Top
<1>3. stack \in Seq(Calls) /\ Len(stack) \in 1..Len(stack)
  BY TopFacts DEF TypeOK
<1>4. /\ Advance(e) \in Seq(Calls) /\ Len(Advance(e)) = Len(stack)
      /\ \A j \in 1..Len(stack) : Advance(e)[j] =
            IF j = Len(stack) THEN [Top EXCEPT !.next = e + 1] ELSE stack[j]
  BY <1>1, <1>2, <1>3, ExceptSeq
<1>5. Len(stack) \in Nat \ {0}
  BY TopFacts
<1>6. Advance(e) # <<>>
  BY <1>4, <1>5
<1>7. Advance(e)[Len(stack)] = t
  BY <1>4, <1>5
<1>8. \A i \in 1..(Len(stack) - 1) : Advance(e)[i] = stack[i]
  BY <1>4, <1>5
<1> QED BY <1>1, <1>4, <1>6, <1>7, <1>8

\* A split is determined by where it starts, and one that starts in goodSplits
\* ends in them.
LEMMA SplitUnique ==
    ASSUME TypeOK, NEW a \in 1..Atoms, NEW e \in 1..Atoms, NEW f \in 1..Atoms,
           IsSplit(a, e), IsSplit(a, f)
    PROVE  e = f
  BY TopFacts DEF IsSplit

LEMMA SplitWithin ==
    ASSUME TypeOK, GoodInv, NEW a \in 1..Atoms, NEW e \in 1..Atoms,
           from <= a, a < Top.next, IsSplit(a, e)
    PROVE  /\ a <= e /\ e < Top.next /\ Length(a, e) < size
           /\ e # Top.last => text.gap[e] = Top.level
<1>1. from \in 1..(Atoms+1)
  BY DEF TypeOK
<1>2. e < Top.next
  <2> SUFFICES ASSUME Top.next <= e PROVE FALSE
    BY TopFacts
  <2>1. text.gap[Top.next - 1] = Top.level
    BY <1>1, TopFacts DEF GoodInv, IsSplit
  <2>2. Top.next - 1 \in a..(e-1)
    BY TopFacts
  <2> QED BY <2>1, <2>2, TopFacts DEF IsSplit
<1>3. Length(a, e) < size
  BY <1>2 DEF GoodInv
<1> QED BY <1>2, <1>3 DEF IsSplit

LEMMA TypeStep ==
    ASSUME TypeOK, TextUnchanged,
           pc' \in {"split", "merge", "pop", "done"},
           stack' \in Seq(Calls) \ {<<>>},
           from' \in 1..(Atoms+1), first' \in 1..(Atoms+1), at' \in 1..(Atoms+1),
           total' \in Int, chunks' \in Seq(Chunks)
    PROVE  TypeOK'
<1>1. Calls' = Calls /\ Chunks' = Chunks /\ text' = text /\ size' = size /\ overlap' = overlap
  BY DEF TextUnchanged, Calls, Chunks
<1> QED BY <1>1 DEF TypeOK, IsText

LEMMA SameChunks ==
    ASSUME ChunksFit, OverlapWithinLimit, InTextOrder, TextUnchanged, chunks' = chunks
    PROVE  ChunksFit' /\ OverlapWithinLimit' /\ InTextOrder'
  BY DEF ChunksFit, OverlapWithinLimit, InTextOrder, TextUnchanged, Length

LEMMA NewChunk ==
    ASSUME TypeOK, ChunksFit, OverlapWithinLimit, InTextOrder, TextUnchanged,
           NEW c \in Chunks, chunks' = Append(chunks, c),
           c.level # 0 => Length(c.from, c.to) <= size + text.sep[c.level],
           chunks # <<>> =>
              LET last == chunks[Len(chunks)].to IN
              c.from <= last => Length(c.from, last) <= overlap,
           \A k \in 1..Len(chunks) : chunks[k].from <= c.from /\ chunks[k].to <= c.to
    PROVE  ChunksFit' /\ OverlapWithinLimit' /\ InTextOrder'
<1>1. /\ text' = text /\ size' = size /\ overlap' = overlap
      /\ Len(chunks) \in Nat /\ Len(chunks') = Len(chunks) + 1
      /\ DOMAIN chunks' = 1..(Len(chunks) + 1) /\ DOMAIN chunks = 1..Len(chunks)
      /\ \A k \in 1..Len(chunks) : chunks'[k] = chunks[k]
      /\ chunks'[Len(chunks) + 1] = c
  BY AppendProperties DEF TypeOK, TextUnchanged
<1>2. ChunksFit'
  BY <1>1 DEF ChunksFit, Length
<1>3. OverlapWithinLimit'
  <2> SUFFICES ASSUME NEW k \in 1..Len(chunks), chunks'[k+1].from <= chunks'[k].to
               PROVE  Length(chunks'[k+1].from, chunks'[k].to) <= overlap
    BY <1>1 DEF OverlapWithinLimit, Length
  <2>1. CASE k < Len(chunks)
    <3>1. k \in 1..(Len(chunks) - 1) /\ k \in 1..Len(chunks) /\ k + 1 \in 1..Len(chunks)
      BY <2>1, <1>1
    <3>2. chunks'[k] = chunks[k] /\ chunks'[k+1] = chunks[k+1]
      BY <3>1, <1>1
    <3> QED BY <3>1, <3>2 DEF OverlapWithinLimit
  <2>2. CASE k = Len(chunks)
    <3>1. chunks # <<>> /\ chunks'[k+1] = c /\ chunks'[k] = chunks[Len(chunks)]
      BY <1>1, <2>2
    <3> QED BY <3>1
  <2>3. Len(chunks) \in Nat
    BY <1>1
  <2>4. k < Len(chunks) \/ k = Len(chunks)
    BY <2>3
  <2> QED BY <2>1, <2>2, <2>4
<1>4. InTextOrder'
  <2> SUFFICES ASSUME NEW j \in 1..(Len(chunks) + 1), NEW k \in 1..(Len(chunks) + 1), j < k
               PROVE  chunks'[j].from <= chunks'[k].from /\ chunks'[j].to <= chunks'[k].to
    BY <1>1 DEF InTextOrder
  <2>1. j \in 1..Len(chunks) /\ chunks'[j] = chunks[j]
    BY <1>1
  <2>2. CASE k \in 1..Len(chunks)
    BY <1>1, <2>1, <2>2 DEF InTextOrder
  <2>3. CASE k = Len(chunks) + 1
    BY <1>1, <2>1, <2>3
  <2> QED BY <1>1, <2>2, <2>3
<1> QED BY <1>2, <1>3, <1>4

\* What Emit adds is the part of currentDoc that is not blank.
LEMMA EmitFacts ==
    ASSUME IInv, pc = "merge", Emit, TextUnchanged
    PROVE  /\ chunks' \in Seq(Chunks)
           /\ ChunksFit' /\ OverlapWithinLimit' /\ InTextOrder'
           /\ \A k \in 1..Len(chunks') :
                 /\ chunks'[k].from <= chunks'[k].to /\ chunks'[k].to < at
                 /\ from <= chunks'[k].to => ~Blank(chunks'[k].to, chunks'[k].to)
           /\ \A k \in 1..Len(chunks'), f \in 1..Atoms :
                 first <= f /\ ~Blank(f, f) => chunks'[k].from <= f
           /\ \A a \in 1..Atoms : a < at /\ ~Blank(a, a) =>
                 \E k \in 1..Len(chunks') : chunks'[k].from <= a /\ a <= chunks'[k].to
<1>0. /\ from \in 1..(Atoms+1) /\ first \in 1..(Atoms+1) /\ at \in 1..(Atoms+1)
      /\ chunks \in Seq(Chunks) /\ Len(chunks) \in Nat /\ Atoms \in Nat \ {0}
      /\ \A k \in 1..Len(chunks) : chunks[k].from \in 1..Atoms /\ chunks[k].to \in 1..Atoms
  <2>1. chunks \in Seq(Chunks)
    BY DEF IInv, TypeOK
  <2>2. \A k \in 1..Len(chunks) : chunks[k] \in Chunks
    BY <2>1
  <2>3. \A k \in 1..Len(chunks) : chunks[k].from \in 1..Atoms /\ chunks[k].to \in 1..Atoms
    BY <2>2 DEF Chunks
  <2>4. from \in 1..(Atoms+1) /\ first \in 1..(Atoms+1) /\ at \in 1..(Atoms+1)
    BY DEF IInv, TypeOK
  <2>5. Len(chunks) \in Nat /\ Atoms \in Nat \ {0}
    BY <2>1, TextAssumption
  <2> QED BY <2>1, <2>3, <2>4, <2>5
<1>01. first \in Nat /\ at \in Nat /\ Len(chunks) \in Nat /\ Atoms \in Nat
  BY <1>0
<1>02. TypeOK
  BY DEF IInv
<1>1. /\ \A k \in 1..Len(chunks) :
            /\ chunks[k].from <= chunks[k].to /\ chunks[k].to < at
            /\ from <= chunks[k].to => ~Blank(chunks[k].to, chunks[k].to)
      /\ \A k \in 1..Len(chunks), f \in 1..Atoms :
            first <= f /\ ~Blank(f, f) => chunks[k].from <= f
  BY DEF IInv, OrderInv, Merging, Behind
<1>2. \A a \in 1..Atoms : a < first /\ ~Blank(a, a) =>
         \E k \in 1..Len(chunks) : chunks[k].from <= a /\ a <= chunks[k].to
  BY DEF IInv, CoverInv, Covered
<1>3. CASE Blank(first, at - 1) /\ UNCHANGED chunks
  <2>1. \A a \in 1..Atoms : first <= a /\ a < at => Blank(a, a)
    BY <1>0, <1>3 DEF Blank
  <2>2. ChunksFit' /\ OverlapWithinLimit' /\ InTextOrder'
    BY <1>3, SameChunks DEF IInv
  <2>3. chunks' = chunks
    BY <1>3
  <2>4. \A a \in 1..Atoms : a < at /\ ~Blank(a, a) => a < first
    BY <1>0, <2>1
  <2> QED BY <1>0, <1>1, <1>2, <2>2, <2>3, <2>4
<1>4. CASE \E f, t \in 1..Atoms :
             /\ Trimmed(f, t)
             /\ chunks' = Append(chunks, [from |-> f, to |-> t, level |-> Top.level])
  <2> PICK f \in 1..Atoms, t \in 1..Atoms :
             /\ Trimmed(f, t)
             /\ chunks' = Append(chunks, [from |-> f, to |-> t, level |-> Top.level])
    BY <1>4
  <2> DEFINE c == [from |-> f, to |-> t, level |-> Top.level]
  <2>1. c \in Chunks /\ c.from = f /\ c.to = t /\ c.level = Top.level
    BY TopFacts, TextFacts DEF IInv, Chunks
  <2>2. /\ first <= f /\ f <= t /\ t < at /\ ~Blank(f, f) /\ ~Blank(t, t)
        /\ Blank(first, f - 1) /\ Blank(t + 1, at - 1)
    BY DEF Trimmed
  <2>3. \A a \in 1..Atoms : first <= a /\ a < at /\ ~Blank(a, a) => f <= a /\ a <= t
    BY <1>0, <2>2 DEF Blank
  <2>4. /\ Len(chunks') = Len(chunks) + 1 /\ chunks' \in Seq(Chunks)
        /\ \A k \in 1..Len(chunks) : chunks'[k] = chunks[k]
        /\ chunks'[Len(chunks) + 1] = c
    BY <1>0, <2>1, AppendProperties
  <2> HIDE DEF c
  <2>5. \A k \in 1..Len(chunks) : chunks[k].from <= f /\ chunks[k].to <= t
    <3> SUFFICES ASSUME NEW k \in 1..Len(chunks)
                 PROVE  chunks[k].from <= f /\ chunks[k].to <= t
      OBVIOUS
    <3>1. chunks[k].from <= f
      BY <1>1, <2>2
    <3>2. chunks[k].to <= t
      <4> SUFFICES ASSUME t < chunks[k].to PROVE FALSE
        BY <1>0
      <4>1. from <= chunks[k].to
        BY <1>0, <2>2 DEF IInv, MergeInv, Merging
      <4>2. chunks[k].to < at /\ ~Blank(chunks[k].to, chunks[k].to)
        BY <1>1, <4>1
      <4> QED BY <1>0, <2>2, <2>3, <4>2
    <3> QED BY <3>1, <3>2
  <2>6. c.level # 0 => Length(c.from, c.to) <= size + text.sep[c.level]
    <3>1. first < at /\ Length(first, at - 1) <= size + Sep
      BY <1>0, <2>2 DEF IInv, MergeInv, Merging
    <3>2. first \in 1..Atoms /\ at - 1 \in 1..Atoms /\ t <= at - 1 /\ first <= f
      BY <1>01, <2>2, <3>1, <1>0
    <3>3. text.start[first] <= text.start[f] /\ text.end[t] <= text.end[at - 1]
      BY <3>2, <1>02, TextFacts
    <3>4. /\ text.start[first] \in Int /\ text.start[f] \in Int
          /\ text.end[t] \in Int /\ text.end[at - 1] \in Int
      BY <3>2, <1>02, TextFacts
    <3>5. Sep \in Nat /\ size \in Nat /\ Sep = text.sep[Top.level]
      BY <1>02, TextFacts, TopFacts DEF Sep
    <3>6. Length(f, t) <= Length(first, at - 1) /\ Length(f, t) \in Int /\ Length(first, at - 1) \in Int
      BY <3>3, <3>4 DEF Length
    <3>7. Length(f, t) <= size + Sep
      BY <3>1, <3>5, <3>6
    <3> QED BY <2>1, <3>5, <3>7
  <2>7. chunks # <<>> =>
           LET last == chunks[Len(chunks)].to IN
           c.from <= last => Length(c.from, last) <= overlap
    <3> SUFFICES ASSUME chunks # <<>>, f <= chunks[Len(chunks)].to
                 PROVE  Length(f, chunks[Len(chunks)].to) <= overlap
      BY <2>1
    <3>1. Len(chunks) \in 1..Len(chunks)
      BY <1>0
    <3>2. Length(first, chunks[Len(chunks)].to) <= overlap
      BY <1>0, <2>2, <3>1 DEF IInv, OverlapInv
    <3>3. first \in 1..Atoms /\ chunks[Len(chunks)].to \in 1..Atoms
      BY <1>0, <2>2, <3>1
    <3>4. /\ text.start[first] <= text.start[f]
          /\ text.start[first] \in Int /\ text.start[f] \in Int
          /\ text.end[chunks[Len(chunks)].to] \in Int /\ overlap \in Nat
      BY <1>02, <2>2, <3>3, TextFacts
    <3> QED BY <3>2, <3>4 DEF Length
  <2>8. ChunksFit' /\ OverlapWithinLimit' /\ InTextOrder'
    BY <2>1, <2>5, <2>6, <2>7, NewChunk DEF IInv, c
  <2>9. \A k \in 1..Len(chunks') :
           /\ chunks'[k].from <= chunks'[k].to /\ chunks'[k].to < at
           /\ from <= chunks'[k].to => ~Blank(chunks'[k].to, chunks'[k].to)
    BY <1>0, <1>1, <2>1, <2>2, <2>4
  <2>10. \A k \in 1..Len(chunks'), g \in 1..Atoms :
            first <= g /\ ~Blank(g, g) => chunks'[k].from <= g
    <3> SUFFICES ASSUME NEW k \in 1..Len(chunks'), NEW g \in 1..Atoms,
                        first <= g, ~Blank(g, g)
                 PROVE  chunks'[k].from <= g
      OBVIOUS
    <3>1. CASE k \in 1..Len(chunks)
      BY <1>1, <2>4, <3>1
    <3>2. CASE k = Len(chunks) + 1
      BY <1>0, <2>1, <2>2, <2>3, <2>4, <3>2
    <3> QED BY <1>0, <2>4, <3>1, <3>2
  <2>11. \A a \in 1..Atoms : a < at /\ ~Blank(a, a) =>
            \E k \in 1..Len(chunks') : chunks'[k].from <= a /\ a <= chunks'[k].to
    <3> SUFFICES ASSUME NEW a \in 1..Atoms, a < at, ~Blank(a, a)
                 PROVE  \E k \in 1..Len(chunks') : chunks'[k].from <= a /\ a <= chunks'[k].to
      OBVIOUS
    <3>1. CASE a < first
      <4>1. PICK k \in 1..Len(chunks) : chunks[k].from <= a /\ a <= chunks[k].to
        BY <1>2, <3>1
      <4> QED BY <1>0, <2>4, <4>1
    <3>2. CASE first <= a
      <4>1. f <= a /\ a <= t /\ Len(chunks) + 1 \in 1..Len(chunks')
        BY <1>0, <2>3, <2>4, <3>2
      <4> QED BY <2>1, <2>4, <4>1
    <3> QED BY <1>01, <3>1, <3>2
  <2> QED BY <2>4, <2>8, <2>9, <2>10, <2>11
<1> QED BY <1>3, <1>4 DEF Emit

------------------------------------------------------------------------------
\* The steps of splitText.

LEMMA SameStack ==
    ASSUME TextUnchanged, stack' = stack
    PROVE  /\ Top' = Top /\ Sep' = Sep
           /\ \A a, e : IsSplit(a, e)' <=> IsSplit(a, e)
           /\ \A f, t : Length(f, t)' = Length(f, t)
           /\ \A f, t : Blank(f, t)' <=> Blank(f, t)
  BY DEF TextUnchanged, Top, Sep, IsSplit, Length, Blank

\* The innermost call has looked at a split that ends at e.
LEMMA AdvanceStep ==
    ASSUME TypeOK, StackInv, NEW e \in 1..Atoms, e <= Top.last,
           stack' = Advance(e), TextUnchanged
    PROVE  /\ stack' \in Seq(Calls) \ {<<>>}
           /\ StackInv'
           /\ Top'.next = e + 1 /\ Top'.last = Top.last /\ Top'.level = Top.level
           /\ Sep' = Sep
           /\ \A a, f : IsSplit(a, f)' <=> IsSplit(a, f)
           /\ \A f, t : Length(f, t)' = Length(f, t)
           /\ \A f, t : Blank(f, t)' <=> Blank(f, t)
<1>1. /\ stack' \in Seq(Calls) \ {<<>>} /\ Len(stack') = Len(stack)
      /\ \A i \in 1..(Len(stack) - 1) : stack'[i] = stack[i]
      /\ stack'[Len(stack)].next = e + 1 /\ stack'[Len(stack)].last = Top.last
      /\ stack'[Len(stack)].level = Top.level
  BY AdvanceFacts
<1>2. Len(stack) \in Nat \ {0} /\ Top = stack[Len(stack)] /\ Top.last \in 1..Atoms
  BY TopFacts
<1>3. Top'.next = e + 1 /\ Top'.last = Top.last /\ Top'.level = Top.level
  BY <1>1 DEF Top
<1>4. StackInv'
  <2>1. \A i \in 1..Len(stack) : stack'[i].last = stack[i].last
    BY <1>1, <1>2
  <2>2. stack'[1].last = Atoms
    BY <1>2, <2>1 DEF StackInv
  <2>3. \A i \in 1..Len(stack') : stack'[i].next <= stack'[i].last + 1
    <3> SUFFICES ASSUME NEW i \in 1..Len(stack)
                 PROVE  stack'[i].next <= stack'[i].last + 1
      BY <1>1
    <3>1. CASE i \in 1..(Len(stack) - 1)
      BY <1>1, <3>1 DEF StackInv
    <3>2. CASE i = Len(stack)
      BY <1>1, <1>2, <3>2
    <3> QED BY <1>2, <3>1, <3>2
  <2>4. \A i \in 1..(Len(stack') - 1) : stack'[i].next = stack'[i+1].last + 1
    <3> SUFFICES ASSUME NEW i \in 1..(Len(stack) - 1)
                 PROVE  stack'[i].next = stack'[i+1].last + 1
      BY <1>1
    <3>1. i + 1 \in 1..Len(stack)
      BY <1>2
    <3> QED BY <1>1, <2>1, <3>1 DEF StackInv
  <2> QED BY <2>2, <2>3, <2>4 DEF StackInv
<1> QED BY <1>1, <1>3, <1>4 DEF TextUnchanged, Sep, IsSplit, Length, Blank

\* What TypeOK says of the rest.
LEMMA HandFacts ==
    ASSUME TypeOK
    PROVE  /\ Atoms \in Nat \ {0}
           /\ from \in 1..(Atoms+1) /\ first \in 1..(Atoms+1) /\ at \in 1..(Atoms+1)
           /\ total \in Int
           /\ chunks \in Seq(Chunks) /\ Len(chunks) \in Nat
           /\ \A k \in 1..Len(chunks) : /\ chunks[k].from \in 1..Atoms
                                        /\ chunks[k].to \in 1..Atoms
<1>1. chunks \in Seq(Chunks)
  BY DEF TypeOK
<1>2. \A k \in 1..Len(chunks) : chunks[k] \in Chunks
  BY <1>1
<1>3. \A k \in 1..Len(chunks) : chunks[k].from \in 1..Atoms /\ chunks[k].to \in 1..Atoms
  BY <1>2 DEF Chunks
<1>4. /\ from \in 1..(Atoms+1) /\ first \in 1..(Atoms+1) /\ at \in 1..(Atoms+1)
      /\ total \in Int
  BY DEF TypeOK
<1> QED BY <1>1, <1>3, <1>4, TextAssumption

LEMMA GoodSplitPreserves ==
    ASSUME IInv, GoodSplit
    PROVE  IInv'
<1> PICK e \in 1..Atoms : Looking(e) /\ ~Big(e) /\ stack' = Advance(e)
  BY DEF GoodSplit
<1>1. /\ pc = "split" /\ pc' = pc /\ from' = from /\ chunks' = chunks
      /\ first' = first /\ at' = at /\ total' = total /\ TextUnchanged
      /\ text' = text /\ size' = size /\ overlap' = overlap
  BY DEF GoodSplit, Looking, MergeUnchanged, TextUnchanged
<1>2. TypeOK /\ StackInv /\ GoodInv
  BY DEF IInv
<1>3. /\ IsSplit(Top.next, e) /\ Top.next <= e /\ e <= Top.last
      /\ Top.next \in 1..Atoms /\ Top.last \in 1..Atoms /\ Length(Top.next, e) < size
  <2>1. IsSplit(Top.next, e) /\ Top.next <= e /\ e <= Top.last /\ ~(Length(Top.next, e) >= size)
    BY DEF Looking, Big, IsSplit
  <2>2. Top.next \in 1..Atoms /\ Top.last \in 1..Atoms
    <3>1. Top.next \in 1..(Atoms+1) /\ Top.last \in 1..Atoms
      BY <1>2, TopFacts
    <3> QED BY <2>1, <3>1, TextAssumption
  <2>3. Length(Top.next, e) \in Int /\ size \in Int
    BY <1>2, <2>2, TextFacts DEF Length
  <2> QED BY <2>1, <2>2, <2>3
<1>4. /\ stack' \in Seq(Calls) \ {<<>>} /\ StackInv'
      /\ Top'.next = e + 1 /\ Top'.last = Top.last /\ Top'.level = Top.level
      /\ Sep' = Sep
      /\ \A a, f : IsSplit(a, f)' <=> IsSplit(a, f)
      /\ \A f, t : Length(f, t)' = Length(f, t)
      /\ \A f, t : Blank(f, t)' <=> Blank(f, t)
  BY <1>1, <1>2, <1>3, AdvanceStep
<1>5. TypeOK'
  BY <1>1, <1>2, <1>4, HandFacts, TypeStep
<1>6. GoodInv'
  <2>1. from <= Top.next /\ from \in 1..(Atoms+1)
    BY <1>2, HandFacts DEF GoodInv
  <2>2. from' <= Top'.next
    BY <1>1, <1>3, <1>4, <2>1
  <2>3. Top'.next <= Top'.last => text'.gap[Top'.next - 1] = Top'.level
    BY <1>1, <1>3, <1>4 DEF IsSplit
  <2>4. ASSUME NEW a \in 1..Atoms, NEW f \in 1..Atoms,
               from <= a, f < e + 1, IsSplit(a, f)
        PROVE  Length(a, f) < size
    <3>1. CASE a < Top.next
      BY <1>2, <2>4, <3>1, SplitWithin
    <3>2. CASE Top.next <= a
      <4>1. a <= f /\ f <= e
        BY <2>4 DEF IsSplit
      <4>2. Length(a, f) <= Length(Top.next, e) /\ Length(a, f) \in Int
            /\ Length(Top.next, e) \in Int
        BY <1>2, <1>3, <3>2, <4>1, LengthFacts
      <4>3. size \in Int
        BY <1>2, TextFacts
      <4> QED BY <1>3, <4>2, <4>3
    <3> QED BY <1>3, <3>1, <3>2
  <2>5. \A a, f \in 1..Atoms :
           from' <= a /\ f < Top'.next /\ IsSplit(a, f)' => Length(a, f)' < size'
    BY <1>1, <1>4, <2>4
  <2> QED BY <1>1, <2>2, <2>3, <2>5 DEF GoodInv
<1>7. ~Merging /\ ~Merging'
  BY <1>1 DEF Merging
<1>8. MergeInv' /\ TotalIsLength' /\ OverlapInv'
  BY <1>1, <1>7 DEF MergeInv, TotalIsLength, OverlapInv
<1>9. OrderInv'
  BY <1>1, <1>4, <1>7 DEF IInv, OrderInv, Behind
<1>10. CoverInv'
  BY <1>1, <1>4 DEF IInv, CoverInv, Covered
<1>11. ChunksFit' /\ OverlapWithinLimit' /\ InTextOrder'
  BY <1>1, SameChunks DEF IInv
<1> QED BY <1>4, <1>5, <1>6, <1>8, <1>9, <1>10, <1>11 DEF IInv

\* A text that stays the same is measured the same.
LEMMA SameText ==
    ASSUME TextUnchanged
    PROVE  /\ \A f, t : Length(f, t)' = Length(f, t)
           /\ \A f, t : Blank(f, t)' <=> Blank(f, t)
  BY DEF TextUnchanged, Length, Blank

\* Where goodSplits are empty, nothing has to be said of them.
LEMMA NoGoodSplits ==
    ASSUME TypeOK', from' = Top'.next, pc' = "done" => from' > Atoms
    PROVE  GoodInv'
<1>1. from' \in 1..(Atoms+1) /\ Atoms \in Nat
  BY TextAssumption DEF TypeOK
<1>2. \A a, e \in 1..Atoms : from' <= a /\ e < Top'.next => ~IsSplit(a, e)'
  BY <1>1 DEF IsSplit
<1> QED BY <1>1, <1>2 DEF GoodInv

\* Between two merges, the rest speaks of from and of the chunks only.
LEMMA SplittingStep ==
    ASSUME IInv, pc = "split", pc' \in {"split", "done"}, TextUnchanged,
           chunks' = chunks, from' = from
    PROVE  /\ MergeInv' /\ TotalIsLength' /\ OrderInv' /\ OverlapInv' /\ CoverInv'
           /\ ChunksFit' /\ OverlapWithinLimit' /\ InTextOrder'
<1>1. ~Merging /\ ~Merging' /\ pc' # "merge" /\ pc' # "pop"
  BY DEF Merging
<1>2. MergeInv' /\ TotalIsLength' /\ OverlapInv'
  BY <1>1 DEF MergeInv, TotalIsLength, OverlapInv
<1>3. OrderInv'
  BY <1>1, SameText DEF IInv, OrderInv, Behind
<1>4. CoverInv'
  BY <1>1, SameText DEF IInv, CoverInv, Covered
<1>5. ChunksFit' /\ OverlapWithinLimit' /\ InTextOrder'
  BY SameChunks DEF IInv
<1> QED BY <1>2, <1>3, <1>4, <1>5

LEMMA StartMergePreserves ==
    ASSUME IInv, StartMerge
    PROVE  IInv'
<1>1. /\ pc = "split" /\ pc' = "merge" /\ from' = from /\ chunks' = chunks
      /\ stack' = stack /\ first' = from /\ at' = from /\ total' = 0 /\ TextUnchanged
      /\ text' = text /\ size' = size /\ overlap' = overlap /\ from < Top.next
  BY DEF StartMerge, TextUnchanged
<1>2. TypeOK /\ StackInv /\ GoodInv /\ OrderInv /\ CoverInv
  BY DEF IInv
<1>3. /\ from \in Int /\ Len(chunks) \in Nat
      /\ \A k \in 1..Len(chunks) : chunks[k].from \in Int /\ chunks[k].to \in Int
  BY <1>2, HandFacts
<1>4. \A k \in 1..Len(chunks) : chunks[k].from <= chunks[k].to /\ chunks[k].to < from
  BY <1>1, <1>2 DEF OrderInv, Behind, Merging
<1>5. TypeOK'
  BY <1>1, <1>2, HandFacts, TypeStep DEF TypeOK
<1>6. StackInv' /\ GoodInv'
  BY <1>1, <1>2, SameStack DEF StackInv, GoodInv
<1>7. MergeInv' /\ TotalIsLength'
  <2>1. Top' = Top /\ Top.next \in Int
    BY <1>1, <1>2, SameStack, TopFacts
  <2>2. /\ from <= from /\ from <= Top.next /\ ~(from < from)
    BY <1>1, <1>3, <2>1
  <2> QED BY <1>1, <2>1, <2>2 DEF MergeInv, TotalIsLength
<1>8. OrderInv'
  <2>1. Merging' /\ Behind' = from
    BY <1>1 DEF Merging, Behind
  <2>2. \A k \in 1..Len(chunks), f \in 1..Atoms : from <= f => chunks[k].from <= f
    BY <1>3, <1>4
  <2>3. \A k \in 1..Len(chunks) : ~(from <= chunks[k].to)
    BY <1>3, <1>4
  <2> QED BY <1>1, <1>4, <2>1, <2>2, <2>3 DEF OrderInv
<1>9. OverlapInv'
  <2> SUFFICES ASSUME chunks # <<>>, from <= chunks[Len(chunks)].to PROVE FALSE
    BY <1>1 DEF OverlapInv
  <2>1. Len(chunks) \in 1..Len(chunks)
    BY <1>2, <1>3 DEF TypeOK
  <2> QED BY <1>3, <1>4, <2>1
<1>10. CoverInv'
  BY <1>1, <1>2, SameStack DEF CoverInv, Covered
<1>11. ChunksFit' /\ OverlapWithinLimit' /\ InTextOrder'
  BY <1>1, SameChunks DEF IInv
<1> QED BY <1>5, <1>6, <1>7, <1>8, <1>9, <1>10, <1>11 DEF IInv

LEMMA KeepWholePreserves ==
    ASSUME IInv, KeepWhole
    PROVE  IInv'
<1> PICK e \in 1..Atoms :
      /\ Looking(e)
      /\ chunks' = Append(chunks, [from |-> from, to |-> e, level |-> 0])
      /\ stack' = Advance(e) /\ from' = e + 1
  BY DEF KeepWhole
<1> DEFINE c == [from |-> from, to |-> e, level |-> 0]
<1>1. /\ pc = "split" /\ pc' = pc /\ from = Top.next /\ TextUnchanged
      /\ first' = first /\ at' = at /\ total' = total
      /\ text' = text /\ size' = size /\ overlap' = overlap
  BY DEF KeepWhole, Looking, MergeUnchanged, TextUnchanged
<1>2. TypeOK /\ StackInv /\ OrderInv /\ CoverInv
  BY DEF IInv
<1>3. /\ from \in 1..(Atoms+1) /\ Atoms \in Nat \ {0} /\ Len(chunks) \in Nat
      /\ \A k \in 1..Len(chunks) : /\ chunks[k].from \in 1..Atoms
                                   /\ chunks[k].to \in 1..Atoms
      /\ chunks \in Seq(Chunks)
  BY <1>2, HandFacts
<1>4. from <= e /\ e <= Top.last
  BY <1>1 DEF Looking, IsSplit
<1>5. c \in Chunks /\ c.from = from /\ c.to = e /\ c.level = 0
  BY <1>2, <1>3, <1>4, TextFacts DEF Chunks
<1> HIDE DEF c
<1>6. /\ chunks' = Append(chunks, c) /\ chunks' \in Seq(Chunks)
      /\ Len(chunks') = Len(chunks) + 1 /\ chunks'[Len(chunks) + 1] = c
      /\ \A k \in 1..Len(chunks) : chunks'[k] = chunks[k]
  BY <1>3, <1>5, AppendProperties DEF c
<1>7. /\ stack' \in Seq(Calls) \ {<<>>} /\ StackInv' /\ Top'.next = e + 1
      /\ \A f, t : Length(f, t)' = Length(f, t)
      /\ \A f, t : Blank(f, t)' <=> Blank(f, t)
  BY <1>1, <1>2, <1>4, AdvanceStep
<1>8. TypeOK'
  <2>1. e + 1 \in 1..(Atoms+1)
    BY <1>3
  <2> QED BY <1>1, <1>2, <1>6, <1>7, <2>1, HandFacts, TypeStep
<1>9. GoodInv'
  BY <1>1, <1>7, <1>8, NoGoodSplits
<1>10. ~Merging /\ ~Merging' /\ Behind = from /\ Behind' = e + 1
  BY <1>1 DEF Merging, Behind
<1>11. \A k \in 1..Len(chunks) : chunks[k].from <= chunks[k].to /\ chunks[k].to < from
  BY <1>2, <1>10 DEF OrderInv
<1>12. MergeInv' /\ TotalIsLength' /\ OverlapInv'
  BY <1>1, <1>10 DEF MergeInv, TotalIsLength, OverlapInv, Merging
<1>13. OrderInv'
  <2>1. \A k \in 1..Len(chunks') : /\ chunks'[k].from <= chunks'[k].to
                                   /\ chunks'[k].to < e + 1
                                   /\ ~(e + 1 <= chunks'[k].to)
    <3> SUFFICES ASSUME NEW k \in 1..(Len(chunks) + 1)
                 PROVE  /\ chunks'[k].from <= chunks'[k].to /\ chunks'[k].to < e + 1
                        /\ ~(e + 1 <= chunks'[k].to)
      BY <1>6
    <3>1. CASE k \in 1..Len(chunks)
      BY <1>3, <1>4, <1>6, <1>11, <3>1
    <3>2. CASE k = Len(chunks) + 1
      BY <1>3, <1>4, <1>5, <1>6, <3>2
    <3> QED BY <1>3, <3>1, <3>2
  <2> QED BY <1>10, <2>1 DEF OrderInv
<1>14. CoverInv'
  <2> SUFFICES ASSUME NEW a \in 1..Atoms, a < e + 1, ~Blank(a, a)
               PROVE  \E k \in 1..Len(chunks') : chunks'[k].from <= a /\ a <= chunks'[k].to
    BY <1>1, <1>7 DEF CoverInv, Covered
  <2>1. CASE a < from
    <3>1. PICK k \in 1..Len(chunks) : chunks[k].from <= a /\ a <= chunks[k].to
      BY <1>1, <1>2, <2>1 DEF CoverInv, Covered
    <3> QED BY <1>3, <1>6, <3>1
  <2>2. CASE from <= a
    BY <1>3, <1>5, <1>6, <2>2
  <2> QED BY <1>3, <2>1, <2>2
<1>15. ChunksFit' /\ OverlapWithinLimit' /\ InTextOrder'
  <2>1. \A k \in 1..Len(chunks) : chunks[k].from <= c.from /\ chunks[k].to <= c.to
    BY <1>3, <1>4, <1>5, <1>11
  <2>2. chunks # <<>> => ~(c.from <= chunks[Len(chunks)].to)
    <3> SUFFICES ASSUME chunks # <<>> PROVE ~(c.from <= chunks[Len(chunks)].to)
      OBVIOUS
    <3>1. Len(chunks) \in 1..Len(chunks)
      BY <1>3
    <3> QED BY <1>3, <1>5, <1>11, <3>1
  <2> QED BY <1>1, <1>2, <1>5, <1>6, <2>1, <2>2, NewChunk DEF IInv
<1> QED BY <1>7, <1>8, <1>9, <1>12, <1>13, <1>14, <1>15 DEF IInv

LEMMA DescendPreserves ==
    ASSUME IInv, Descend
    PROVE  IInv'
<1> PICK e \in 1..Atoms, c \in Calls :
      Looking(e) /\ IsCall(c, Top.next, e) /\ stack' = Append(Advance(e), c)
  BY DEF Descend
<1> DEFINE s == Advance(e)
<1>1. /\ pc = "split" /\ pc' = pc /\ from = Top.next /\ TextUnchanged
      /\ from' = from /\ chunks' = chunks /\ first' = first /\ at' = at /\ total' = total
  BY DEF Descend, Looking, MergeUnchanged
<1>2. TypeOK /\ StackInv
  BY DEF IInv
<1>3. c.next = Top.next /\ c.last = e /\ Top.next <= e /\ e <= Top.last
  BY DEF IsCall, Looking, IsSplit
<1>4. /\ s \in Seq(Calls) \ {<<>>} /\ Len(s) = Len(stack)
      /\ \A i \in 1..(Len(stack) - 1) : s[i] = stack[i]
      /\ s[Len(stack)].next = e + 1 /\ s[Len(stack)].last = Top.last
  BY <1>2, AdvanceFacts
<1> HIDE DEF s
<1>5. Len(stack) \in Nat \ {0} /\ Top = stack[Len(stack)] /\ Top.last \in Int /\ Top.next \in Int
  BY <1>2, TopFacts
<1>51. Len(stack) \in Nat \ {0}
  BY <1>5
<1>52. Top = stack[Len(stack)] /\ Top.last \in Int /\ e \in Int
  BY <1>5
<1>6. /\ stack' \in Seq(Calls) \ {<<>>} /\ Len(stack') = Len(stack) + 1
      /\ \A i \in 1..Len(stack) : stack'[i] = s[i]
      /\ stack'[Len(stack) + 1] = c
  <2>1. stack' = Append(s, c) /\ s \in Seq(Calls)
    BY <1>4 DEF s
  <2>2. /\ stack' \in Seq(Calls) /\ Len(stack') = Len(s) + 1
        /\ \A i \in 1..Len(s) : stack'[i] = s[i]
        /\ stack'[Len(s) + 1] = c
    BY <2>1, AppendProperties
  <2>3. stack' # <<>>
    BY <1>4, <1>5, <2>2
  <2> QED BY <1>4, <2>2, <2>3
<1>7. Top'.next = from /\ Top' = c
  BY <1>1, <1>3, <1>6 DEF Top
<1>8. StackInv'
  <2>1. \A i \in 1..Len(stack) : stack'[i].last = stack[i].last
    BY <1>4, <1>5, <1>6
  <2>2. stack'[1].last = Atoms
    BY <1>2, <1>5, <2>1 DEF StackInv
  <2>3. stack'[Len(stack)].next = e + 1 /\ stack'[Len(stack) + 1].last = e
    BY <1>3, <1>4, <1>5, <1>6
  <2>4. \A i \in 1..(Len(stack) - 1) : stack'[i].next = stack[i].next
    BY <1>4, <1>5, <1>6
  <2>5. ASSUME NEW i \in 1..(Len(stack) + 1)
        PROVE  stack'[i].next <= stack'[i].last + 1
    <3>1. CASE i \in 1..(Len(stack) - 1)
      <4>1. i \in 1..Len(stack)
        BY <1>5, <3>1
      <4> QED BY <1>2, <2>1, <2>4, <3>1, <4>1 DEF StackInv
    <3>2. CASE i = Len(stack)
      <4>1. stack'[i].last = Top.last
        <5>1. Len(stack) \in 1..Len(stack)
          BY <1>51
        <5>2. stack[i].last = Top.last /\ stack'[i].last = stack[i].last
          BY <1>52, <2>1, <3>2, <5>1
        <5> QED BY <5>2
      <4>2. e + 1 <= Top.last + 1
        BY <1>3, <1>52
      <4> QED BY <2>3, <3>2, <4>1, <4>2
    <3>3. CASE i = Len(stack) + 1
      BY <1>3, <1>5, <1>6, <3>3
    <3>4. Len(stack) + 1 \in Nat /\ (Len(stack) + 1) - 1 = Len(stack) /\ Len(stack) \in Nat
      BY <1>51
    <3>5. i = Len(stack) + 1 \/ i \in 1..Len(stack)
      BY <3>4, LastOrBefore
    <3>6. i \in 1..Len(stack) => i = Len(stack) \/ i \in 1..(Len(stack) - 1)
      BY <3>4, LastOrBefore
    <3> QED BY <3>1, <3>2, <3>3, <3>5, <3>6
  <2>6. ASSUME NEW i \in 1..Len(stack)
        PROVE  stack'[i].next = stack'[i+1].last + 1
    <3>1. CASE i \in 1..(Len(stack) - 1)
      <4>1. i + 1 \in 1..Len(stack)
        BY <1>5, <3>1
      <4> QED BY <1>2, <2>1, <2>4, <3>1, <4>1 DEF StackInv
    <3>2. CASE i = Len(stack)
      BY <2>3, <3>2
    <3>3. i = Len(stack) \/ i \in 1..(Len(stack) - 1)
      BY <1>51, LastOrBefore
    <3> QED BY <3>1, <3>2, <3>3
  <2>7. Len(stack') - 1 = Len(stack)
    BY <1>5, <1>6
  <2> QED BY <1>6, <2>2, <2>5, <2>6, <2>7 DEF StackInv
<1>9. TypeOK'
  BY <1>1, <1>2, <1>6, HandFacts, TypeStep
<1>10. GoodInv'
  BY <1>1, <1>7, <1>9, NoGoodSplits
<1> QED BY <1>1, <1>8, <1>9, <1>10, SplittingStep DEF IInv

LEMMA AscendPreserves ==
    ASSUME IInv, Ascend
    PROVE  IInv'
<1>1. /\ pc = "split" /\ from = Top.next /\ Top.next > Top.last /\ TextUnchanged
      /\ from' = from /\ chunks' = chunks /\ first' = first /\ at' = at /\ total' = total
  BY DEF Ascend, MergeUnchanged
<1>2. TypeOK /\ StackInv
  BY DEF IInv
<1>3. /\ Len(stack) \in Nat \ {0} /\ Top = stack[Len(stack)]
      /\ Top.last \in Int /\ Top.next \in Int /\ Atoms \in Nat
  BY <1>2, TopFacts, TextAssumption
<1>4. pc' \in {"split", "done"} /\ TypeOK' /\ StackInv' /\ GoodInv'
  <2>1. CASE Len(stack) = 1
    <3>1. stack' = stack /\ pc' = "done"
      BY <2>1 DEF Ascend
    <3>2. from > Atoms
      BY <1>1, <1>2, <1>3, <2>1 DEF StackInv
    <3>3. TypeOK'
      BY <1>1, <1>2, <3>1, HandFacts, TypeStep DEF TypeOK
    <3>4. StackInv'
      BY <1>2, <3>1 DEF StackInv
    <3>5. Top' = Top
      BY <3>1 DEF Top
    <3>6. GoodInv'
      BY <1>1, <3>2, <3>3, <3>5, NoGoodSplits
    <3> QED BY <3>1, <3>3, <3>4, <3>6
  <2>2. CASE Len(stack) # 1
    <3>1. stack' = SubSeq(stack, 1, Len(stack) - 1) /\ pc' = "split"
      BY <1>1, <2>2 DEF Ascend
    <3>2. /\ stack' \in Seq(Calls) /\ Len(stack') = Len(stack) - 1
          /\ \A i \in 1..(Len(stack) - 1) : stack'[i] = stack[i]
      <4>0. Len(stack) \in Nat /\ Len(stack) # 0 /\ Len(stack) # 1
        BY <1>3, <2>2
      <4>1. /\ 1 \in Int /\ Len(stack) - 1 \in Int
            /\ \A i \in 1..(Len(stack) - 1) : i \in 1..Len(stack) /\ 1 + i - 1 = i
            /\ 1 <= Len(stack) - 1 /\ (Len(stack) - 1) - 1 + 1 = Len(stack) - 1
        BY <4>0, LeaveLast
      <4>2. \A i \in 1..(Len(stack) - 1) : stack[i] \in Calls
        BY <1>2, <4>1, TopFacts
      <4> QED BY <3>1, <4>1, <4>2, SubSeqProperties
    <3>3. stack' # <<>> /\ Len(stack) - 1 \in 1..(Len(stack) - 1)
      BY <1>3, <2>2, <3>2
    <3>4. Top' = stack[Len(stack) - 1]
      BY <3>2, <3>3 DEF Top
    <3>5. Top.next <= Top.last + 1 /\ Top'.next = Top.last + 1
      <4>1. Len(stack) \in 1..Len(stack) /\ (Len(stack) - 1) + 1 = Len(stack)
        BY <1>3
      <4> QED BY <1>2, <1>3, <3>3, <3>4, <4>1 DEF StackInv
    <3>6. Top'.next = from
      BY <1>1, <1>3, <3>5
    <3>7. TypeOK'
      BY <1>1, <1>2, <3>1, <3>2, <3>3, HandFacts, TypeStep
    <3>8. StackInv'
      <4>1. 1 \in 1..(Len(stack) - 1)
        BY <1>3, <2>2
      <4>2. stack'[1].last = Atoms
        BY <1>2, <3>2, <4>1 DEF StackInv
      <4>3. \A i \in 1..(Len(stack) - 1) : i \in 1..Len(stack)
        BY <1>3
      <4>4. \A i \in 1..(Len(stack) - 1) : stack'[i].next <= stack'[i].last + 1
        BY <1>2, <3>2, <4>3 DEF StackInv
      <4>5. \A i \in 1..(Len(stack) - 2) :
               i \in 1..(Len(stack) - 1) /\ i + 1 \in 1..(Len(stack) - 1)
        BY <1>3
      <4>6. \A i \in 1..(Len(stack) - 2) : stack'[i].next = stack'[i+1].last + 1
        BY <1>2, <3>2, <4>5 DEF StackInv
      <4>7. Len(stack') - 1 = Len(stack) - 2
        BY <1>3, <3>2
      <4> QED BY <3>2, <4>2, <4>4, <4>6, <4>7 DEF StackInv
    <3>9. GoodInv'
      BY <1>1, <3>1, <3>6, <3>7, NoGoodSplits
    <3> QED BY <3>1, <3>7, <3>8, <3>9
  <2> QED BY <2>1, <2>2
<1> QED BY <1>1, <1>4, SplittingStep DEF IInv

------------------------------------------------------------------------------
\* The steps of mergeSplits.

LEMMA MergeFacts ==
    ASSUME IInv, Merging
    PROVE  /\ TypeOK /\ from <= first /\ first <= at /\ at <= Top.next /\ from < Top.next
           /\ from \in 1..(Atoms+1) /\ first \in 1..(Atoms+1) /\ at \in 1..(Atoms+1)
           /\ from \in Nat /\ first \in Nat /\ at \in Nat /\ Atoms \in Nat
           /\ Top.next \in Nat /\ Top.last \in Nat /\ Top.last <= Atoms
           /\ Top.next <= Top.last + 1
           /\ from < at /\ at <= Top.last => text.gap[at - 1] = Top.level
           /\ total = IF first = at THEN 0 ELSE Length(first, at - 1)
<1>1. TypeOK /\ StackInv /\ MergeInv /\ TotalIsLength
  BY DEF IInv
<1>2. /\ from \in 1..(Atoms+1) /\ first \in 1..(Atoms+1) /\ at \in 1..(Atoms+1)
      /\ Atoms \in Nat
  BY <1>1, HandFacts
<1>3. Top.next \in 1..(Atoms+1) /\ Top.last \in 1..Atoms /\ Len(stack) \in Nat \ {0}
  BY <1>1, TopFacts
<1>4. Top.next <= Top.last + 1
  <2>1. Len(stack) \in 1..Len(stack)
    BY <1>3
  <2> QED BY <1>1, <2>1 DEF StackInv, Top
<1>5. from \in Nat /\ first \in Nat /\ at \in Nat
  BY <1>2
<1>6. Top.next \in Nat /\ Top.last \in Nat /\ Top.last <= Atoms
  BY <1>2, <1>3
<1>7. /\ from <= first /\ first <= at /\ at <= Top.next /\ from < Top.next
      /\ from < at /\ at <= Top.last => text.gap[at - 1] = Top.level
  BY <1>1 DEF MergeInv
<1>8. total = IF first = at THEN 0 ELSE Length(first, at - 1)
  BY <1>1 DEF TotalIsLength, Merging
<1> QED BY <1>1, <1>2, <1>4, <1>5, <1>6, <1>7, <1>8

\* totalWithSplit is the length currentDoc would have with the split at..e.
LEMMA WithSplitIsLength ==
    ASSUME IInv, Merging, at < Top.next, NEW e \in 1..Atoms, IsSplit(at, e)
    PROVE  /\ at \in 1..Atoms /\ at <= e /\ e < Top.next /\ e <= Top.last
           /\ WithSplit(e) = Length(first, e) /\ Length(first, e) \in Int
           /\ Length(at, e) < size /\ Length(at, e) \in Int
           /\ e # Top.last => text.gap[e] = Top.level
<1>1. /\ at \in 1..Atoms /\ first \in 1..Atoms /\ at <= Top.last /\ from <= at
  BY MergeFacts
<1>2. TypeOK /\ GoodInv
  BY DEF IInv
<1>3. /\ at <= e /\ e < Top.next /\ Length(at, e) < size
      /\ e # Top.last => text.gap[e] = Top.level
  BY <1>1, <1>2, SplitWithin
<1>4. e <= Top.last
  BY DEF IsSplit
<1>5. /\ text.start[at] \in Int /\ text.end[e] \in Int /\ text.start[first] \in Int
  BY <1>1, <1>2, TextFacts
<1>6. Length(first, e) \in Int /\ Length(at, e) \in Int
  BY <1>5 DEF Length
<1>7. CASE first = at
  <2>1. total = 0 /\ ~(first < at)
    BY <1>7, MergeFacts
  <2>2. WithSplit(e) = Length(at, e)
    BY <1>6, <2>1 DEF WithSplit
  <2> QED BY <1>1, <1>3, <1>4, <1>6, <1>7, <2>2
<1>8. CASE first < at
  <2>1. at - 1 \in 1..(Atoms-1) /\ at - 1 \in 1..Atoms /\ (at - 1) + 1 = at
    BY <1>1, <1>8, MergeFacts
  <2>2. text.gap[at - 1] = Top.level
    BY <1>1, <1>8, MergeFacts
  <2>3. text.start[at] = text.end[at - 1] + Sep
    BY <1>2, <2>1, <2>2, TextFacts DEF Sep
  <2>4. text.end[at - 1] \in Int /\ Sep \in Nat
    BY <1>2, <2>1, TextFacts, TopFacts
  <2>5. total = Length(first, at - 1)
    BY <1>8, MergeFacts
  <2> QED BY <1>1, <1>3, <1>4, <1>5, <1>6, <1>8, <2>3, <2>4, <2>5 DEF WithSplit, Length
<1>9. first = at \/ first < at
  BY MergeFacts
<1> QED BY <1>1, <1>3, <1>4, <1>6, <1>7, <1>8, <1>9

\* What does not look at currentDoc stays as it is.
LEMMA MergingStep ==
    ASSUME IInv, pc' # "done", TextUnchanged, stack' = stack, from' = from
    PROVE  StackInv' /\ GoodInv'
<1>1. text' = text /\ size' = size /\ Top' = Top
  BY SameStack DEF TextUnchanged
<1> QED BY <1>1, SameStack DEF IInv, StackInv, GoodInv

\* A split is added to a currentDoc that has room for it.
LEMMA AddPreserves ==
    ASSUME IInv, Merging, at < Top.next, NEW e \in 1..Atoms, IsSplit(at, e), Add(e),
           UNCHANGED <<stack, from, chunks, first>>, TextUnchanged,
           Length(first, e) <= size + Sep,
           chunks # <<>> /\ first <= chunks[Len(chunks)].to =>
              Length(first, chunks[Len(chunks)].to) <= overlap
    PROVE  IInv'
<1>1. /\ pc' = "merge" /\ at' = e + 1 /\ total' = WithSplit(e) /\ stack' = stack
      /\ from' = from /\ chunks' = chunks /\ first' = first
      /\ text' = text /\ size' = size /\ overlap' = overlap
  BY DEF Add, TextUnchanged
<1>2. /\ at <= e /\ e < Top.next /\ e <= Top.last /\ at \in 1..Atoms
      /\ WithSplit(e) = Length(first, e) /\ Length(first, e) \in Int
      /\ e # Top.last => text.gap[e] = Top.level
  BY WithSplitIsLength
<1>3. /\ TypeOK /\ from <= first /\ first <= at /\ from < Top.next
      /\ from \in Nat /\ first \in Nat /\ at \in Nat /\ Atoms \in Nat /\ e \in Nat
      /\ Top.next \in Nat /\ Top.last \in Nat
  BY MergeFacts
<1>4. TypeOK'
  <2>1. e + 1 \in 1..(Atoms+1)
    BY <1>3
  <2>2. stack \in Seq(Calls) \ {<<>>}
    BY <1>3 DEF TypeOK
  <2> QED BY <1>1, <1>2, <1>3, <2>1, <2>2, HandFacts, TypeStep
<1>5. StackInv' /\ GoodInv'
  BY <1>1, MergingStep
<1>6. Merging' /\ Merging /\ Behind' = e + 1 /\ Behind = at
  BY <1>1 DEF Merging, Behind
<1>7. /\ (e + 1) - 1 = e /\ first <= e + 1 /\ first # e + 1 /\ e + 1 <= Top.next
  BY <1>2, <1>3
<1>8. MergeInv'
  <2>1. e + 1 <= Top.last => e # Top.last
    BY <1>2, <1>3
  <2>2. Top' = Top /\ Sep' = Sep /\ Length(first, e)' = Length(first, e)
    BY <1>1, SameStack
  <2>3. Length(first, at - 1)' = Length(first, e)
    BY <1>1, <1>7 DEF Length
  <2>4. text'.gap[at' - 1] = text.gap[e]
    BY <1>1, <1>7
  <2> QED BY <1>1, <1>2, <1>3, <1>7, <2>1, <2>2, <2>3, <2>4 DEF MergeInv
<1>9. TotalIsLength'
  BY <1>1, <1>2, <1>7, SameStack DEF TotalIsLength
<1>10. OrderInv'
  <2>1. OrderInv
    BY DEF IInv
  <2>2. \A k \in 1..Len(chunks) : chunks[k].to < at => chunks[k].to < e + 1
    BY <1>2, <1>3, HandFacts
  <2> QED BY <1>1, <1>6, <2>1, <2>2, SameStack DEF OrderInv
<1>11. OverlapInv'
  BY <1>1, SameStack DEF OverlapInv
<1>12. CoverInv'
  <2>1. CoverInv /\ (Covered = first \/ Covered = at) /\ Covered' = first
    BY <1>1 DEF IInv, Covered, Merging
  <2>2. \A a \in 1..Atoms : a < first => a < Covered
    BY <1>3, <2>1
  <2> QED BY <1>1, <2>1, <2>2, SameStack DEF CoverInv
<1>13. ChunksFit' /\ OverlapWithinLimit' /\ InTextOrder'
  BY <1>1, SameChunks DEF IInv
<1> QED BY <1>4, <1>5, <1>8, <1>9, <1>10, <1>11, <1>12, <1>13 DEF IInv

LEMMA AddSplitPreserves ==
    ASSUME IInv, AddSplit
    PROVE  IInv'
<1> PICK e \in 1..Atoms :
      IsSplit(at, e) /\ (WithSplit(e) <= size \/ first = at) /\ Add(e)
  BY DEF AddSplit
<1>1. /\ pc = "merge" /\ Merging /\ at < Top.next
      /\ UNCHANGED <<stack, from, chunks, first>> /\ TextUnchanged
  BY DEF AddSplit, Merging
<1>2. /\ WithSplit(e) = Length(first, e) /\ Length(first, e) \in Int
      /\ Length(at, e) < size
  BY <1>1, WithSplitIsLength
<1>3. size \in Nat /\ Sep \in Nat
  BY <1>1, MergeFacts, TextFacts, TopFacts
<1>4. Length(first, e) <= size + Sep
  BY <1>2, <1>3
<1>5. chunks # <<>> /\ first <= chunks[Len(chunks)].to =>
         Length(first, chunks[Len(chunks)].to) <= overlap
  BY <1>1 DEF IInv, OverlapInv
<1> QED BY <1>1, <1>4, <1>5, AddPreserves

LEMMA AddPoppedPreserves ==
    ASSUME IInv, AddPopped
    PROVE  IInv'
<1> PICK e \in 1..Atoms : IsSplit(at, e) /\ ~ShouldPop(e) /\ Add(e)
  BY DEF AddPopped
<1>1. /\ pc = "pop" /\ Merging
      /\ UNCHANGED <<stack, from, chunks, first>> /\ TextUnchanged
  BY DEF AddPopped, Merging
<1>2. at < Top.next
  BY <1>1 DEF IInv, MergeInv
<1>3. /\ WithSplit(e) = Length(first, e) /\ Length(first, e) \in Int
      /\ Length(at, e) < size /\ Length(at, e) \in Int
  BY <1>1, <1>2, WithSplitIsLength
<1>4. TypeOK /\ size \in Nat /\ Sep \in Nat /\ overlap \in Nat /\ total \in Int
  BY <1>1, MergeFacts, TextFacts, TopFacts, HandFacts
<1>5. /\ first \in Nat /\ at \in Nat /\ from \in Nat /\ Atoms \in Nat
      /\ first <= at /\ from <= first /\ first \in 1..(Atoms+1)
  BY <1>1, MergeFacts
<1>6. first < at => /\ total <= overlap
                    /\ WithSplit(e) = total + Length(at, e) + Sep
                    /\ total + Length(at, e) <= size \/ total <= 0
                         \/ total + Length(at, e) + Sep <= size
  BY <1>3, <1>4 DEF ShouldPop, WithSplit
<1>7. first < at \/ first = at
  BY <1>5
<1>8. Length(first, e) <= size + Sep
  BY <1>3, <1>4, <1>6, <1>7
<1>9. chunks # <<>> /\ first <= chunks[Len(chunks)].to =>
         Length(first, chunks[Len(chunks)].to) <= overlap
  <2> SUFFICES ASSUME chunks # <<>>, first <= chunks[Len(chunks)].to
               PROVE  Length(first, chunks[Len(chunks)].to) <= overlap
    OBVIOUS
  <2> DEFINE last == chunks[Len(chunks)].to
  <2>1. Len(chunks) \in 1..Len(chunks)
    BY <1>4, HandFacts
  <2>2. last < at /\ last \in 1..Atoms
    BY <1>1, <1>4, <2>1, HandFacts DEF IInv, OrderInv, Behind
  <2> HIDE DEF last
  <2>3. first <= last
    BY DEF last
  <2>4. first < at /\ first \in 1..Atoms
    BY <1>5, <2>2, <2>3
  <2>5. last <= at - 1 /\ at - 1 \in 1..Atoms
    BY <1>1, <1>5, <2>2, <2>4, MergeFacts
  <2>6. total = Length(first, at - 1)
    BY <1>1, <2>4, MergeFacts
  <2>7. /\ Length(first, last) <= Length(first, at - 1)
        /\ Length(first, last) \in Int /\ Length(first, at - 1) \in Int
    BY <1>4, <1>5, <2>2, <2>4, <2>5, LengthFacts
  <2>8. Length(first, last) <= overlap
    BY <1>4, <1>6, <2>4, <2>6, <2>7
  <2> QED BY <2>8 DEF last
<1> QED BY <1>1, <1>2, <1>8, <1>9, AddPreserves

LEMMA EmitFullPreserves ==
    ASSUME IInv, EmitFull
    PROVE  IInv'
<1>1. /\ pc = "merge" /\ pc' = "pop" /\ at < Top.next /\ Emit /\ TextUnchanged
      /\ stack' = stack /\ from' = from /\ first' = first /\ at' = at /\ total' = total
      /\ text' = text /\ size' = size /\ overlap' = overlap
  BY DEF EmitFull, MergeUnchanged, TextUnchanged
<1>2. Merging /\ Merging' /\ Behind' = at /\ Covered' = at
  BY <1>1 DEF Merging, Behind, Covered
<1>3. /\ chunks' \in Seq(Chunks)
      /\ ChunksFit' /\ OverlapWithinLimit' /\ InTextOrder'
      /\ \A k \in 1..Len(chunks') :
            /\ chunks'[k].from <= chunks'[k].to /\ chunks'[k].to < at
            /\ from <= chunks'[k].to => ~Blank(chunks'[k].to, chunks'[k].to)
      /\ \A k \in 1..Len(chunks'), f \in 1..Atoms :
            first <= f /\ ~Blank(f, f) => chunks'[k].from <= f
      /\ \A a \in 1..Atoms : a < at /\ ~Blank(a, a) =>
            \E k \in 1..Len(chunks') : chunks'[k].from <= a /\ a <= chunks'[k].to
  BY <1>1, EmitFacts
<1>4. TypeOK'
  <2>1. TypeOK /\ stack \in Seq(Calls) \ {<<>>}
    BY DEF IInv, TypeOK
  <2> QED BY <1>1, <1>3, <2>1, HandFacts, TypeStep
<1>5. StackInv' /\ GoodInv'
  BY <1>1, MergingStep
<1>6. MergeInv' /\ TotalIsLength' /\ OverlapInv'
  <2>1. MergeInv /\ TotalIsLength /\ pc' # "merge"
    BY <1>1 DEF IInv
  <2>2. Top' = Top /\ \A f, t : Length(f, t)' = Length(f, t)
    BY <1>1, SameStack
  <2> QED BY <1>1, <1>2, <2>1, <2>2 DEF MergeInv, TotalIsLength, OverlapInv, Merging
<1>7. OrderInv' /\ CoverInv'
  BY <1>1, <1>2, <1>3, SameStack DEF OrderInv, CoverInv
<1> QED BY <1>3, <1>4, <1>5, <1>6, <1>7 DEF IInv

LEMMA EndMergePreserves ==
    ASSUME IInv, EndMerge
    PROVE  IInv'
<1>1. /\ pc = "merge" /\ pc' = "split" /\ at = Top.next /\ Emit /\ TextUnchanged
      /\ stack' = stack /\ from' = at /\ first' = first /\ at' = at /\ total' = total
      /\ text' = text /\ size' = size /\ overlap' = overlap
  BY DEF EndMerge, MergeUnchanged, TextUnchanged
<1>2. Merging /\ ~Merging' /\ Behind' = at /\ Covered' = at
  BY <1>1 DEF Merging, Behind, Covered
<1>3. /\ chunks' \in Seq(Chunks)
      /\ ChunksFit' /\ OverlapWithinLimit' /\ InTextOrder'
      /\ \A k \in 1..Len(chunks') :
            /\ chunks'[k].from <= chunks'[k].to /\ chunks'[k].to < at
            /\ from <= chunks'[k].to => ~Blank(chunks'[k].to, chunks'[k].to)
      /\ \A k \in 1..Len(chunks'), f \in 1..Atoms :
            first <= f /\ ~Blank(f, f) => chunks'[k].from <= f
      /\ \A a \in 1..Atoms : a < at /\ ~Blank(a, a) =>
            \E k \in 1..Len(chunks') : chunks'[k].from <= a /\ a <= chunks'[k].to
  BY <1>1, EmitFacts
<1>4. TypeOK'
  <2>1. TypeOK /\ stack \in Seq(Calls) \ {<<>>}
    BY DEF IInv, TypeOK
  <2> QED BY <1>1, <1>3, <2>1, HandFacts, TypeStep
<1>5. StackInv'
  BY <1>1 DEF IInv, StackInv
<1>6. GoodInv'
  BY <1>1, <1>4, SameStack, NoGoodSplits
<1>7. MergeInv' /\ TotalIsLength' /\ OverlapInv'
  BY <1>1, <1>2 DEF MergeInv, TotalIsLength, OverlapInv
<1>8. OrderInv' /\ CoverInv'
  <2>1. \A k \in 1..Len(chunks') : ~(at <= chunks'[k].to)
    <3>1. at \in Int
      BY <1>2, MergeFacts
    <3>2. \A k \in 1..Len(chunks') : chunks'[k].to \in Int
      <4>1. \A k \in 1..Len(chunks') : chunks'[k] \in Chunks
        BY <1>3
      <4>2. \A c \in Chunks : c.to \in Int
        BY DEF Chunks
      <4> QED BY <4>1, <4>2
    <3> QED BY <1>3, <3>1, <3>2
  <2> QED BY <1>1, <1>2, <1>3, <2>1, SameStack DEF OrderInv, CoverInv
<1> QED BY <1>3, <1>4, <1>5, <1>6, <1>7, <1>8 DEF IInv

LEMMA PopPreserves ==
    ASSUME IInv, Pop
    PROVE  IInv'
<1> PICK p \in 1..Atoms :
      /\ IsSplit(first, p)
      /\ total' = total - Length(first, p) - (IF p < at - 1 THEN Sep ELSE 0)
      /\ first' = p + 1
  BY DEF Pop
<1>1. /\ pc = "pop" /\ pc' = pc /\ first < at /\ TextUnchanged
      /\ stack' = stack /\ from' = from /\ chunks' = chunks /\ at' = at
      /\ text' = text /\ size' = size /\ overlap' = overlap
  BY DEF Pop, ShouldPop, TextUnchanged
<1>2. Merging /\ Merging'
  BY <1>1 DEF Merging
<1>3. /\ TypeOK /\ from <= first /\ first <= at /\ at <= Top.next /\ from < Top.next
      /\ first \in 1..(Atoms+1) /\ at \in 1..(Atoms+1)
      /\ from \in Nat /\ first \in Nat /\ at \in Nat /\ Atoms \in Nat /\ p \in Nat
      /\ Top.next \in Nat /\ Top.last \in Nat /\ Top.next <= Top.last + 1
      /\ Top.last <= Atoms
  BY <1>2, MergeFacts
<1>4. at < Top.next
  BY <1>1, <1>2 DEF IInv, MergeInv
<1>5. /\ at <= Top.last /\ first \in 1..Atoms /\ at - 1 \in 1..Atoms
  BY <1>1, <1>3, <1>4
<1>6. text.gap[at - 1] = Top.level
  BY <1>1, <1>2, <1>3, <1>5, MergeFacts
<1>7. first <= p /\ p <= at - 1
  <2>1. first <= p
    BY DEF IsSplit
  <2>2. ASSUME at - 1 < p PROVE FALSE
    <3>1. at - 1 \in first..(p - 1)
      BY <1>1, <1>3, <2>2
    <3> QED BY <1>6, <3>1 DEF IsSplit
  <2> QED BY <1>3, <2>1, <2>2
<1>8. /\ text.start[first] \in Int /\ text.end[p] \in Int /\ text.end[at - 1] \in Int
      /\ Sep \in Nat /\ total \in Int
  BY <1>3, <1>5, TextFacts, TopFacts, HandFacts
<1>9. total = text.end[at - 1] - text.start[first]
  BY <1>1, <1>2, MergeFacts DEF Length
<1>10. total' \in Int /\ total' = IF first' = at THEN 0 ELSE Length(first', at - 1)
  <2>1. CASE p < at - 1
    <3>1. p # Top.last /\ p \in 1..(Atoms-1) /\ first' # at
      BY <1>3, <1>5, <2>1
    <3>2. text.gap[p] = Top.level
      BY <3>1 DEF IsSplit
    <3>3. text.start[p + 1] = text.end[p] + Sep
      BY <1>3, <3>1, <3>2, TextFacts DEF Sep
    <3>4. total' = text.end[at - 1] - text.end[p] - Sep
      BY <1>8, <1>9, <2>1 DEF Length
    <3>5. total' = text.end[at - 1] - text.start[p + 1]
      BY <1>8, <3>3, <3>4
    <3> QED BY <1>8, <3>1, <3>4, <3>5 DEF Length
  <2>2. CASE p = at - 1
    <3>1. first' = at /\ ~(p < at - 1)
      BY <1>3, <2>2
    <3>2. total' = 0
      BY <1>8, <1>9, <2>2, <3>1 DEF Length
    <3> QED BY <3>1, <3>2
  <2> QED BY <1>3, <1>7, <2>1, <2>2
<1>11. first' <= at /\ first <= first' /\ from <= first' /\ first' \in 1..(Atoms+1)
  BY <1>3, <1>7
<1>12. TypeOK'
  <2>1. stack \in Seq(Calls) \ {<<>>}
    BY <1>3 DEF TypeOK
  <2> QED BY <1>1, <1>3, <1>10, <1>11, <2>1, HandFacts, TypeStep
<1>13. StackInv' /\ GoodInv'
  BY <1>1, MergingStep
<1>14. MergeInv'
  <2>1. Top' = Top
    BY <1>1, SameStack
  <2> QED BY <1>1, <1>3, <1>4, <1>6, <1>11, <2>1 DEF MergeInv
<1>15. TotalIsLength' /\ OverlapInv'
  BY <1>1, <1>10 DEF TotalIsLength, OverlapInv, TextUnchanged, Length
<1>16. OrderInv'
  <2>1. OrderInv /\ Behind' = Behind
    BY <1>1 DEF IInv, Behind, Merging
  <2>2. \A f \in 1..Atoms : first' <= f => first <= f
    BY <1>3, <1>11
  <2> QED BY <1>1, <1>2, <2>1, <2>2, SameStack DEF OrderInv
<1>17. CoverInv'
  BY <1>1, SameStack DEF IInv, CoverInv, Covered
<1>18. ChunksFit' /\ OverlapWithinLimit' /\ InTextOrder'
  BY <1>1, SameChunks DEF IInv
<1> QED BY <1>12, <1>13, <1>14, <1>15, <1>16, <1>17, <1>18 DEF IInv

------------------------------------------------------------------------------
\* The invariant, and what it says of the chunks.

LEMMA InitIInv == Init => IInv
<1> SUFFICES ASSUME Init PROVE IInv
  OBVIOUS
<1>1. PICK c \in Calls : IsCall(c, 1, Atoms) /\ stack = <<c>>
  BY DEF Init
<1>2. /\ c.next = 1 /\ c.last = Atoms /\ Len(stack) = 1 /\ stack[1] = c /\ Top = c
      /\ stack \in Seq(Calls) \ {<<>>}
  BY <1>1 DEF IsCall, Top
<1>3. pc = "split" /\ from = 1 /\ chunks = <<>> /\ first = 1 /\ at = 1 /\ total = 0
  BY DEF Init
<1>4. Atoms \in Nat \ {0}
  BY TextAssumption
<1>5. /\ text.sep \in Seq(Nat) \ {<<>>}
      /\ text.gap \in [1..(Atoms-1) -> DOMAIN text.sep]
      /\ text.start \in [1..Atoms -> Int] /\ text.end \in [1..Atoms -> Int]
      /\ IsText(text) /\ size \in Nat \ {0} /\ overlap \in Nat
  <2>1. PICK sep \in SepLists :
           text.sep = sep /\ text.gap \in [1..(Atoms-1) -> DOMAIN sep]
    <3>1. PICK sep \in SepLists, len \in [1..Atoms -> 0..MaxAtom] :
             \E gap \in [1..(Atoms-1) -> DOMAIN sep] : \E start, end :
                text = [sep |-> sep, gap |-> gap, start |-> start, end |-> end]
      BY DEF Init
    <3>2. PICK gap \in [1..(Atoms-1) -> DOMAIN sep] : \E start, end :
             text = [sep |-> sep, gap |-> gap, start |-> start, end |-> end]
      BY <3>1
    <3> QED BY <3>2
  <2>2. text.sep \in Seq(Nat) \ {<<>>} /\ text.gap \in [1..(Atoms-1) -> DOMAIN text.sep]
    BY <2>1, OptionAssumption
  <2>3. size \in Nat \ {0} /\ overlap \in Nat
    BY OptionAssumption DEF Init
  <2> QED BY <2>2, <2>3 DEF Init
<1>6. TypeOK
  <2>1. chunks \in Seq(Chunks) /\ 1 \in 1..(Atoms+1) /\ 0 \in Int
    BY <1>3, <1>4
  <2> QED BY <1>2, <1>3, <1>5, <2>1 DEF TypeOK
<1>7. StackInv
  BY <1>2, <1>4 DEF StackInv
<1>8. GoodInv
  BY <1>2, <1>3, <1>4 DEF GoodInv, IsSplit
<1>9. ~Merging /\ Len(chunks) = 0 /\ DOMAIN chunks = 1..0
  BY <1>3 DEF Merging
<1>10. MergeInv /\ TotalIsLength /\ OverlapInv
  BY <1>3, <1>9 DEF MergeInv, TotalIsLength, OverlapInv
<1>11. OrderInv /\ CoverInv
  BY <1>3, <1>4, <1>9 DEF OrderInv, CoverInv, Covered
<1>12. ChunksFit /\ OverlapWithinLimit /\ InTextOrder
  BY <1>9 DEF ChunksFit, OverlapWithinLimit, InTextOrder
<1> QED BY <1>6, <1>7, <1>8, <1>10, <1>11, <1>12 DEF IInv

LEMMA StutterPreserves ==
    ASSUME IInv, UNCHANGED vars
    PROVE  IInv'
<1>1. /\ TextUnchanged /\ stack' = stack /\ pc' = pc /\ from' = from /\ chunks' = chunks
      /\ first' = first /\ at' = at /\ total' = total
      /\ text' = text /\ size' = size /\ overlap' = overlap
  BY DEF vars, TextUnchanged
<1>2. TypeOK'
  BY <1>1 DEF IInv, TypeOK, IsText, Calls, Chunks
<1>3. /\ StackInv' /\ GoodInv' /\ MergeInv' /\ TotalIsLength'
      /\ OrderInv' /\ OverlapInv' /\ CoverInv'
  BY <1>1, SameStack DEF IInv, StackInv, GoodInv, MergeInv, TotalIsLength, OrderInv,
                         OverlapInv, CoverInv, Merging, Behind, Covered
<1> QED BY <1>1, <1>2, <1>3, SameChunks DEF IInv

LEMMA StepIInv == IInv /\ [Next]_vars => IInv'
  BY GoodSplitPreserves, StartMergePreserves, KeepWholePreserves, DescendPreserves,
     AscendPreserves, AddSplitPreserves, EmitFullPreserves, PopPreserves,
     AddPoppedPreserves, EndMergePreserves, StutterPreserves
     DEF Next, SplitText, Done

\* In every state the splitter reaches, for every text, list of separators,
\* chunk size and overlap, the inductive invariant holds.
THEOREM Invariant == Spec => []IInv
  BY InitIInv, StepIInv, PTL DEF Spec

\* The calls of splitText, the splits in hand and the chunks are of their types
\* in every state: no call looks past its text and no chunk leaves it.
THEOREM TypeCorrect == Spec => []TypeOK
<1>1. IInv => TypeOK
  BY DEF IInv
<1> QED BY <1>1, Invariant, PTL

\* mergeSplits' running total is the length of currentDoc whenever it is read,
\* however many splits were added to it and popped from it before.
THEOREM TotalCorrect == Spec => []TotalIsLength
<1>1. IInv => TotalIsLength
  BY DEF IInv
<1> QED BY <1>1, Invariant, PTL

\* A chunk of joined splits exceeds ChunkSize by one separator at most, for any
\* ChunkSize and ChunkOverlap, an overlap larger than the size included.
THEOREM ChunkSizeKept == Spec => []ChunksFit
<1>1. IInv => ChunksFit
  BY DEF IInv
<1> QED BY <1>1, Invariant, PTL

\* Two chunks in a row share no more text than ChunkOverlap.
THEOREM OverlapKept == Spec => []OverlapWithinLimit
<1>1. IInv => OverlapWithinLimit
  BY DEF IInv
<1> QED BY <1>1, Invariant, PTL

\* The chunks come in the order of the text, over all calls of splitText.
THEOREM OrderKept == Spec => []InTextOrder
<1>1. IInv => InTextOrder
  BY DEF IInv
<1> QED BY <1>1, Invariant, PTL

\* When SplitText returns, every atom of the text that is not white space is in
\* some chunk.
THEOREM WholeText == Spec => []NothingIsLost
<1>1. ASSUME IInv PROVE NothingIsLost
  <2> SUFFICES ASSUME pc = "done", NEW a \in 1..Atoms, ~Blank(a, a)
               PROVE  \E k \in DOMAIN chunks : a \in chunks[k].from..chunks[k].to
    BY DEF NothingIsLost
  <2>1. TypeOK /\ from > Atoms /\ Covered = from
    BY <1>1 DEF IInv, GoodInv, Covered
  <2>2. /\ from \in Int /\ chunks \in Seq(Chunks)
        /\ \A k \in 1..Len(chunks) : chunks[k].from \in Int /\ chunks[k].to \in Int
    BY <2>1, HandFacts
  <2>3. a < from
    BY <2>1, <2>2, TextAssumption
  <2>4. PICK k \in 1..Len(chunks) : chunks[k].from <= a /\ a <= chunks[k].to
    BY <1>1, <2>1, <2>3 DEF IInv, CoverInv
  <2>5. k \in DOMAIN chunks
    BY <2>2
  <2> QED BY <2>2, <2>4, <2>5
<1> QED BY <1>1, Invariant, PTL
==============================================================================
