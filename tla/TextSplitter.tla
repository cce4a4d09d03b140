---------------------------- MODULE TextSplitter ----------------------------
(***************************************************************************)
(* textsplitter.RecursiveCharacter.SplitText: the recursion over the list  *)
(* of separators, and mergeSplits, the loop that joins small splits into   *)
(* overlapping chunks.  A text is a row of atoms, the stretches no         *)
(* separator divides, with the offset each starts and ends at and the      *)
(* separator that follows it; a split, a segment or a chunk is the         *)
(* interval of its atoms.  Separators are white space (what TrimSpace      *)
(* removes), listed coarsest first; LenFunc counts characters.             *)
(***************************************************************************)
EXTENDS Integers, Sequences

CONSTANTS
    Atoms,      \* number of atoms of a text
    MaxAtom,    \* bound: characters of an atom (one, if "" is a separator)
    SepLists,   \* the lists of Separators, each the lengths of its members
    Sizes,      \* the values of ChunkSize
    Overlaps    \* the values of ChunkOverlap

ASSUME TextAssumption == Atoms \in Nat \ {0} /\ MaxAtom \in Nat \ {0}
ASSUME OptionAssumption ==
    /\ SepLists \subseteq Seq(Nat) \ {<<>>}
    /\ Sizes \subseteq Nat \ {0} /\ Overlaps \subseteq Nat

VARIABLES
    text,       \* the text, and the separators it is read with
    size, overlap,
    pc,
    stack,      \* the calls of splitText, outermost first
    from,       \* goodSplits of the innermost call: atoms from..next-1
    chunks,     \* finalChunks of all calls, in order
    first, at,  \* mergeSplits: currentDoc is first..at-1, the next split at at
    total       \* mergeSplits: total

vars == <<text, size, overlap, pc, stack, from, chunks, first, at, total>>

Length(f, t) == text.end[t] - text.start[f]
Blank(f, t) == \A a \in f..t : text.start[a] = text.end[a]

\* A text: a separator of the list between any two atoms; the separator ""
\* only between two characters.
IsText(t) ==
    /\ t.start[1] = 0
    /\ \A a \in 1..Atoms :
          /\ t.start[a] <= t.end[a]
          /\ t.end[a] - t.start[a]
                <= IF \E s \in DOMAIN t.sep : t.sep[s] = 0 THEN 1 ELSE MaxAtom
    /\ \A a, b \in 1..Atoms :
          a <= b => t.start[a] <= t.start[b] /\ t.end[a] <= t.end[b]
    /\ \A g \in 1..(Atoms-1) :
          /\ t.start[g+1] = t.end[g] + t.sep[t.gap[g]]
          /\ t.sep[t.gap[g]] = 0 => t.start[g] # t.end[g] /\ t.start[g+1] # t.end[g+1]

\* splitText on the atoms f..l: the coarsest separator in them, how many finer
\* ones are left (newSeparators), and the splits still to look at.
IsCall(c, f, l) ==
    /\ c.next = f /\ c.last = l
    /\ IF f = l THEN c.level = Len(text.sep) /\ c.rest = 0
       ELSE /\ \E g \in f..(l-1) : text.gap[g] = c.level
            /\ \A g \in f..(l-1) : text.gap[g] >= c.level
            /\ c.rest = Len(text.sep) - c.level
Calls == [level : 1..Len(text.sep), rest : 0..Len(text.sep),
          next : 1..(Atoms+1), last : 1..Atoms]

Init ==
    /\ \E sep \in SepLists, len \in [1..Atoms -> 0..MaxAtom] :
       \E gap \in [1..(Atoms-1) -> DOMAIN sep] :
          LET start[a \in 1..Atoms] ==
                  IF a = 1 THEN 0 ELSE start[a-1] + len[a-1] + sep[gap[a-1]]
          IN  text = [sep |-> sep, gap |-> gap, start |-> start,
                      end |-> [a \in 1..Atoms |-> start[a] + len[a]]]
    /\ text.start \in [1..Atoms -> Int] /\ text.end \in [1..Atoms -> Int]
    /\ IsText(text)
    /\ size \in Sizes /\ overlap \in Overlaps
    /\ \E c \in Calls : IsCall(c, 1, Atoms) /\ stack = <<c>>
    /\ pc = "split" /\ from = 1 /\ chunks = <<>>
    /\ first = 1 /\ at = 1 /\ total = 0

Top == stack[Len(stack)]
Sep == text.sep[Top.level]
\* strings.Split: a split of the innermost call starts at a and ends at e.
IsSplit(a, e) ==
    /\ a <= e /\ e <= Top.last
    /\ e # Top.last => text.gap[e] = Top.level
    /\ \A g \in a..(e-1) : text.gap[g] # Top.level
Advance(e) == [stack EXCEPT ![Len(stack)].next = e + 1]
MergeUnchanged == UNCHANGED <<first, at, total>>
TextUnchanged == UNCHANGED <<text, size, overlap>>

------------------------------------------------------------------------------
\* The loop of splitText.

Looking(e) == /\ pc = "split" /\ Top.next <= Top.last
              /\ IsSplit(Top.next, e)
Big(e) == Length(Top.next, e) >= size

GoodSplit ==
    /\ \E e \in 1..Atoms :
          /\ Looking(e) /\ ~Big(e)
          /\ stack' = Advance(e)
    /\ UNCHANGED <<pc, from, chunks>> /\ MergeUnchanged /\ TextUnchanged

\* The good splits so far are merged before a big one, and at the end.
StartMerge ==
    /\ pc = "split" /\ from < Top.next
    /\ Top.next > Top.last \/ \E e \in 1..Atoms : Looking(e) /\ Big(e)
    /\ pc' = "merge" /\ first' = from /\ at' = from /\ total' = 0
    /\ UNCHANGED <<stack, from, chunks>> /\ TextUnchanged

\* No separator is left: the split is a chunk, whatever its size.
KeepWhole ==
    /\ from = Top.next /\ Top.rest = 0
    /\ \E e \in 1..Atoms :
          /\ Looking(e) /\ Big(e)
          /\ chunks' = Append(chunks, [from |-> from, to |-> e, level |-> 0])
          /\ stack' = Advance(e) /\ from' = e + 1
    /\ UNCHANGED pc /\ MergeUnchanged /\ TextUnchanged

Descend ==
    /\ from = Top.next /\ Top.rest > 0
    /\ \E e \in 1..Atoms, c \in Calls :
          /\ Looking(e) /\ Big(e)
          /\ IsCall(c, Top.next, e)
          /\ stack' = Append(Advance(e), c)
    /\ UNCHANGED <<pc, from, chunks>> /\ MergeUnchanged /\ TextUnchanged

Ascend ==
    /\ pc = "split" /\ Top.next > Top.last /\ from = Top.next
    /\ IF Len(stack) = 1 THEN pc' = "done" /\ UNCHANGED stack
       ELSE stack' = SubSeq(stack, 1, Len(stack) - 1) /\ UNCHANGED pc
    /\ UNCHANGED <<from, chunks>> /\ MergeUnchanged /\ TextUnchanged

------------------------------------------------------------------------------
\* mergeSplits.

\* Mutant: the separator is counted ahead of the first split, too.
WithSplitAndSep(e) == total + Length(at, e) + Sep

\* totalWithSplit, for the split at..e.
WithSplit(e) == total + Length(at, e) + IF first < at THEN Sep ELSE 0

\* joinDocs trims the chunk: it starts and ends with an atom that is not blank.
Trimmed(f, t) == /\ first <= f /\ f <= t /\ t < at
                 /\ ~Blank(f, f) /\ ~Blank(t, t)
                 /\ Blank(first, f - 1) /\ Blank(t + 1, at - 1)
Emit ==
    \/ Blank(first, at - 1) /\ UNCHANGED chunks
    \/ \E f, t \in 1..Atoms :
          /\ Trimmed(f, t)
          /\ chunks' = Append(chunks, [from |-> f, to |-> t, level |-> Top.level])

\* A split is added to currentDoc.
Add(e) == total' = WithSplit(e) /\ at' = e + 1 /\ pc' = "merge"

AddSplit ==
    /\ pc = "merge" /\ at < Top.next
    /\ \E e \in 1..Atoms :
          /\ IsSplit(at, e)
          /\ WithSplit(e) <= size \/ first = at
          /\ Add(e)
    /\ UNCHANGED <<stack, from, chunks, first>> /\ TextUnchanged

EmitFull ==
    /\ pc = "merge" /\ at < Top.next /\ first < at
    /\ \E e \in 1..Atoms : IsSplit(at, e) /\ WithSplit(e) > size
    /\ Emit /\ pc' = "pop"
    /\ UNCHANGED <<stack, from>> /\ MergeUnchanged /\ TextUnchanged

\* Mutants: one of the two conditions is left out.
ShouldPopOverlap(e) == first < at /\ total > overlap
ShouldPopSize(e) == /\ first < at /\ total > 0
                    /\ total + Length(at, e)
                         + (IF IsSplit(first, at - 1) THEN 0 ELSE Sep) > size

\* The separator counts only while currentDoc has two splits.
ShouldPop(e) ==
    /\ first < at
    /\ \/ total > overlap
       \/ /\ total + Length(at, e)
               + (IF IsSplit(first, at - 1) THEN 0 ELSE Sep) > size
          /\ total > 0

\* Mutant: currentDoc is not made shorter.
PopNothing ==
    /\ pc = "pop" /\ \E e \in 1..Atoms : IsSplit(at, e) /\ ShouldPop(e)
    /\ UNCHANGED vars

Pop ==
    /\ pc = "pop" /\ \E e \in 1..Atoms : IsSplit(at, e) /\ ShouldPop(e)
    /\ \E p \in 1..Atoms :
          /\ IsSplit(first, p)
          /\ total' = total - Length(first, p) - (IF p < at - 1 THEN Sep ELSE 0)
          /\ first' = p + 1
    /\ UNCHANGED <<pc, stack, from, chunks, at>> /\ TextUnchanged

AddPopped ==
    /\ pc = "pop"
    /\ \E e \in 1..Atoms : IsSplit(at, e) /\ ~ShouldPop(e) /\ Add(e)
    /\ UNCHANGED <<stack, from, chunks, first>> /\ TextUnchanged

\* Mutants: the last chunk is dropped; goodSplits is not emptied.
EndMergeDropping ==
    /\ pc = "merge" /\ at = Top.next
    /\ pc' = "split" /\ from' = Top.next
    /\ UNCHANGED <<stack, chunks>> /\ MergeUnchanged /\ TextUnchanged
EndMergeAgain ==
    /\ pc = "merge" /\ at = Top.next
    /\ Emit /\ pc' = "split"
    /\ UNCHANGED <<stack, from>> /\ MergeUnchanged /\ TextUnchanged

EndMerge ==
    /\ pc = "merge" /\ at = Top.next
    /\ Emit /\ pc' = "split" /\ from' = Top.next
    /\ UNCHANGED stack /\ MergeUnchanged /\ TextUnchanged

Done == pc = "done" /\ UNCHANGED vars

SplitText ==
    \/ GoodSplit \/ StartMerge \/ KeepWhole \/ Descend \/ Ascend
    \/ AddSplit \/ EmitFull \/ Pop \/ AddPopped \/ EndMerge

Next == SplitText \/ Done

Spec == Init /\ [][Next]_vars
\* The splitter runs to its end: nothing it does can block.
FairSpec == Spec /\ WF_vars(SplitText)

------------------------------------------------------------------------------
\* Properties.

Chunks == [from : 1..Atoms, to : 1..Atoms, level : 0..Len(text.sep)]

TypeOK ==
    /\ text.sep \in Seq(Nat) \ {<<>>}
    /\ text.gap \in [1..(Atoms-1) -> DOMAIN text.sep]
    /\ text.start \in [1..Atoms -> Int] /\ text.end \in [1..Atoms -> Int]
    /\ IsText(text)
    /\ size \in Nat \ {0} /\ overlap \in Nat
    /\ pc \in {"split", "merge", "pop", "done"}
    /\ stack \in Seq(Calls) \ {<<>>}
    /\ from \in 1..(Atoms+1) /\ first \in 1..(Atoms+1) /\ at \in 1..(Atoms+1)
    /\ total \in Int
    /\ chunks \in Seq(Chunks)

\* The running total of mergeSplits is the length of what it has in hand, its
\* separators counted, however many splits were added and popped.
TotalIsLength ==
    pc \in {"merge", "pop"} =>
        total = IF first = at THEN 0 ELSE Length(first, at - 1)

\* A chunk put together from splits is longer than ChunkSize by one separator
\* at most; only a split that cannot be divided may be longer.
ChunksFit ==
    \A k \in DOMAIN chunks :
        LET c == chunks[k] IN
        c.level # 0 => Length(c.from, c.to) <= size + text.sep[c.level]

\* The text two chunks share is no longer than ChunkOverlap.
OverlapWithinLimit ==
    \A k \in 1..(Len(chunks) - 1) :
        chunks[k+1].from <= chunks[k].to =>
            Length(chunks[k+1].from, chunks[k].to) <= overlap

\* The chunks come in the order of the text: none starts or ends before the one
\* ahead of it does.
InTextOrder ==
    \A j, k \in DOMAIN chunks : j < k =>
        chunks[j].from <= chunks[k].from /\ chunks[j].to <= chunks[k].to

\* When the splitter is done, every atom that is not blank is in some chunk.
NothingIsLost ==
    pc = "done" => \A a \in 1..Atoms :
        ~Blank(a, a) => \E k \in DOMAIN chunks : a \in chunks[k].from..chunks[k].to

\* No needless cut: two chunks of one merge that share nothing and have only
\* their separator between them would be too long as one.  Blank atoms, which
\* are counted and trimmed only afterwards, are left aside.
NoNeedlessCut ==
    \A k \in 1..(Len(chunks) - 1) :
        LET c == chunks[k]  d == chunks[k+1] IN
        /\ c.level # 0 /\ c.level = d.level
        /\ d.from = c.to + 1 /\ text.gap[c.to] = c.level
        /\ \A a \in 1..Atoms : ~Blank(a, a)
        => Length(c.from, d.to) > size

\* The splitter comes to its end.
Finishes == <>(pc = "done")
==============================================================================
