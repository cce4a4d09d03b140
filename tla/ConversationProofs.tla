-------------------------- MODULE ConversationProofs --------------------------
(***************************************************************************)
(* Proofs about how a conversation is kept.                                *)
(*                                                                         *)
(* ConversationMemory first, for any number of callers and turns and any   *)
(* sizes of their messages: what holds in every configuration is stated    *)
(* without a condition, what does not names the ones it holds in.  Then    *)
(* AnthropicMessages, from a model's answer to its replay as the           *)
(* assistant's turn, for any replies the service may give.                 *)
(***************************************************************************)
EXTENDS ConversationMemory, AnthropicMessages, SequenceTheorems, FiniteSetTheorems, TLAPS

\* A turn is there, question before answer.
Has(ms, t) == \E i, j \in 1..Len(ms) : i < j /\ ms[i] = Human(t) /\ ms[j] = AI(t)
Once(ms) == \A i, j \in 1..Len(ms) : ms[i] = ms[j] => i = j
Absent(ms, m) == \A i \in 1..Len(ms) : ms[i] # m
\* The sequence s is the end of the sequence l.
Ends(s, l) ==
    /\ Len(s) <= Len(l)
    /\ \A i \in 1..Len(s) : s[i] = l[i + (Len(l) - Len(s))]

\* Where one caller saves, what is said earlier.
Earlier(m, n) == m.turn < n.turn \/ (m.turn = n.turn /\ m.role = "human" /\ n.role = "ai")
Sorted(s) == \A i, j \in 1..Len(s) : i < j => Earlier(s[i], s[j])
Among(s, l) == \A i \in 1..Len(s) : ~Absent(l, s[i])
\* From their ends on, s and l are the same, for all of s or back to the place n of l.
Agrees(s, l, n) == \A k \in Nat : k < Len(s) /\ k < Len(l) - n => s[Len(s) - k] = l[Len(l) - k]
After(l, n) == SubSeq(l, n + 1, Len(l))
LastOf(s, k) == SubSeq(s, Len(s) - k + 1, Len(s))

\* As much as is to be kept of what was said since the place n: a whole window, or
\* what the limit allows.
Enough(s, l, n) ==
    CASE Memory = "buffer" -> TRUE
      [] Memory = "window" -> Len(s) >= Window \/ Len(s) >= Len(l) - n
      [] Memory = "token"  ->
            Store = "zep" \/ \A k \in Nat : n <= k /\ k < Len(l) - Len(s)
                                => Tokens(After(l, k)) > conf.maxTokenLimit
\* What was said, in its order, and to its end.
Recalled(s, l, n) == Sorted(s) /\ Among(s, l) /\ Agrees(s, l, n)
Good(s, l, n) == Recalled(s, l, n) /\ Enough(s, l, n)

Places == CASE Memory = "buffer" -> {"idle", "user", "ai"}
            [] Memory = "window" -> {"idle", "user", "ai", "cut", "set", "insert"}
            [] Memory = "token"  -> {"idle", "user", "ai", "count", "read", "set", "insert"}

\* Every message is inserted once, and a caller's turn is its own.
LogInv ==
    /\ Once(log)
    /\ \A i \in 1..Len(log) : log[i].turn <= turns
    /\ \A t \in acked : Has(log, t)
TurnInv(p) ==
    /\ turn[p] <= turns
    /\ pc[p] # "idle" =>
         /\ p \in conf.procs /\ pc[p] \in Places /\ turn[p] >= 1
         /\ \A q \in Callers \ {p} : pc[q] # "idle" => turn[p] # turn[q]
    /\ pc[p] = "user" => Absent(log, Human(turn[p]))
    /\ pc[p] \in {"user", "ai"} => Absent(log, AI(turn[p]))
    /\ pc[p] = "ai" => ~Absent(log, Human(turn[p]))
    /\ pc[p] \notin {"idle", "user", "ai"} => Has(log, turn[p])
TurnsInv == LogInv /\ \A p \in Callers : TurnInv(p)

\* Under a buffer memory the store is all that was inserted since it was last lost,
\* which a durable one never is.
BufferInv ==
    Memory = "buffer" =>
        /\ ~openTx
        /\ Len(store) = Len(log) - torn /\ Agrees(store, log, torn)
        /\ durable = IF Store = "slice" THEN <<>> ELSE log
        /\ Store # "slice" => torn = 0 /\ store = log

\* One caller trims what is stored, and reads all of it.
Alone == Memory = "buffer" \/ \A p, q \in conf.procs : p = q
ReadsAll == Store = "sqlite" => conf.limit >= 2 * MaxTurns
Trimming == Memory # "buffer" /\ Alone /\ ReadsAll

\* What is stored, and what is to be, is good; what a crash may bring back is told in
\* its order.
StoresGood ==
    /\ Sorted(log)
    /\ Recalled(store, log, torn) /\ Recalled(durable, log, Len(log))
    /\ ~openTx /\ Store # "slice" => durable = store
    /\ openTx => Store = "sqlite"
    /\ (\A p \in Callers : pc[p] # "insert") => Enough(store, log, torn)
    /\ \A p \in Callers :
         /\ pc[p] # "idle" => turn[p] = turns
         /\ pc[p] = "read" /\ Store # "zep" => Tokens(store) > conf.maxTokenLimit
         /\ pc[p] \in {"set", "insert"} /\ Store # "zep" => Good(local[p], log, torn)
         /\ pc[p] = "insert" => store = <<>> /\ TwoPhase
StoresInv == Trimming => StoresGood

\* A token memory acknowledges what fits.
Fits ==
    /\ turns \in acked /\ torn < Len(log) => Tokens(store) <= conf.maxTokenLimit
    /\ \A p \in Callers : pc[p] # "idle" => turns \notin acked
FitsInv == Trimming /\ Memory = "token" /\ Store # "zep" => Fits

\* How far from the end of the conversation the messages of a turn may be.
AgeInv ==
    Memory = "window" /\ Alone =>
        \A k \in 1..Len(log) :
          LET behind == Len(log) - k + 1 - 2 * (turns - log[k].turn) IN
          /\ behind <= 2
          /\ \A p \in Callers : /\ pc[p] = "user" => behind <= 0
                                /\ pc[p] = "ai" => behind <= 1

IInv == TypeOK /\ TurnsInv /\ BufferInv /\ StoresInv /\ FitsInv /\ AgeInv

------------------------------------------------------------------------------
\* Sequences of messages.

LEMMA AppendFacts ==
    ASSUME NEW S, NEW ms \in Seq(S), NEW m \in S
    PROVE  /\ Append(ms, m) \in Seq(S) /\ Len(Append(ms, m)) = Len(ms) + 1
           /\ Len(ms) \in Nat /\ Len(ms) + 1 \in 1..(Len(ms) + 1)
           /\ \A i \in 1..Len(ms) : Append(ms, m)[i] = ms[i] /\ i \in 1..(Len(ms) + 1)
           /\ Append(ms, m)[Len(ms) + 1] = m
           /\ \A i \in 1..(Len(ms) + 1) : i \in 1..Len(ms) \/ i = Len(ms) + 1
<1>1. Len(ms) \in Nat
  BY LenProperties
<1> QED BY <1>1, AppendProperties

LEMMA AbsentAppend ==
    ASSUME NEW S, NEW ms \in Seq(S), NEW m \in S, NEW n, Absent(ms, n), n # m
    PROVE  Absent(Append(ms, m), n)
<1> SUFFICES ASSUME NEW i \in 1..Len(Append(ms, m)) PROVE Append(ms, m)[i] # n
  BY DEF Absent
<1>1. i \in 1..Len(ms) \/ i = Len(ms) + 1
  BY AppendFacts
<1> QED BY <1>1, AppendFacts DEF Absent

LEMMA OnceAppend ==
    ASSUME NEW S, NEW ms \in Seq(S), NEW m \in S, Once(ms), Absent(ms, m)
    PROVE  Once(Append(ms, m))
<1> SUFFICES ASSUME NEW i \in 1..Len(Append(ms, m)), NEW j \in 1..Len(Append(ms, m)),
                    Append(ms, m)[i] = Append(ms, m)[j]
             PROVE  i = j
  BY DEF Once
<1>1. (i \in 1..Len(ms) \/ i = Len(ms) + 1) /\ (j \in 1..Len(ms) \/ j = Len(ms) + 1)
  BY AppendFacts
<1>2. CASE i \in 1..Len(ms) /\ j \in 1..Len(ms)
  BY <1>2, AppendFacts DEF Once
<1>3. CASE i \in 1..Len(ms) /\ j = Len(ms) + 1
  BY <1>3, AppendFacts DEF Absent
<1>4. CASE i = Len(ms) + 1 /\ j \in 1..Len(ms)
  BY <1>4, AppendFacts DEF Absent
<1> QED BY <1>1, <1>2, <1>3, <1>4

LEMMA HasAppend ==
    ASSUME NEW S, NEW ms \in Seq(S), NEW m \in S, NEW t, Has(ms, t)
    PROVE  Has(Append(ms, m), t)
<1>1. PICK i, j \in 1..Len(ms) : i < j /\ ms[i] = Human(t) /\ ms[j] = AI(t)
  BY DEF Has
<1> QED BY <1>1, AppendFacts DEF Has

LEMMA HasAnswer ==
    ASSUME NEW ms \in Seq(Message), NEW t, AI(t) \in Message, ~Absent(ms, Human(t))
    PROVE  Has(Append(ms, AI(t)), t)
<1>1. PICK i \in 1..Len(ms) : ms[i] = Human(t)
  BY DEF Absent
<1>2. /\ i \in 1..Len(Append(ms, AI(t))) /\ Append(ms, AI(t))[i] = Human(t)
      /\ Len(ms) + 1 \in 1..Len(Append(ms, AI(t))) /\ Append(ms, AI(t))[Len(ms) + 1] = AI(t)
      /\ Len(ms) \in Nat
  BY <1>1, AppendFacts
<1>3. i < Len(ms) + 1
  BY <1>2
<1> QED BY <1>2, <1>3 DEF Has

\* Where every message is there once, its position is the one place it has.
LEMMA PositionFacts ==
    ASSUME NEW ms \in Seq(Message), Once(ms)
    PROVE  /\ DOMAIN ms = 1..Len(ms) /\ Len(ms) \in Nat
           /\ \A k \in 1..Len(ms) : Position(ms[k], ms) = k
<1>1. DOMAIN ms = 1..Len(ms) /\ Len(ms) \in Nat
  BY LenProperties
<1>2. \A k \in 1..Len(ms) : Position(ms[k], ms) = k
  BY <1>1 DEF Position, Once
<1> QED BY <1>1, <1>2

LEMMA HasHolds ==
    ASSUME NEW ms \in Seq(Message), NEW t, Once(ms), Has(ms, t)
    PROVE  Holds(ms, t)
<1>2. PICK i, j \in 1..Len(ms) : i < j /\ ms[i] = Human(t) /\ ms[j] = AI(t)
  BY DEF Has
<1>4. Position(Human(t), ms) = i /\ Position(AI(t), ms) = j
  BY <1>2, PositionFacts
<1>5. Human(t) \in ToSet(ms) /\ AI(t) \in ToSet(ms)
  BY <1>2, PositionFacts DEF ToSet
<1> QED BY <1>2, <1>4, <1>5 DEF Holds

\* A part of a sequence of messages, from the place a to the place b.
LEMMA SubSeqFacts ==
    ASSUME NEW S, NEW s \in Seq(S), NEW a \in Int, NEW b \in Int,
           1 <= a, a <= b + 1, b <= Len(s)
    PROVE  LET u == SubSeq(s, a, b) IN
           /\ u \in Seq(S) /\ Len(u) = (b - a) + 1
           /\ \A i \in 1..Len(u) : a + i - 1 \in 1..Len(s) /\ u[i] = s[a + i - 1]
<1>1. Len(s) \in Nat
  BY LenProperties
<1>2. \A i \in a..b : s[i] \in S
  BY <1>1, ElementOfSeq
<1> DEFINE u == SubSeq(s, a, b)
<1>3. /\ u \in Seq(S) /\ Len(u) = IF a <= b THEN b - a + 1 ELSE 0
      /\ \A i \in 1..(b - a + 1) : u[i] = s[a + i - 1]
  BY <1>2, SubSeqProperties
<1> HIDE DEF u
<1>4. Len(u) = (b - a) + 1
  BY <1>3
<1>5. \A i \in 1..Len(u) : a + i - 1 \in 1..Len(s) /\ u[i] = s[a + i - 1]
  BY <1>1, <1>3, <1>4
<1> QED BY <1>3, <1>4, <1>5 DEF u

\* The last k messages, and the messages after the place n.
LEMMA LastFacts ==
    ASSUME NEW S, NEW s \in Seq(S), NEW k \in Int, 0 <= k, k <= Len(s)
    PROVE  /\ LastOf(s, k) \in Seq(S) /\ Len(LastOf(s, k)) = k
           /\ \A i \in 1..k : /\ i + (Len(s) - k) \in 1..Len(s)
                              /\ LastOf(s, k)[i] = s[i + (Len(s) - k)]
<1>1. Len(s) \in Nat
  BY LenProperties
<1>2. PICK a \in Int : a = Len(s) - k + 1
  BY <1>1
<1>3. 1 <= a /\ a <= Len(s) + 1 /\ Len(s) \in Int /\ (Len(s) - a) + 1 = k
  BY <1>1, <1>2
<1>4. PICK u : u = SubSeq(s, a, Len(s))
  OBVIOUS
<1>5. /\ u \in Seq(S) /\ Len(u) = (Len(s) - a) + 1
      /\ \A i \in 1..Len(u) : a + i - 1 \in 1..Len(s) /\ u[i] = s[a + i - 1]
  BY <1>3, <1>4, SubSeqFacts
<1>6. \A i \in 1..k : a + i - 1 = i + (Len(s) - k)
  BY <1>1, <1>2
<1>7. LastOf(s, k) = u
  BY <1>2, <1>4 DEF LastOf
<1> QED BY <1>3, <1>5, <1>6, <1>7

LEMMA AfterFacts ==
    ASSUME NEW S, NEW s \in Seq(S), NEW n \in Int, 0 <= n, n <= Len(s)
    PROVE  /\ After(s, n) \in Seq(S) /\ Len(After(s, n)) = Len(s) - n
           /\ \A i \in 1..(Len(s) - n) : i + n \in 1..Len(s) /\ After(s, n)[i] = s[i + n]
<1>1. Len(s) \in Nat
  BY LenProperties
<1>2. PICK k \in Int : k = Len(s) - n
  BY <1>1
<1>3. 0 <= k /\ k <= Len(s) /\ Len(s) - k = n /\ Len(s) - k + 1 = n + 1
  BY <1>1, <1>2
<1>4. After(s, n) = LastOf(s, k)
  BY <1>3 DEF After, LastOf
<1>5. PICK u : u = LastOf(s, k)
  OBVIOUS
<1>6. /\ u \in Seq(S) /\ Len(u) = k
      /\ \A i \in 1..k : i + (Len(s) - k) \in 1..Len(s) /\ u[i] = s[i + (Len(s) - k)]
  BY <1>3, <1>5, LastFacts
<1> QED BY <1>2, <1>3, <1>4, <1>5, <1>6

LEMMA EndsIsSuffix ==
    ASSUME NEW S, NEW s \in Seq(S), NEW l \in Seq(S), Ends(s, l)
    PROVE  IsSuffix(s, l)
<1>1. Len(s) \in Nat /\ Len(l) \in Nat /\ Len(s) <= Len(l)
  BY LenProperties DEF Ends
<1> DEFINE rs == [i \in 1..Len(s) |-> s[(Len(s) - i) + 1]]
           rl == [i \in 1..Len(l) |-> l[(Len(l) - i) + 1]]
<1>2. Reverse(s) = rs /\ Reverse(l) = rl
  BY DEF Reverse
<1>3. \A i \in 1..Len(s) : (Len(s) - i) + 1 \in 1..Len(s)
  BY <1>1
<1>4. \A i \in 1..Len(l) : (Len(l) - i) + 1 \in 1..Len(l)
  BY <1>1
<1>5. \A i \in 1..Len(s) : s[(Len(s) - i) + 1] \in S
  BY <1>3, ElementOfSeq
<1>6. \A i \in 1..Len(l) : l[(Len(l) - i) + 1] \in S
  BY <1>4, ElementOfSeq
<1>7. rs \in Seq(S) /\ Len(rs) = Len(s)
  BY <1>1, <1>5
<1>8. rl \in Seq(S) /\ Len(rl) = Len(l)
  BY <1>1, <1>6
<1>9. ASSUME NEW i \in 1..Len(s) PROVE rs[i] = rl[i] /\ rl[i] \in S
  <2>1. i \in 1..Len(l)
    BY <1>1
  <2>2. rs[i] = s[(Len(s) - i) + 1] /\ rl[i] = l[(Len(l) - i) + 1]
    BY <2>1
  <2>3. s[(Len(s) - i) + 1] = l[((Len(s) - i) + 1) + (Len(l) - Len(s))]
    BY <1>3 DEF Ends
  <2>4. ((Len(s) - i) + 1) + (Len(l) - Len(s)) = (Len(l) - i) + 1
    BY <1>1
  <2>5. l[(Len(l) - i) + 1] \in S
    BY <1>6, <2>1
  <2> QED BY <2>2, <2>3, <2>4, <2>5
<1> HIDE DEF rs, rl
<1>10. SubSeq(rs, 1, Len(s)) = rs
  BY <1>7, SubSeqFull
<1>11. /\ SubSeq(rl, 1, Len(s)) \in Seq(S) /\ Len(SubSeq(rl, 1, Len(s))) = Len(s)
       /\ \A i \in 1..Len(s) : SubSeq(rl, 1, Len(s))[i] = rl[i]
  <2>1. /\ SubSeq(rl, 1, Len(s)) \in Seq(S)
        /\ Len(SubSeq(rl, 1, Len(s))) = IF 1 <= Len(s) THEN Len(s) - 1 + 1 ELSE 0
        /\ \A i \in 1..(Len(s) - 1 + 1) : SubSeq(rl, 1, Len(s))[i] = rl[1 + i - 1]
    BY <1>1, <1>9, SubSeqProperties
  <2>2. Len(s) - 1 + 1 = Len(s) /\ \A i \in 1..Len(s) : 1 + i - 1 = i
    BY <1>1
  <2>3. (IF 1 <= Len(s) THEN Len(s) - 1 + 1 ELSE 0) = Len(s)
    BY <1>1
  <2> QED BY <2>1, <2>2, <2>3
<1>12. rs = SubSeq(rl, 1, Len(s))
  BY <1>7, <1>9, <1>11, SeqEqual
<1> QED BY <1>1, <1>2, <1>7, <1>8, <1>10, <1>12 DEF IsSuffix, IsPrefix

\* Two sequences that agree from their ends: the shorter is the end of the other.
LEMMA AgreesSuffix ==
    ASSUME NEW S, NEW s \in Seq(S), NEW l \in Seq(S), NEW n \in Int, 0 <= n, n <= Len(l),
           Agrees(s, l, n)
    PROVE  /\ Len(s) <= Len(l) - n => IsSuffix(s, After(l, n))
           /\ Len(s) >= Len(l) - n => IsSuffix(After(l, n), s)
<1>1. Len(s) \in Nat /\ Len(l) \in Nat
  BY LenProperties
<1>2. PICK r \in Seq(S) : /\ r = After(l, n) /\ Len(r) = Len(l) - n
                          /\ \A i \in 1..Len(r) : r[i] = l[i + n]
  BY AfterFacts
<1>3. Len(r) \in Nat
  BY LenProperties
<1>4. ASSUME Len(s) <= Len(r) PROVE Ends(s, r)
  <2>1. ASSUME NEW i \in 1..Len(s) PROVE s[i] = r[i + (Len(r) - Len(s))]
    <3>1. PICK k \in Int : k = Len(s) - i
      BY <1>1
    <3>2. k \in Nat /\ k < Len(s) /\ k < Len(l) - n /\ Len(s) - k = i
      BY <1>1, <1>2, <1>4, <3>1
    <3>3. s[i] = l[Len(l) - k]
      BY <3>2 DEF Agrees
    <3>4. i + (Len(r) - Len(s)) \in 1..Len(r) /\ (i + (Len(r) - Len(s))) + n = Len(l) - k
      BY <1>1, <1>2, <1>3, <1>4, <3>1
    <3> QED BY <1>2, <3>3, <3>4
  <2> QED BY <1>4, <2>1 DEF Ends
<1>5. ASSUME Len(s) >= Len(r) PROVE Ends(r, s)
  <2>1. ASSUME NEW i \in 1..Len(r) PROVE r[i] = s[i + (Len(s) - Len(r))]
    <3>1. PICK k : k = Len(r) - i
      OBVIOUS
    <3>2. k \in Nat /\ k < Len(s) /\ k < Len(l) - n
      BY <1>1, <1>2, <1>3, <1>5, <3>1, SMT
    <3>3. s[Len(s) - k] = l[Len(l) - k]
      BY <3>2 DEF Agrees
    <3>4. i + (Len(s) - Len(r)) = Len(s) - k /\ i + n = Len(l) - k
      BY <1>1, <1>2, <1>3, <3>1
    <3> QED BY <1>2, <3>3, <3>4
  <2>2. Len(r) <= Len(s)
    BY <1>1, <1>3, <1>5
  <2> QED BY <2>1, <2>2 DEF Ends
<1> QED BY <1>1, <1>2, <1>4, <1>5, EndsIsSuffix

------------------------------------------------------------------------------
\* What is told in the order it was said.

LEMMA EarlierFacts ==
    /\ \A m \in Message : m.turn \in Int /\ m.role \in {"human", "ai"} /\ m.turn \in 1..MaxTurns
    /\ \A m, n \in Message : Earlier(m, n) => m # n /\ ~Earlier(n, m)
<1>1. \A m \in Message : m.turn \in 1..MaxTurns /\ m.role \in {"human", "ai"}
  BY DEF Message
<1>2. \A m \in Message : m.turn \in Int
  BY <1>1, MemoryAssumption
<1>3. ASSUME NEW m \in Message, NEW n \in Message, Earlier(m, n) PROVE ~Earlier(n, m) /\ m # n
  BY <1>1, <1>2, <1>3 DEF Earlier
<1> QED BY <1>1, <1>2, <1>3

LEMMA SortedOnce ==
    ASSUME NEW s \in Seq(Message), Sorted(s)
    PROVE  Once(s)
<1> SUFFICES ASSUME NEW i \in 1..Len(s), NEW j \in 1..Len(s), s[i] = s[j], i # j PROVE FALSE
  BY DEF Once
<1>1. s[i] \in Message /\ s[j] \in Message /\ Len(s) \in Nat
  BY ElementOfSeq, LenProperties
<1>2. i < j \/ j < i
  BY <1>1
<1>3. Earlier(s[i], s[j]) \/ Earlier(s[j], s[i])
  BY <1>2 DEF Sorted
<1> QED BY <1>1, <1>3, EarlierFacts

LEMMA SortedFollows ==
    ASSUME NEW s \in Seq(Message), NEW l \in Seq(Message), Sorted(s), Sorted(l), Among(s, l)
    PROVE  Follows(s, l)
<1>1. Once(l) /\ DOMAIN s = 1..Len(s) /\ Len(s) \in Nat
  BY SortedOnce, LenProperties
<1>2. /\ DOMAIN l = 1..Len(l) /\ Len(l) \in Nat
      /\ \A k \in 1..Len(l) : Position(l[k], l) = k /\ l[k] \in Message
  BY <1>1, PositionFacts, ElementOfSeq
<1>3. ToSet(s) \subseteq ToSet(l)
  BY <1>1, <1>2 DEF ToSet, Among, Absent
<1>4. ASSUME NEW i \in 1..Len(s), NEW j \in 1..Len(s), i < j
      PROVE  Position(s[i], l) < Position(s[j], l)
  <2>1. PICK a \in 1..Len(l) : l[a] = s[i]
    BY DEF Among, Absent
  <2>2. PICK b \in 1..Len(l) : l[b] = s[j]
    BY DEF Among, Absent
  <2>3. Earlier(l[a], l[b])
    BY <1>4, <2>1, <2>2 DEF Sorted
  <2>4. a # b /\ ~(b < a)
    BY <1>2, <2>3, EarlierFacts DEF Sorted
  <2>5. a < b
    BY <1>2, <2>4
  <2> QED BY <1>2, <2>1, <2>2, <2>5
<1> QED BY <1>1, <1>3, <1>4 DEF Follows

LEMMA RecalledNone ==
    ASSUME NEW l, NEW n
    PROVE  Recalled(<<>>, l, n)
<1>1. Len(<<>>) = 0 /\ \A k \in Nat : ~(k < 0)
  BY LenProperties
<1> QED BY <1>1 DEF Recalled, Sorted, Among, Agrees

LEMMA AgreesAppend ==
    ASSUME NEW s \in Seq(Message), NEW l \in Seq(Message), NEW m \in Message, NEW n \in Int,
           Agrees(s, l, n), 0 <= n, n <= Len(l)
    PROVE  Agrees(Append(s, m), Append(l, m), n)
<1> PICK t : t = Append(s, m)
  OBVIOUS
<1> PICK k : k = Append(l, m)
  OBVIOUS
<1>1. /\ t \in Seq(Message) /\ Len(t) = Len(s) + 1 /\ Len(s) \in Nat
      /\ \A i \in 1..Len(s) : t[i] = s[i]
      /\ t[Len(s) + 1] = m
  BY AppendFacts
<1>2. /\ k \in Seq(Message) /\ Len(k) = Len(l) + 1 /\ Len(l) \in Nat
      /\ \A i \in 1..Len(l) : k[i] = l[i]
      /\ k[Len(l) + 1] = m
  BY AppendFacts
<1> SUFFICES ASSUME NEW d \in Nat, d < Len(t), d < Len(k) - n PROVE t[Len(t) - d] = k[Len(k) - d]
  BY DEF Agrees
<1>3. CASE d = 0
  BY <1>1, <1>2, <1>3
<1>4. CASE d # 0
  <2>1. PICK e \in Nat : d = e + 1
    BY <1>4
  <2>2. e < Len(s) /\ Len(s) - e \in 1..Len(s)
    BY <1>1, <2>1, SMT
  <2>3. e < Len(l) - n
    BY <1>2, <2>1, SMT
  <2>4. Len(l) - e \in 1..Len(l)
    BY <1>2, <2>1, <2>3, SMT
  <2>5. s[Len(s) - e] = l[Len(l) - e]
    BY <2>2, <2>3 DEF Agrees
  <2>6. Len(t) - d = Len(s) - e /\ Len(k) - d = Len(l) - e
    BY <1>1, <1>2, <2>1
  <2> QED BY <1>1, <1>2, <2>2, <2>4, <2>5, <2>6
<1> QED BY <1>3, <1>4

LEMMA RecalledAppend ==
    ASSUME NEW s \in Seq(Message), NEW l \in Seq(Message), NEW m \in Message, NEW n \in Int,
           Recalled(s, l, n), 0 <= n, n <= Len(l), \A i \in 1..Len(l) : Earlier(l[i], m)
    PROVE  Recalled(Append(s, m), Append(l, m), n)
<1> PICK t : t = Append(s, m)
  OBVIOUS
<1> PICK k : k = Append(l, m)
  OBVIOUS
<1>1. /\ t \in Seq(Message) /\ Len(t) = Len(s) + 1 /\ Len(s) \in Nat
      /\ \A i \in 1..Len(s) : t[i] = s[i]
      /\ t[Len(s) + 1] = m
      /\ \A i \in 1..Len(t) : i \in 1..Len(s) \/ i = Len(s) + 1
  BY AppendFacts
<1>2. /\ k \in Seq(Message) /\ Len(k) = Len(l) + 1 /\ Len(l) \in Nat
      /\ \A i \in 1..Len(l) : k[i] = l[i] /\ i \in 1..Len(k)
      /\ k[Len(l) + 1] = m /\ Len(l) + 1 \in 1..Len(k)
  BY AppendFacts
<1>3. \A i \in 1..Len(s) : \E j \in 1..Len(l) : l[j] = s[i]
  BY DEF Recalled, Among, Absent
<1>4. Sorted(t)
  <2> SUFFICES ASSUME NEW i \in 1..Len(t), NEW j \in 1..Len(t), i < j PROVE Earlier(t[i], t[j])
    BY DEF Sorted
  <2>1. i \in 1..Len(s)
    BY <1>1
  <2>2. CASE j \in 1..Len(s)
    BY <1>1, <2>1, <2>2 DEF Recalled, Sorted
  <2>3. CASE j = Len(s) + 1
    BY <1>1, <1>3, <2>1, <2>3
  <2> QED BY <1>1, <2>2, <2>3
<1>5. Among(t, k)
  <2> SUFFICES ASSUME NEW i \in 1..Len(t) PROVE \E j \in 1..Len(k) : k[j] = t[i]
    BY DEF Among, Absent
  <2>1. CASE i \in 1..Len(s)
    BY <1>1, <1>2, <1>3, <2>1
  <2>2. CASE i = Len(s) + 1
    BY <1>1, <1>2, <2>2
  <2> QED BY <1>1, <2>1, <2>2
<1>6. Agrees(t, k, n)
  BY AgreesAppend DEF Recalled
<1> QED BY <1>1, <1>2, <1>4, <1>5, <1>6 DEF Recalled

LEMMA SortedAppend ==
    ASSUME NEW l \in Seq(Message), NEW m \in Message, Sorted(l),
           \A i \in 1..Len(l) : Earlier(l[i], m)
    PROVE  Sorted(Append(l, m))
<1>1. Len(l) \in Nat /\ Among(l, l) /\ Agrees(l, l, Len(l))
  BY LenProperties DEF Among, Absent, Agrees
<1>2. Recalled(l, l, Len(l)) /\ Len(l) \in Int
  BY <1>1 DEF Recalled
<1>3. Recalled(Append(l, m), Append(l, m), Len(l))
  BY <1>1, <1>2, RecalledAppend
<1> QED BY <1>3 DEF Recalled

\* Of what was lost only the order is known.
LEMMA RecalledLost ==
    ASSUME NEW s \in Seq(Message), NEW l \in Seq(Message), NEW n, Recalled(s, l, n)
    PROVE  /\ Recalled(s, l, Len(l))
           /\ \A m \in Message : Recalled(s, Append(l, m), Len(Append(l, m)))
<1>1. Len(l) \in Nat /\ Sorted(s) /\ Among(s, l)
  BY LenProperties DEF Recalled
<1>2. ASSUME NEW k \in Seq(Message) PROVE Agrees(s, k, Len(k))
  <2>1. Len(k) \in Nat
    BY LenProperties
  <2> QED BY <2>1 DEF Agrees
<1>3. ASSUME NEW m \in Message PROVE Among(s, Append(l, m))
  BY <1>1, AppendFacts DEF Among, Absent
<1> QED BY <1>1, <1>2, <1>3, AppendFacts DEF Recalled

LEMMA RecalledPart ==
    ASSUME NEW s \in Seq(Message), NEW l \in Seq(Message), NEW n, Recalled(s, l, n),
           NEW a \in Int, NEW b \in Int, 1 <= a, a <= b + 1, b <= Len(s)
    PROVE  SubSeq(s, a, b) \in Seq(Message) /\ Recalled(SubSeq(s, a, b), l, Len(l))
<1> PICK u : u = SubSeq(s, a, b)
  OBVIOUS
<1>1. /\ u \in Seq(Message) /\ Len(u) = (b - a) + 1
      /\ \A i \in 1..Len(u) : a + i - 1 \in 1..Len(s) /\ u[i] = s[a + i - 1]
  BY SubSeqFacts
<1>2. Len(u) \in Nat /\ Len(l) \in Nat
  BY LenProperties
<1>3. Sorted(u)
  <2> SUFFICES ASSUME NEW i \in 1..Len(u), NEW j \in 1..Len(u), i < j PROVE Earlier(u[i], u[j])
    BY DEF Sorted
  <2>1. a + i - 1 < a + j - 1
    BY <1>2
  <2> QED BY <1>1, <2>1 DEF Recalled, Sorted
<1>4. Among(u, l)
  BY <1>1 DEF Recalled, Among
<1>5. Agrees(u, l, Len(l))
  BY <1>2 DEF Agrees
<1> QED BY <1>1, <1>3, <1>4, <1>5 DEF Recalled

LEMMA RecalledLast ==
    ASSUME NEW s \in Seq(Message), NEW l \in Seq(Message), NEW n, Recalled(s, l, n),
           NEW k \in Int, 0 <= k, k <= Len(s)
    PROVE  LastOf(s, k) \in Seq(Message) /\ Recalled(LastOf(s, k), l, n)
<1> PICK u : u = LastOf(s, k)
  OBVIOUS
<1>1. /\ u \in Seq(Message) /\ Len(u) = k
      /\ \A i \in 1..k : i + (Len(s) - k) \in 1..Len(s) /\ u[i] = s[i + (Len(s) - k)]
  BY LastFacts
<1>2. Len(s) \in Nat
  BY LenProperties
<1>3. Sorted(u)
  <2> SUFFICES ASSUME NEW i \in 1..Len(u), NEW j \in 1..Len(u), i < j PROVE Earlier(u[i], u[j])
    BY DEF Sorted
  <2>1. i + (Len(s) - k) < j + (Len(s) - k)
    BY <1>2
  <2> QED BY <1>1, <2>1 DEF Recalled, Sorted
<1>4. Among(u, l)
  BY <1>1 DEF Recalled, Among
<1>5. Agrees(u, l, n)
  <2> SUFFICES ASSUME NEW d \in Nat, d < k, d < Len(l) - n PROVE u[k - d] = l[Len(l) - d]
    BY <1>1 DEF Agrees
  <2>1. d < Len(s) /\ k - d \in 1..k /\ (k - d) + (Len(s) - k) = Len(s) - d
    BY <1>2
  <2>2. u[k - d] = s[Len(s) - d]
    BY <1>1, <2>1
  <2> QED BY <2>1, <2>2 DEF Recalled, Agrees
<1> QED BY <1>1, <1>3, <1>4, <1>5 DEF Recalled

------------------------------------------------------------------------------
\* Tokens.

\* The numbers up to n.
LEMMA UpToFacts ==
    ASSUME NEW n \in Nat
    PROVE  IsFiniteSet(1..n) /\ Cardinality(1..n) = n
<1>1. 1 \in Int /\ n \in Int
  OBVIOUS
<1>2. IsFiniteSet(1..n) /\ Cardinality(1..n) = IF 1 > n THEN 0 ELSE n - 1 + 1
  BY ONLY <1>1, FS_Interval
<1>3. (IF 1 > n THEN 0 ELSE n - 1 + 1) = n
  OBVIOUS
<1> QED BY <1>2, <1>3

LEMMA TokensType ==
    ASSUME NEW ms \in Seq(Message)
    PROVE  Tokens(ms) \in Nat /\ IsFiniteSet(TokensOf(ms))
<1>1. \A i \in 1..Len(ms) : ms[i] \in Message
  BY ElementOfSeq
<1>2. DOMAIN ms = 1..Len(ms) /\ Len(ms) \in Nat
  BY LenProperties
<1>3. IsFiniteSet(1..Len(ms))
  BY <1>2, UpToFacts
<1> DEFINE S == {{i} \X (1..Size[ms[i].turn]) : i \in DOMAIN ms}
           f == [i \in 1..Len(ms) |-> {i} \X (1..Size[ms[i].turn])]
<1>4. ASSUME NEW i \in 1..Len(ms) PROVE IsFiniteSet(f[i])
  <2>1. Size[ms[i].turn] \in Nat
    <3>1. ms[i].turn \in 1..MaxTurns /\ MaxTurns \in Nat
      BY <1>1, MemoryAssumption DEF Message
    <3>2. ms[i].turn \in 0..MaxTurns
      BY <3>1
    <3> QED BY <3>2, MemoryAssumption
  <2>2. IsFiniteSet({i}) /\ IsFiniteSet(1..Size[ms[i].turn])
    <3>1. PICK k \in Nat : k = Size[ms[i].turn]
      BY <2>1
    <3>2. IsFiniteSet({i})
      BY FS_Singleton
    <3>3. IsFiniteSet(1..k)
      BY <3>1, UpToFacts
    <3> QED BY <3>1, <3>2, <3>3
  <2>3. IsFiniteSet({i} \X (1..Size[ms[i].turn]))
    BY <2>2, FS_Product
  <2> QED BY <2>3
<1>5. f \in Surjection(1..Len(ms), S)
  BY <1>2 DEF Surjection
<1>6. \A T \in S : IsFiniteSet(T)
  BY <1>2, <1>4
<1> HIDE DEF S, f
<1>7. IsFiniteSet(S)
  BY <1>3, <1>5, FS_Surjection
<1>8. IsFiniteSet(UNION S)
  BY <1>6, <1>7, FS_UNION
<1>9. TokensOf(ms) = UNION S
  BY DEF TokensOf, S
<1> QED BY <1>8, <1>9, FS_CardinalityType DEF Tokens

\* One message more has no fewer tokens.
LEMMA TokensAppend ==
    ASSUME NEW ms \in Seq(Message), NEW m \in Message
    PROVE  Tokens(ms) <= Tokens(Append(ms, m))
<1>1. Append(ms, m) \in Seq(Message) /\ DOMAIN ms \subseteq DOMAIN Append(ms, m)
      /\ \A i \in DOMAIN ms : Append(ms, m)[i] = ms[i]
  BY AppendFacts, LenProperties
<1>2. TokensOf(ms) \subseteq TokensOf(Append(ms, m))
  BY <1>1 DEF TokensOf
<1> QED BY <1>1, <1>2, TokensType, FS_Subset DEF Tokens

LEMMA TokensNone == TokensOf(<<>>) = {} /\ Tokens(<<>>) = 0
<1>1. DOMAIN <<>> = {}
  OBVIOUS
<1>2. TokensOf(<<>>) = {}
  BY <1>1 DEF TokensOf
<1> QED BY <1>2, FS_EmptySet DEF Tokens

LEMMA AfterAppend ==
    ASSUME NEW l \in Seq(Message), NEW m \in Message, NEW n \in Int, 0 <= n, n <= Len(l)
    PROVE  After(Append(l, m), n) = Append(After(l, n), m)
<1> PICK k : k = Append(l, m)
  OBVIOUS
<1> PICK r : r = After(l, n)
  OBVIOUS
<1> PICK a : a = After(k, n)
  OBVIOUS
<1> PICK b : b = Append(r, m)
  OBVIOUS
<1>1. /\ k \in Seq(Message) /\ Len(k) = Len(l) + 1 /\ Len(l) \in Nat
      /\ \A i \in 1..Len(l) : k[i] = l[i]
      /\ k[Len(l) + 1] = m
  BY AppendFacts
<1>2. /\ r \in Seq(Message) /\ Len(r) = Len(l) - n
      /\ \A i \in 1..(Len(l) - n) : i + n \in 1..Len(l) /\ r[i] = l[i + n]
  BY AfterFacts
<1>3. n <= Len(k)
  BY <1>1
<1>4. /\ a \in Seq(Message) /\ Len(a) = Len(k) - n
      /\ \A i \in 1..(Len(k) - n) : a[i] = k[i + n]
  BY <1>1, <1>3, AfterFacts
<1>5. /\ b \in Seq(Message) /\ Len(b) = Len(r) + 1
      /\ \A i \in 1..Len(r) : b[i] = r[i]
      /\ b[Len(r) + 1] = m
  BY <1>2, AppendFacts
<1>6. Len(a) = Len(b) /\ Len(a) = Len(r) + 1 /\ Len(r) \in Nat
  BY <1>1, <1>2, <1>4, <1>5
<1>7. ASSUME NEW i \in 1..Len(a) PROVE a[i] = b[i]
  <2>1. CASE i \in 1..Len(r)
    <3>1. i \in 1..(Len(k) - n) /\ i \in 1..(Len(l) - n)
      BY <1>2, <1>4, <2>1
    <3>2. i + n \in 1..Len(l) /\ a[i] = k[i + n] /\ b[i] = l[i + n]
      BY <1>2, <1>4, <1>5, <2>1, <3>1
    <3> QED BY <1>1, <3>2
  <2>2. CASE i = Len(r) + 1
    <3>1. i \in 1..(Len(k) - n) /\ i + n = Len(l) + 1
      BY <1>1, <1>2, <1>4, <2>2
    <3> QED BY <1>1, <1>4, <1>5, <2>2, <3>1
  <2> QED BY <1>6, <2>1, <2>2
<1> QED BY <1>4, <1>5, <1>6, <1>7, SeqEqual

\* A sequence that agrees with the end of another, back to a place n, is that end.
LEMMA AgreesAfter ==
    ASSUME NEW s \in Seq(Message), NEW l \in Seq(Message), NEW n \in Int, 0 <= n,
           n <= Len(l), Agrees(s, l, n), NEW k \in Int, n <= k, Len(s) = Len(l) - k
    PROVE  s = After(l, k)
<1> PICK r : r = After(l, k)
  OBVIOUS
<1>1. Len(s) \in Nat /\ Len(l) \in Nat
  BY LenProperties
<1>2. 0 <= k /\ k <= Len(l)
  BY <1>1
<1>3. /\ r \in Seq(Message) /\ Len(r) = Len(l) - k
      /\ \A i \in 1..(Len(l) - k) : r[i] = l[i + k]
  BY <1>2, AfterFacts
<1>4. ASSUME NEW i \in 1..Len(s) PROVE s[i] = r[i]
  <2>1. PICK d : d = Len(s) - i
    OBVIOUS
  <2>2. d \in Nat /\ d < Len(s) /\ d < Len(l) - n
    BY <1>1, <1>2, <2>1, SMT
  <2>3. Len(s) - d = i /\ Len(l) - d = i + k
    BY <1>1, <2>1
  <2>4. s[Len(s) - d] = l[Len(l) - d]
    BY <2>2 DEF Agrees
  <2> QED BY <1>3, <2>3, <2>4
<1> QED BY <1>3, <1>4, SeqEqual

\* As much as is to be kept stays as much, and of what was lost nothing is.
LEMMA EnoughAppend ==
    ASSUME NEW s \in Seq(Message), NEW l \in Seq(Message), NEW m \in Message, NEW n \in Nat,
           Enough(s, l, n), Memory \in {"buffer", "window", "token"}, Window \in Int,
           conf.maxTokenLimit \in Nat
    PROVE  Enough(Append(s, m), Append(l, m), n)
<1>1. /\ Len(Append(s, m)) = Len(s) + 1 /\ Len(s) \in Nat
      /\ Len(Append(l, m)) = Len(l) + 1 /\ Len(l) \in Nat
  BY AppendFacts
<1>2. CASE Memory = "buffer"
  BY <1>2 DEF Enough
<1>3. CASE Memory = "window"
  <2>1. Len(s) >= Window \/ Len(s) >= Len(l) - n
    BY <1>3 DEF Enough
  <2>2. Len(s) + 1 >= Window \/ Len(s) + 1 >= (Len(l) + 1) - n
    BY <1>1, <2>1
  <2> QED BY <1>1, <1>3, <2>2 DEF Enough
<1>4. CASE Memory = "token"
  <2>1. CASE Store = "zep"
    BY <1>4, <2>1 DEF Enough
  <2>2. CASE Store # "zep"
    <3>1. ASSUME NEW k \in Nat, n <= k, k < (Len(l) + 1) - (Len(s) + 1)
          PROVE  Tokens(After(Append(l, m), k)) > conf.maxTokenLimit
      <4>1. k < Len(l) - Len(s) /\ 0 <= k /\ k <= Len(l) /\ k \in Int
        BY <1>1, <3>1
      <4>2. Tokens(After(l, k)) > conf.maxTokenLimit
        BY <1>4, <2>2, <3>1, <4>1 DEF Enough
      <4>3. /\ After(Append(l, m), k) = Append(After(l, k), m)
            /\ After(l, k) \in Seq(Message)
        BY <4>1, AfterAppend, AfterFacts
      <4>4. /\ Tokens(After(l, k)) <= Tokens(Append(After(l, k), m))
            /\ Tokens(After(l, k)) \in Nat /\ Tokens(Append(After(l, k), m)) \in Nat
        BY <4>3, TokensAppend, TokensType, AppendFacts
      <4> QED BY <4>2, <4>3, <4>4
    <3>2. \A k \in Nat : n <= k /\ k < Len(Append(l, m)) - Len(Append(s, m))
             => Tokens(After(Append(l, m), k)) > conf.maxTokenLimit
      BY <1>1, <3>1
    <3> QED BY <1>4, <3>2 DEF Enough
  <2> QED BY <2>1, <2>2
<1> QED BY <1>2, <1>3, <1>4

LEMMA EnoughLost ==
    ASSUME NEW s \in Seq(Message), NEW l \in Seq(Message),
           Memory \in {"buffer", "window", "token"}
    PROVE  Enough(s, l, Len(l))
<1>1. Len(s) \in Nat /\ Len(l) \in Nat
  BY LenProperties
<1>2. Len(s) >= Len(l) - Len(l) /\ \A k \in Nat : ~(Len(l) <= k /\ k < Len(l) - Len(s))
  BY <1>1
<1> QED BY <1>2 DEF Enough

------------------------------------------------------------------------------
\* Types.

LEMMA ConfFacts ==
    ASSUME TypeOK
    PROVE  /\ conf \in Configuration /\ conf.procs \subseteq Callers
           /\ Memory \in {"buffer", "window", "token"}
           /\ Store \in {"slice", "sqlite", "mongo", "postgres", "zep"}
           /\ conf.overwrite \in BOOLEAN /\ conf.mayCrash \in BOOLEAN
           /\ conf.limit \in Int /\ 1 <= conf.limit
           /\ Window \in Int /\ 2 <= Window
           /\ conf.maxTokenLimit \in Nat
           /\ MaxTurns \in Nat /\ turns \in 0..MaxTurns
<1>1. conf \in Configuration /\ MaxTurns \in Nat /\ turns \in 0..MaxTurns
  BY MemoryAssumption DEF TypeOK
<1>2. conf.windowSize \in Int /\ conf.limit \in Nat \ {0}
  BY <1>1 DEF Configuration
<1>3. Window \in Int /\ 2 <= Window
  BY <1>2 DEF Window, DefaultMessageSize, DefaultWindowSize
<1>4. conf.limit \in Int /\ 1 <= conf.limit
  BY <1>2
<1> QED BY <1>1, <1>3, <1>4 DEF Configuration, Memory, Store

LEMMA MessageFacts ==
    /\ \A t \in 1..MaxTurns : Human(t) \in Message /\ AI(t) \in Message
    /\ \A t, u : Human(t) # AI(u)
    /\ \A t, u : (Human(t) = Human(u) => t = u) /\ (AI(t) = AI(u) => t = u)
    /\ \A t : Human(t).turn = t /\ AI(t).turn = t
<1>1. \A t \in 1..MaxTurns : Human(t) \in Message /\ AI(t) \in Message
  BY DEF Human, AI, Message
<1>2. \A t : Human(t).turn = t /\ AI(t).turn = t /\ Human(t).role = "human" /\ AI(t).role = "ai"
  BY DEF Human, AI
<1>3. \A t, u : Human(t) # AI(u)
  BY <1>2
<1>4. \A t, u : (Human(t) = Human(u) => t = u) /\ (AI(t) = AI(u) => t = u)
  BY <1>2
<1> QED BY <1>1, <1>2, <1>3, <1>4

LEMMA TurnFacts ==
    ASSUME TypeOK, TurnsInv, NEW p \in Callers, pc[p] # "idle"
    PROVE  /\ turn[p] \in 1..MaxTurns /\ turn[p] \in Int /\ turns \in Int
           /\ Human(turn[p]) \in Message /\ AI(turn[p]) \in Message
<1>1. turn[p] \in 0..MaxTurns /\ turn[p] >= 1 /\ MaxTurns \in Nat /\ turns \in 0..MaxTurns
  BY MemoryAssumption DEF TypeOK, TurnsInv, TurnInv
<1>2. turn[p] \in 1..MaxTurns /\ turn[p] \in Int /\ turns \in Int
  BY <1>1
<1> QED BY <1>2, MessageFacts

\* What follows the summary.
LEMMA SummaryFacts ==
    ASSUME NEW s \in Seq(Message), NEW u, u = <<Summary>> \o s
    PROVE  /\ u # <<>> /\ Len(u) = Len(s) + 1 /\ u[1] = Summary
           /\ Tail(u) = s
           /\ \A k \in Int : 0 <= k /\ k <= Len(s) => LastOf(u, k) = LastOf(s, k)
<1> PICK S : S = Message \cup {Summary}
  OBVIOUS
<1> PICK h : h = <<Summary>>
  OBVIOUS
<1>1. /\ h \in Seq(S) /\ Len(h) = 1 /\ h[1] = Summary
      /\ s \in Seq(S) /\ Len(s) \in Nat
  BY SeqMonotonic, LenProperties
<1>2. /\ u \in Seq(S) /\ Len(u) = Len(s) + 1 /\ Len(u) \in Nat
      /\ \A i \in 1..(Len(s) + 1) : u[i] = IF i <= 1 THEN h[i] ELSE s[i - 1]
  <2>1. /\ h \o s \in Seq(S) /\ Len(h \o s) = Len(h) + Len(s)
        /\ \A i \in 1..(Len(h) + Len(s)) : (h \o s)[i] = IF i <= Len(h) THEN h[i] ELSE s[i - Len(h)]
    BY <1>1, ConcatProperties
  <2> QED BY <1>1, <2>1, LenProperties
<1>3. u[1] = Summary /\ \A i \in 1..Len(s) : u[i + 1] = s[i]
  BY <1>1, <1>2
<1>4. u # <<>>
  BY <1>1, <1>2
<1>5. Tail(u) = s
  <2>1. /\ Tail(u) \in Seq(S) /\ Len(Tail(u)) = Len(s)
        /\ \A i \in 1..Len(s) : Tail(u)[i] = s[i]
    BY <1>1, <1>2, <1>3, <1>4, HeadTailProperties
  <2> QED BY <1>1, <2>1, SeqEqual
<1>6. ASSUME NEW k \in Int, 0 <= k, k <= Len(s) PROVE LastOf(u, k) = LastOf(s, k)
  <2> PICK a : a = LastOf(u, k)
    OBVIOUS
  <2> PICK b : b = LastOf(s, k)
    OBVIOUS
  <2>1. k <= Len(u)
    BY <1>1, <1>2, <1>6
  <2>2. /\ a \in Seq(S) /\ Len(a) = k
        /\ \A i \in 1..k : a[i] = u[i + (Len(u) - k)]
    BY <1>2, <1>6, <2>1, LastFacts
  <2>3. /\ b \in Seq(S) /\ Len(b) = k
        /\ \A i \in 1..k : i + (Len(s) - k) \in 1..Len(s) /\ b[i] = s[i + (Len(s) - k)]
    BY <1>1, <1>6, LastFacts
  <2>4. ASSUME NEW i \in 1..k PROVE a[i] = b[i]
    <3>1. i + (Len(u) - k) = (i + (Len(s) - k)) + 1
      BY <1>1, <1>2
    <3>2. u[(i + (Len(s) - k)) + 1] = s[i + (Len(s) - k)]
      BY <1>3, <2>3
    <3> QED BY <2>2, <2>3, <3>1, <3>2
  <2> QED BY <2>2, <2>3, <2>4, SeqEqual
<1> QED BY <1>2, <1>3, <1>4, <1>5, <1>6

LEMMA MessagesRead ==
    ASSUME TypeOK
    PROVE  /\ Stored \in Seq(Message)
           /\ Messages = Stored \/ (Store = "zep" /\ Messages = <<Summary>> \o Stored)
<1>1. store \in Seq(Message) /\ conf.limit \in Int /\ 1 <= conf.limit /\ Len(store) \in Nat
  BY ConfFacts, LenProperties DEF TypeOK
<1>2. CASE Store = "sqlite" /\ Len(store) > conf.limit
  <2>1. SubSeq(store, 1, conf.limit) \in Seq(Message)
    BY <1>1, <1>2, SubSeqFacts
  <2> QED BY <1>2, <2>1 DEF Stored, Messages
<1> QED BY <1>1, <1>2 DEF Stored, Messages

\* What Cut and Read mean to set.
LEMMA CutRead ==
    ASSUME TypeOK, Len(Messages) > Window
    PROVE  /\ CutMessages(Messages) \in Seq(Message)
           /\ CutMessages(Messages) = LastOf(Stored, Window) /\ Window <= Len(Stored)
<1> PICK s : s = Stored
  OBVIOUS
<1> PICK w : w = Window
  OBVIOUS
<1> PICK u : u = Messages
  OBVIOUS
<1>1. s \in Seq(Message) /\ w \in Int /\ 2 <= w /\ Len(s) \in Nat
  BY MessagesRead, ConfFacts, LenProperties
<1>2. CutMessages(u) = LastOf(u, w)
  BY DEF CutMessages, LastOf
<1>3. w <= Len(s) /\ LastOf(u, w) = LastOf(s, w)
  <2>1. CASE u = s
    BY <1>1, <2>1
  <2>2. CASE u = <<Summary>> \o s
    <3>1. Len(u) = Len(s) + 1
      BY <1>1, <2>2, SummaryFacts
    <3>2. w <= Len(s) /\ 0 <= w
      BY <1>1, <3>1
    <3> QED BY <1>1, <2>2, <3>2, SummaryFacts
  <2> QED BY <2>1, <2>2, MessagesRead
<1>4. LastOf(s, w) \in Seq(Message)
  BY <1>1, <1>3, LastFacts
<1> QED BY <1>2, <1>3, <1>4

LEMMA ReadRead ==
    ASSUME TypeOK, Messages # <<>>
    PROVE  /\ DropOldest(Messages) \in Seq(Message)
           /\ \/ Stored # <<>> /\ DropOldest(Messages) = Tail(Stored)
              \/ Store = "zep"
<1>1. CASE Messages = Stored
  BY <1>1, MessagesRead, HeadTailProperties DEF DropOldest
<1>2. CASE Store = "zep" /\ Messages = <<Summary>> \o Stored
  BY <1>2, MessagesRead, SummaryFacts DEF DropOldest
<1> QED BY <1>1, <1>2, MessagesRead

LEMMA WriteTypes ==
    ASSUME TypeOK, NEW ms \in Seq(Message), Write(ms)
    PROVE  store' \in Seq(Message) /\ durable' \in Seq(Message)
BY DEF Write, TypeOK

\* Where a step of SaveContext leaves the caller, and what it acknowledges.
LEMMA GotoTypes ==
    ASSUME TypeOK, NEW p \in Callers,
           NEW l \in {"idle", "user", "ai", "cut", "count", "read", "set", "insert"}, Goto(p, l)
    PROVE  /\ pc' \in [Callers -> {"idle", "user", "ai", "cut", "count", "read", "set", "insert"}]
           /\ pc'[p] = l /\ \A q \in Callers \ {p} : pc'[q] = pc[q]
BY DEF Goto, TypeOK

LEMMA ReturnedTypes ==
    ASSUME TypeOK, TurnsInv, NEW p \in Callers, pc[p] # "idle", NEW ok, Returned(p, ok)
    PROVE  /\ pc' \in [Callers -> {"idle", "user", "ai", "cut", "count", "read", "set", "insert"}]
           /\ pc'[p] = "idle" /\ \A q \in Callers \ {p} : pc'[q] = pc[q]
           /\ acked' \subseteq 1..MaxTurns
<1>1. Goto(p, "idle") /\ (acked' = acked \/ acked' = acked \cup {turn[p]})
  BY DEF Returned
<1> QED BY <1>1, GotoTypes, TurnFacts DEF TypeOK

\* The kinds of steps there are.

\* The two calls that may be the last one of a SaveContext.
LEMMA AddAIFacts ==
    ASSUME TypeOK, NEW p \in Callers, AddAIMessage(p)
    PROVE  /\ pc[p] = "ai" /\ Insert(AI(turn[p]))
           /\ \/ Memory = "buffer" /\ Returned(p, TRUE)
              \/ Memory = "window" /\ Goto(p, "cut") /\ acked' = acked
              \/ Memory = "token" /\ Goto(p, "count") /\ acked' = acked
           /\ turn' = turn /\ local' = local /\ turns' = turns /\ torn' = torn
<1>1. /\ pc[p] = "ai" /\ Insert(AI(turn[p]))
      /\ turn' = turn /\ local' = local /\ turns' = turns /\ torn' = torn
  BY DEF AddAIMessage, AI
<1>2. IF AfterSave = "done" THEN Returned(p, TRUE)
                            ELSE Goto(p, AfterSave) /\ UNCHANGED acked
  BY DEF AddAIMessage
<1>3. CASE Memory = "buffer"
  <2>1. AfterSave = "done"
    BY <1>3 DEF AfterSave
  <2> QED BY <1>1, <1>2, <1>3, <2>1
<1>4. CASE Memory = "window"
  <2>1. AfterSave = "cut"
    BY <1>4 DEF AfterSave
  <2>2. Goto(p, "cut") /\ acked' = acked
    BY <1>2, <2>1
  <2> QED BY <1>1, <1>4, <2>2
<1>5. CASE Memory = "token"
  <2>1. AfterSave = "count"
    BY <1>5 DEF AfterSave
  <2>2. Goto(p, "count") /\ acked' = acked
    BY <1>2, <2>1
  <2> QED BY <1>1, <1>5, <2>2
<1> QED BY <1>3, <1>4, <1>5, ConfFacts

\* A message is inserted, whatever the caller is told.
Adds(p) == AddUserMessage(p) \/ AddAIMessage(p) \/ FailsHavingInserted(p)

LEMMA AddFacts ==
    ASSUME TypeOK, NEW p \in Callers, Adds(p)
    PROVE  /\ \/ pc[p] = "user" /\ Insert(Human(turn[p]))
              \/ pc[p] = "ai" /\ Insert(AI(turn[p]))
           /\ \/ Returned(p, FALSE)
              \/ pc[p] = "user" /\ Goto(p, "ai") /\ acked' = acked
              \/ pc[p] = "ai" /\ Memory = "buffer" /\ Returned(p, TRUE)
              \/ pc[p] = "ai" /\ Memory = "window" /\ Goto(p, "cut") /\ acked' = acked
              \/ pc[p] = "ai" /\ Memory = "token" /\ Goto(p, "count") /\ acked' = acked
           /\ turn' = turn /\ local' = local /\ turns' = turns /\ torn' = torn
<1>1. CASE AddUserMessage(p)
  BY <1>1 DEF AddUserMessage, Human
<1>2. CASE AddAIMessage(p)
  BY <1>2, AddAIFacts
<1>3. CASE FailsHavingInserted(p)
  BY <1>3 DEF FailsHavingInserted, ReturnsError, Human, AI
<1> QED BY <1>1, <1>2, <1>3 DEF Adds

\* No turn begins and no message is new.
Trims(p) ==
    \/ Cut(p) \/ Count(p) \/ Read(p)
    \/ SetMessages(p) \/ SetMessagesError(p)
    \/ SetClears(p) \/ SetInserts(p) \/ SetInsertsNothing(p)

LEMMA TrimFacts ==
    ASSUME NEW p \in Callers, Trims(p)
    PROVE  /\ pc[p] \in {"cut", "count", "read", "set", "insert"}
           /\ \/ Returned(p, TRUE)
              \/ Returned(p, FALSE)
              \/ pc[p] = "cut" /\ Goto(p, "set") /\ acked' = acked
              \/ pc[p] = "count" /\ Goto(p, "read") /\ acked' = acked
              \/ pc[p] = "read" /\ Goto(p, "set") /\ acked' = acked
              \/ pc[p] = "set" /\ TwoPhase /\ Goto(p, "insert") /\ acked' = acked
              \/ Memory = "token" /\ Goto(p, "count") /\ acked' = acked
           /\ turn' = turn /\ turns' = turns /\ log' = log /\ torn' = torn
<1>1. CASE Cut(p)
  BY <1>1 DEF Cut
<1>2. CASE Count(p)
  BY <1>2 DEF Count
<1>3. CASE Read(p)
  BY <1>3 DEF Read
<1>4. CASE SetMessages(p)
  BY <1>4 DEF SetMessages, AfterSet
<1>5. CASE SetMessagesError(p)
  BY <1>5 DEF SetMessagesError
<1>6. CASE SetClears(p)
  BY <1>6 DEF SetClears
<1>7. CASE SetInserts(p)
  BY <1>7 DEF SetInserts, AfterSet
<1>8. CASE SetInsertsNothing(p)
  BY <1>8 DEF SetInsertsNothing
<1> QED BY <1>1, <1>2, <1>3, <1>4, <1>5, <1>6, <1>7, <1>8 DEF Trims

LEMMA TrimTypes ==
    ASSUME TypeOK, TurnsInv, NEW p \in Callers, Trims(p)
    PROVE  /\ store' \in Seq(Message) /\ durable' \in Seq(Message) /\ openTx' \in BOOLEAN
           /\ local' \in [Callers -> Seq(Message)]
<1>1. /\ store \in Seq(Message) /\ durable \in Seq(Message) /\ openTx \in BOOLEAN
      /\ local \in [Callers -> Seq(Message)] /\ local[p] \in Seq(Message)
      /\ <<>> \in Seq(Message)
  BY EmptySeq DEF TypeOK
<1>2. CASE Cut(p)
  BY <1>1, <1>2, CutRead DEF Cut
<1>3. CASE Count(p)
  BY <1>1, <1>3 DEF Count
<1>4. CASE Read(p)
  BY <1>1, <1>4, ReadRead DEF Read
<1>5. CASE SetMessages(p)
  <2>1. local' = local
    BY <1>5 DEF SetMessages
  <2>2. CASE SetNothing(local[p])
    BY <1>1, <2>1, <2>2 DEF SetNothing
  <2>3. CASE SetSlice(local[p]) \/ SetTransaction(local[p])
    BY <1>1, <2>1, <2>3, WriteTypes DEF SetSlice, SetTransaction
  <2> QED BY <1>5, <2>2, <2>3 DEF SetMessages
<1>6. CASE SetMessagesError(p)
  BY <1>1, <1>6 DEF SetMessagesError, SetTransactionEmpty, SetTransactionNested
<1>7. CASE SetClears(p)
  BY <1>1, <1>7, WriteTypes DEF SetClears
<1>8. CASE SetInserts(p)
  <2>1. store \o local[p] \in Seq(Message)
    BY <1>1, ConcatProperties
  <2> QED BY <1>1, <1>8, <2>1, WriteTypes DEF SetInserts
<1>9. CASE SetInsertsNothing(p)
  BY <1>1, <1>9 DEF SetInsertsNothing
<1> QED BY <1>2, <1>3, <1>4, <1>5, <1>6, <1>7, <1>8, <1>9 DEF Trims

\* SaveContext returns an error, and no message is new: an output is not valid, or a
\* call of the store fails.
GivesUp(p) ==
    \/ FailsWithoutEffect(p) \/ OutputInvalid(p)
    \/ TransactionFails(p) \/ FailsRolledBack(p) \/ ClearFails(p) \/ InsertFails(p)

LEMMA GiveUpFacts ==
    ASSUME NEW p \in Callers, GivesUp(p)
    PROVE  /\ pc[p] # "idle" /\ Returned(p, FALSE) /\ acked' = acked
           /\ UNCHANGED <<turn, local, turns, log>> /\ torn' \in {torn, Len(log)}
<1>1. ReturnsError(p) => /\ pc[p] # "idle" /\ Returned(p, FALSE) /\ acked' = acked
                         /\ UNCHANGED <<turn, local, turns>>
  BY DEF ReturnsError, Calls, Returned
<1>2. CASE FailsWithoutEffect(p)
  BY <1>1, <1>2 DEF FailsWithoutEffect
<1>3. CASE OutputInvalid(p)
  BY <1>3 DEF OutputInvalid, Returned
<1>4. CASE TransactionFails(p)
  BY <1>1, <1>4 DEF TransactionFails
<1>5. CASE FailsRolledBack(p)
  BY <1>1, <1>5 DEF FailsRolledBack
<1>6. CASE ClearFails(p)
  BY <1>1, <1>6 DEF ClearFails
<1>7. CASE InsertFails(p)
  BY <1>1, <1>7 DEF InsertFails
<1> QED BY <1>2, <1>3, <1>4, <1>5, <1>6, <1>7 DEF GivesUp

LEMMA GiveUpTypes ==
    ASSUME TypeOK, NEW p \in Callers, GivesUp(p)
    PROVE  store' \in Seq(Message) /\ durable' \in Seq(Message) /\ openTx' \in BOOLEAN
<1>1. /\ store \in Seq(Message) /\ durable \in Seq(Message) /\ openTx \in BOOLEAN
      /\ local[p] \in Seq(Message) /\ <<>> \in Seq(Message)
      /\ Len(store) \in Nat /\ Len(local[p]) \in Nat
  BY EmptySeq, LenProperties DEF TypeOK
<1>2. CASE FailsWithoutEffect(p) \/ OutputInvalid(p)
  BY <1>1, <1>2 DEF FailsWithoutEffect, OutputInvalid
<1>3. CASE TransactionFails(p) \/ FailsRolledBack(p)
  BY <1>1, <1>3 DEF TransactionFails, FailsRolledBack
<1>4. CASE ClearFails(p)
  <2>1. PICK n \in 1..Len(store) : Write(SubSeq(store, n + 1, Len(store)))
    BY <1>4 DEF ClearFails
  <2>2. n + 1 \in Int /\ 1 <= n + 1 /\ n + 1 <= Len(store) + 1 /\ Len(store) \in Int
    BY <1>1
  <2>3. SubSeq(store, n + 1, Len(store)) \in Seq(Message)
    BY <1>1, <2>2, SubSeqFacts
  <2> QED BY <1>1, <1>4, <2>1, <2>3, WriteTypes DEF ClearFails
<1>5. CASE InsertFails(p)
  <2>1. PICK n \in 0..Len(local[p]) : Write(store \o SubSeq(local[p], 1, n))
    BY <1>5 DEF InsertFails
  <2>2. SubSeq(local[p], 1, n) \in Seq(Message)
    BY <1>1, SubSeqFacts
  <2>3. store \o SubSeq(local[p], 1, n) \in Seq(Message)
    BY <1>1, <2>2, ConcatProperties
  <2> QED BY <1>1, <1>5, <2>1, <2>3, WriteTypes DEF InsertFails
<1> QED BY <1>2, <1>3, <1>4, <1>5 DEF GivesUp

LEMMA StepKinds ==
    ASSUME TypeOK, [Next]_vars
    PROVE  /\ conf' = conf
           /\ \/ UNCHANGED vars
              \/ Crash
              \/ \E p \in conf.procs : Begin(p) \/ Adds(p) \/ Trims(p) \/ GivesUp(p)
<1>1. CASE UNCHANGED vars
  BY <1>1 DEF vars
<1>2. CASE Next
  <2>1. \A p \in conf.procs : Save(p) => Adds(p) \/ Trims(p) \/ GivesUp(p)
    BY DEF Save, Adds, Trims, GivesUp
  <2>2. \A p \in conf.procs : Fails(p) => Adds(p) \/ GivesUp(p)
    BY DEF Fails, Adds, GivesUp
  <2> QED BY <1>2, <2>1, <2>2 DEF Next
<1> QED BY <1>1, <1>2

LEMMA TypeStep ==
    ASSUME TypeOK, TurnsInv, [Next]_vars
    PROVE  TypeOK'
<1>0. /\ conf' = conf /\ conf.procs \subseteq Callers /\ MaxTurns \in Nat
      /\ conf' \in Configurations
      /\ log \in Seq(Message) /\ Len(log) \in Nat /\ torn \in 0..Len(log) /\ Len(log) \in 0..Len(log)
  BY StepKinds, ConfFacts, LenProperties DEF TypeOK
<1>1. CASE UNCHANGED vars
  BY <1>1 DEF vars, TypeOK
<1>2. CASE Crash
  BY <1>0, <1>2 DEF Crash, TypeOK
<1>3. ASSUME NEW p \in conf.procs, Begin(p) PROVE TypeOK'
  <2>1. pc' \in [Callers -> {"idle", "user", "ai", "cut", "count", "read", "set", "insert"}]
    BY <1>0, <1>3, GotoTypes DEF Begin
  <2>2. turns + 1 \in 0..MaxTurns
    BY <1>0, <1>3 DEF Begin, TypeOK
  <2> QED BY <1>0, <1>3, <2>1, <2>2 DEF Begin, TypeOK
<1>4. ASSUME NEW p \in conf.procs, Adds(p) PROVE TypeOK'
  <2>1. p \in Callers /\ pc[p] # "idle" /\ turn' = turn /\ local' = local /\ turns' = turns /\ torn' = torn
    BY <1>0, <1>4, AddFacts
  <2>2. PICK m \in Message : Insert(m)
    BY <1>4, <2>1, AddFacts, TurnFacts
  <2>3. Append(store, m) \in Seq(Message)
    BY AppendFacts DEF TypeOK
  <2>4. PICK l : l = Append(log, m)
    OBVIOUS
  <2>5. l \in Seq(Message) /\ Len(l) = Len(log) + 1
    BY <1>0, <2>4, AppendFacts
  <2>6. store' \in Seq(Message) /\ durable' \in Seq(Message) /\ log' = l /\ openTx' = openTx
    BY <2>2, <2>3, <2>4, WriteTypes DEF Insert
  <2>7. torn' \in 0..Len(log')
    BY <1>0, <2>1, <2>5, <2>6
  <2>8. pc' \in [Callers -> {"idle", "user", "ai", "cut", "count", "read", "set", "insert"}] /\ acked' \subseteq 1..MaxTurns
    BY <1>4, <2>1, AddFacts, GotoTypes, ReturnedTypes DEF TypeOK
  <2> QED BY <1>0, <2>1, <2>5, <2>6, <2>7, <2>8 DEF TypeOK
<1>5. ASSUME NEW p \in conf.procs, Trims(p) PROVE TypeOK'
  <2>1. p \in Callers /\ turn' = turn /\ turns' = turns /\ log' = log /\ torn' = torn /\ pc[p] # "idle"
    BY <1>0, <1>5, TrimFacts
  <2>2. pc' \in [Callers -> {"idle", "user", "ai", "cut", "count", "read", "set", "insert"}] /\ acked' \subseteq 1..MaxTurns
    BY <1>5, <2>1, TrimFacts, GotoTypes, ReturnedTypes DEF TypeOK
  <2> QED BY <1>0, <1>5, <2>1, <2>2, TrimTypes DEF TypeOK
<1>6. ASSUME NEW p \in conf.procs, GivesUp(p) PROVE TypeOK'
  <2>1. /\ p \in Callers /\ pc[p] # "idle" /\ Returned(p, FALSE)
        /\ UNCHANGED <<turn, local, turns, log>> /\ torn' \in 0..Len(log')
    BY <1>0, <1>6, GiveUpFacts
  <2>2. pc' \in [Callers -> {"idle", "user", "ai", "cut", "count", "read", "set", "insert"}] /\ acked' \subseteq 1..MaxTurns
    BY <2>1, ReturnedTypes
  <2> QED BY <1>0, <1>6, <2>1, <2>2, GiveUpTypes DEF TypeOK
<1> QED BY <1>1, <1>2, <1>3, <1>4, <1>5, <1>6, StepKinds

------------------------------------------------------------------------------
\* Turns: a message is inserted once, and an acknowledged turn was inserted.

\* A caller that a step leaves where it is.
LEMMA TurnSame ==
    ASSUME TypeOK, NEW q \in Callers, TurnInv(q), conf' = conf, log' = log, turns' = turns,
           turn' = turn, pc'[q] = pc[q],
           \A r \in Callers : pc'[r] # "idle" => pc[r] # "idle"
    PROVE  TurnInv(q)'
BY DEF TurnInv, Absent, Has, Places, Memory, Human, AI

LEMMA TurnIdle ==
    ASSUME TypeOK, NEW q \in Callers, TurnInv(q), turns' = turns, turn' = turn,
           pc'[q] = "idle"
    PROVE  TurnInv(q)'
BY DEF TurnInv

LEMMA TurnsReturn ==
    ASSUME TypeOK, TurnsInv, NEW p \in Callers, pc[p] # "idle", NEW ok, Returned(p, ok),
           ok => Has(log, turn[p]), conf' = conf, log' = log, turns' = turns, turn' = turn
    PROVE  TurnsInv'
<1>1. /\ pc'[p] = "idle" /\ \A q \in Callers \ {p} : pc'[q] = pc[q]
      /\ \A t \in acked' : t \in acked \/ (ok /\ t = turn[p])
  BY ReturnedTypes DEF Returned
<1>2. \A t \in acked' : Has(log, t)
  BY <1>1 DEF TurnsInv, LogInv
<1>3. LogInv'
  BY <1>2 DEF TurnsInv, LogInv, Once, Has, Human, AI
<1>4. ASSUME NEW q \in Callers PROVE TurnInv(q)'
  <2>1. TurnInv(q) /\ \A r \in Callers : pc'[r] # "idle" => pc[r] # "idle"
    BY <1>1 DEF TurnsInv
  <2> QED BY <1>1, <2>1, TurnSame, TurnIdle
<1> QED BY <1>3, <1>4 DEF TurnsInv

LEMMA TurnsMove ==
    ASSUME TypeOK, TurnsInv, NEW p \in Callers, NEW l \in Places, Goto(p, l),
           pc[p] \notin {"idle", "user", "ai"}, l \notin {"idle", "user", "ai"},
           conf' = conf, log' = log, turns' = turns, turn' = turn, acked' = acked
    PROVE  TurnsInv'
<1>1. pc'[p] = l /\ \A q \in Callers \ {p} : pc'[q] = pc[q]
  BY DEF Goto, TypeOK
<1>2. \A r \in Callers : pc'[r] # "idle" => pc[r] # "idle"
  BY <1>1
<1>3. LogInv'
  BY DEF TurnsInv, LogInv, Once, Has, Human, AI
<1>4. TurnInv(p)'
  <2>1. Has(log', turn'[p])
    BY DEF TurnsInv, TurnInv, Has, Human, AI
  <2>2. \A q \in Callers \ {p} : pc'[q] # "idle" => turn[p] # turn[q]
    BY <1>2 DEF TurnsInv, TurnInv
  <2>3. p \in conf.procs /\ turn[p] >= 1 /\ turn[p] <= turns /\ l \in Places'
    BY DEF TurnsInv, TurnInv, Places, Memory
  <2>4. Has(log', turn'[p]) = Has(log, turn[p])'
    OBVIOUS
  <2> QED BY <1>1, <2>1, <2>2, <2>3, <2>4 DEF TurnInv
<1>5. ASSUME NEW q \in Callers \ {p} PROVE TurnInv(q)'
  BY <1>1, <1>2, TurnSame DEF TurnsInv
<1> QED BY <1>3, <1>4, <1>5 DEF TurnsInv

\* A message that is not in the conversation yet is inserted.
LEMMA InsertKeepsLog ==
    ASSUME TypeOK, TurnsInv, NEW m \in Message, Absent(log, m), m.turn <= turns,
           log' = Append(log, m), turns' = turns,
           \A t \in acked' : Has(Append(log, m), t)
    PROVE  LogInv'
<1>1. log \in Seq(Message) /\ LogInv
  BY DEF TypeOK, TurnsInv
<1>2. Once(Append(log, m))
  BY <1>1, OnceAppend DEF LogInv
<1>3. ASSUME NEW i \in 1..Len(Append(log, m)) PROVE Append(log, m)[i].turn <= turns
  <2>1. i \in 1..Len(log) \/ i = Len(log) + 1
    BY <1>1, AppendFacts
  <2> QED BY <1>1, <2>1, AppendFacts DEF LogInv
<1>4. Once(log)'
  BY <1>2 DEF Once
<1>5. \A t \in acked' : Has(log, t)'
  BY DEF Has, Human, AI
<1>6. \A i \in 1..Len(log') : log'[i].turn <= turns'
  BY <1>3
<1> QED BY <1>4, <1>5, <1>6 DEF LogInv

\* The other callers, whose messages it is not.
LEMMA InsertKeepsTurn ==
    ASSUME TypeOK, TurnsInv, NEW p \in Callers, pc[p] # "idle", NEW m \in Message,
           m \in {Human(turn[p]), AI(turn[p])}, log' = Append(log, m),
           conf' = conf, turns' = turns, turn' = turn,
           NEW q \in Callers \ {p}, pc'[q] = pc[q],
           \A r \in Callers : pc'[r] # "idle" => pc[r] # "idle"
    PROVE  TurnInv(q)'
<1>1. TurnInv(q) /\ log \in Seq(Message)
  BY DEF TypeOK, TurnsInv
<1>2. pc[q] # "idle" => m # Human(turn[q]) /\ m # AI(turn[q])
  <2>1. pc[q] # "idle" => turn[p] # turn[q]
    BY DEF TurnsInv, TurnInv
  <2> QED BY <2>1, MessageFacts
<1> DEFINE l == Append(log, m)
<1>3. pc[q] = "user" => Absent(l, Human(turn[q]))
  BY <1>1, <1>2, AbsentAppend DEF TurnInv
<1>4. pc[q] \in {"user", "ai"} => Absent(l, AI(turn[q]))
  BY <1>1, <1>2, AbsentAppend DEF TurnInv
<1>5. pc[q] = "ai" => ~Absent(l, Human(turn[q]))
  <2> SUFFICES ASSUME pc[q] = "ai" PROVE ~Absent(l, Human(turn[q]))
    OBVIOUS
  <2>1. PICK i \in 1..Len(log) : log[i] = Human(turn[q])
    BY <1>1 DEF TurnInv, Absent
  <2>2. i \in 1..Len(l) /\ l[i] = Human(turn[q])
    BY <1>1, <2>1, AppendFacts
  <2> HIDE DEF l
  <2> QED BY <2>2 DEF Absent
<1>6. pc[q] \notin {"idle", "user", "ai"} => Has(l, turn[q])
  BY <1>1, HasAppend DEF TurnInv
<1> HIDE DEF l
<1>7. log' = l
  BY DEF l
<1>8. /\ pc[q] = "user" => Absent(log, Human(turn[q]))'
      /\ pc[q] \in {"user", "ai"} => Absent(log, AI(turn[q]))'
      /\ pc[q] = "ai" => ~Absent(log, Human(turn[q]))'
      /\ pc[q] \notin {"idle", "user", "ai"} => Has(log, turn[q])'
  BY <1>3, <1>4, <1>5, <1>6, <1>7 DEF Absent, Has, Human, AI
<1> QED BY <1>1, <1>8 DEF TurnInv, Places, Memory

LEMMA TurnsStep ==
    ASSUME TypeOK, TurnsInv, [Next]_vars
    PROVE  TurnsInv'
<1>0. /\ conf' = conf /\ conf.procs \subseteq Callers /\ MaxTurns \in Nat
      /\ turns \in 0..MaxTurns /\ turns \in Int
      /\ LogInv /\ log \in Seq(Message)
  BY StepKinds, ConfFacts DEF TypeOK, TurnsInv
<1>1. CASE UNCHANGED vars
  <2>1. /\ pc' = pc /\ log' = log /\ turns' = turns /\ turn' = turn /\ acked' = acked
    BY <1>1 DEF vars
  <2>2. LogInv'
    BY <1>0, <2>1 DEF LogInv, Once, Has, Human, AI
  <2>3. \A q \in Callers : TurnInv(q)'
    BY <1>0, <2>1, TurnSame DEF TurnsInv
  <2> QED BY <2>2, <2>3 DEF TurnsInv
<1>2. CASE Crash
  <2>1. /\ pc' = [q \in Callers |-> "idle"] /\ log' = log /\ turns' = turns
        /\ turn' = turn /\ acked' = acked
    BY <1>2 DEF Crash
  <2>2. LogInv'
    BY <1>0, <2>1 DEF LogInv, Once, Has, Human, AI
  <2>3. \A q \in Callers : TurnInv(q)'
    BY <2>1, TurnIdle DEF TurnsInv
  <2> QED BY <2>2, <2>3 DEF TurnsInv
<1>3. ASSUME NEW p \in conf.procs, Begin(p) PROVE TurnsInv'
  <2>1. /\ p \in Callers /\ pc[p] = "idle" /\ log' = log /\ turns' = turns + 1
        /\ turn' = [turn EXCEPT ![p] = turns + 1] /\ acked' = acked
        /\ pc' = [pc EXCEPT ![p] = "user"]
    BY <1>0, <1>3 DEF Begin, Goto
  <2>2. /\ pc'[p] = "user" /\ \A q \in Callers \ {p} : pc'[q] = pc[q]
        /\ turn'[p] = turns + 1 /\ \A q \in Callers \ {p} : turn'[q] = turn[q]
    BY <2>1 DEF TypeOK
  <2>3. \A i \in 1..Len(log) : log[i].turn \in Int /\ log[i].turn <= turns
    <3>1. \A i \in 1..Len(log) : log[i] \in Message
      BY <1>0, ElementOfSeq
    <3>2. \A i \in 1..Len(log) : log[i].turn \in 1..MaxTurns
      BY <3>1 DEF Message
    <3> QED BY <1>0, <3>2 DEF LogInv
  <2>4. LogInv'
    <3>1. \A i \in 1..Len(log) : log[i].turn <= turns + 1
      BY <1>0, <2>3
    <3> QED BY <1>0, <2>1, <3>1 DEF LogInv, Once, Has, Human, AI
  <2>5. Absent(log, Human(turns + 1)) /\ Absent(log, AI(turns + 1))
    <3>1. \A i \in 1..Len(log) : log[i].turn # turns + 1
      BY <1>0, <2>3
    <3> QED BY <3>1, MessageFacts DEF Absent
  <2>6. \A q \in Callers : turn[q] \in Int /\ turn[q] <= turns
    BY <1>0 DEF TurnsInv, TurnInv, TypeOK
  <2>7. TurnInv(p)'
    <3>1. /\ Absent(log', Human(turn'[p])) /\ Absent(log', AI(turn'[p]))
          /\ turn'[p] <= turns' /\ turn'[p] >= 1 /\ p \in conf'.procs
      BY <1>0, <2>1, <2>2, <2>5
    <3>2. \A q \in Callers \ {p} : turn'[p] # turn'[q]
      BY <1>0, <2>2, <2>6
    <3>3. "user" \in Places'
      BY <1>0, ConfFacts DEF Places, Memory
    <3>4. Absent(log, Human(turn[p]))' /\ Absent(log, AI(turn[p]))'
      BY <3>1 DEF Absent, Human, AI
    <3> QED BY <2>2, <3>1, <3>2, <3>3, <3>4 DEF TurnInv
  <2>8. ASSUME NEW q \in Callers \ {p} PROVE TurnInv(q)'
    <3>1. TurnInv(q) /\ turn'[q] = turn[q] /\ pc'[q] = pc[q]
      BY <2>2 DEF TurnsInv
    <3>2. turn'[q] <= turns'
      BY <1>0, <2>1, <2>6, <3>1
    <3>3. \A r \in Callers \ {q} : pc'[r] # "idle" /\ pc[q] # "idle" => turn'[q] # turn'[r]
      <4>1. turn'[q] # turn'[p]
        BY <1>0, <2>2, <2>6, <3>1
      <4>2. \A r \in Callers \ {q, p} : pc'[r] # "idle" /\ pc[q] # "idle" => turn'[q] # turn'[r]
        BY <2>2, <3>1 DEF TurnInv
      <4> QED BY <4>1, <4>2
    <3> QED BY <1>0, <2>1, <3>1, <3>2, <3>3 DEF TurnInv, Absent, Has, Human, AI, Places, Memory
  <2> QED BY <2>4, <2>7, <2>8 DEF TurnsInv
<1>4. ASSUME NEW p \in conf.procs, Adds(p), pc[p] = "user" PROVE TurnsInv'
  <2>0. p \in Callers
    BY <1>0
  <2>1. /\ log' = Append(log, Human(turn[p])) /\ turns' = turns /\ turn' = turn
        /\ Returned(p, FALSE) \/ (Goto(p, "ai") /\ acked' = acked)
    BY <1>4, <2>0, AddFacts DEF Insert
  <2>2. PICK m \in Message : m = Human(turn[p])
    BY <1>4, <2>0, TurnFacts
  <2>3. /\ pc'[p] \in {"ai", "idle"} /\ acked' = acked
        /\ \A q \in Callers \ {p} : pc'[q] = pc[q]
        /\ \A r \in Callers : pc'[r] # "idle" => pc[r] # "idle"
    <3>1. PICK l \in {"ai", "idle"} : Goto(p, l) /\ acked' = acked
      BY <2>1 DEF Returned
    <3> QED BY <1>4, <2>0, <3>1, GotoTypes
  <2>4. /\ Absent(log, m) /\ m.turn <= turns /\ TurnInv(p)
        /\ Absent(log, AI(turn[p])) /\ AI(turn[p]) # m
    BY <1>4, <2>0, <2>2, MessageFacts DEF TurnsInv, TurnInv
  <2>5. \A t \in acked' : Has(Append(log, m), t)
    BY <1>0, <2>3, HasAppend DEF LogInv
  <2>6. LogInv'
    BY <2>1, <2>2, <2>4, <2>5, InsertKeepsLog
  <2>7. TurnInv(p)'
    <3>1. Absent(Append(log, m), AI(turn[p]))
      BY <1>0, <2>4, AbsentAppend
    <3>2. ~Absent(Append(log, m), m)
      BY <1>0, AppendFacts DEF Absent
    <3>3. Absent(log, AI(turn[p]))' /\ ~Absent(log, Human(turn[p]))'
      BY <2>1, <2>2, <3>1, <3>2 DEF Absent, Human, AI
    <3>4. "ai" \in Places'
      BY <1>0, ConfFacts DEF Places, Memory
    <3>5. \A q \in Callers \ {p} : pc'[q] # "idle" => turn'[p] # turn'[q]
      BY <1>4, <2>1, <2>3, <2>4 DEF TurnInv
    <3> QED BY <1>0, <1>4, <2>1, <2>3, <2>4, <3>3, <3>4, <3>5 DEF TurnInv
  <2>8. ASSUME NEW q \in Callers \ {p} PROVE TurnInv(q)'
    BY <1>0, <1>4, <2>0, <2>1, <2>2, <2>3, InsertKeepsTurn
  <2> QED BY <2>6, <2>7, <2>8 DEF TurnsInv
<1>5. ASSUME NEW p \in conf.procs, Adds(p), pc[p] = "ai" PROVE TurnsInv'
  <2>0. p \in Callers
    BY <1>0
  <2>1. /\ log' = Append(log, AI(turn[p])) /\ turns' = turns /\ turn' = turn
        /\ \/ Returned(p, TRUE) \/ Returned(p, FALSE)
           \/ Memory = "window" /\ Goto(p, "cut") /\ acked' = acked
           \/ Memory = "token" /\ Goto(p, "count") /\ acked' = acked
    BY <1>5, <2>0, AddFacts DEF Insert
  <2>2. PICK m \in Message : m = AI(turn[p])
    BY <1>5, <2>0, TurnFacts
  <2>3. /\ \A q \in Callers \ {p} : pc'[q] = pc[q]
        /\ \A r \in Callers : pc'[r] # "idle" => pc[r] # "idle"
        /\ \/ pc'[p] = "idle"
           \/ Memory = "window" /\ pc'[p] = "cut"
           \/ Memory = "token" /\ pc'[p] = "count"
        /\ \A t \in acked' : t \in acked \/ t = turn[p]
    <3>1. \A t \in acked' : t \in acked \/ t = turn[p]
      BY <2>1 DEF Returned
    <3>2. PICK l \in {"idle", "cut", "count"} :
             Goto(p, l) /\ (l = "cut" => Memory = "window") /\ (l = "count" => Memory = "token")
      BY <2>1 DEF Returned
    <3>3. pc'[p] = l /\ \A q \in Callers \ {p} : pc'[q] = pc[q]
      BY <2>0, <3>2, GotoTypes
    <3>4. \A r \in Callers : pc'[r] # "idle" => pc[r] # "idle"
      BY <1>5, <3>3
    <3>5. l \in {"idle", "cut", "count"}
      BY <3>2
    <3>6. pc'[p] = "idle" \/ (Memory = "window" /\ pc'[p] = "cut") \/ (Memory = "token" /\ pc'[p] = "count")
      BY <3>2, <3>3, <3>5
    <3> QED BY <3>1, <3>3, <3>4, <3>6
  <2>4. /\ Absent(log, m) /\ m.turn <= turns /\ TurnInv(p)
        /\ ~Absent(log, Human(turn[p])) /\ Has(Append(log, m), turn[p])
    BY <1>0, <1>5, <2>0, <2>2, MessageFacts, HasAnswer DEF TurnsInv, TurnInv
  <2>5. \A t \in acked' : Has(Append(log, m), t)
    BY <1>0, <2>3, <2>4, HasAppend DEF LogInv
  <2>6. LogInv'
    BY <2>1, <2>2, <2>4, <2>5, InsertKeepsLog
  <2>7. TurnInv(p)'
    <3>1. Has(log, turn[p])'
      BY <2>1, <2>2, <2>4 DEF Has, Human, AI
    <3>2. pc'[p] \in Places'
      BY <1>0, <2>3, ConfFacts DEF Places, Memory
    <3>3. \A q \in Callers \ {p} : pc'[q] # "idle" => turn'[p] # turn'[q]
      BY <1>5, <2>1, <2>3, <2>4 DEF TurnInv
    <3> QED BY <1>0, <1>5, <2>1, <2>3, <2>4, <3>1, <3>2, <3>3 DEF TurnInv
  <2>8. ASSUME NEW q \in Callers \ {p} PROVE TurnInv(q)'
    BY <1>0, <1>5, <2>0, <2>1, <2>2, <2>3, InsertKeepsTurn
  <2> QED BY <2>6, <2>7, <2>8 DEF TurnsInv
<1>6. ASSUME NEW p \in conf.procs, Trims(p) PROVE TurnsInv'
  <2>0. p \in Callers
    BY <1>0
  <2>1. /\ pc[p] \in {"cut", "count", "read", "set", "insert"}
        /\ turn' = turn /\ turns' = turns /\ log' = log
    BY <1>6, <2>0, TrimFacts
  <2>2. Has(log, turn[p]) /\ pc[p] \in Places
    BY <2>0, <2>1 DEF TurnsInv, TurnInv
  <2>3. CASE Returned(p, TRUE) \/ Returned(p, FALSE)
    BY <1>0, <2>0, <2>1, <2>2, <2>3, TurnsReturn
  <2>4. CASE /\ acked' = acked
             /\ \/ pc[p] = "cut" /\ Goto(p, "set")
                \/ pc[p] = "count" /\ Goto(p, "read")
                \/ pc[p] = "read" /\ Goto(p, "set")
                \/ pc[p] = "set" /\ Goto(p, "insert")
                \/ Memory = "token" /\ Goto(p, "count")
    <3>1. PICK l \in Places : Goto(p, l) /\ l \notin {"idle", "user", "ai"}
      BY <2>2, <2>4, ConfFacts DEF Places
    <3> QED BY <1>0, <2>0, <2>1, <2>4, <3>1, TurnsMove
  <2> QED BY <1>6, <2>0, <2>3, <2>4, TrimFacts
<1>7. ASSUME NEW p \in conf.procs, GivesUp(p) PROVE TurnsInv'
  <2>1. /\ p \in Callers /\ pc[p] # "idle" /\ Returned(p, FALSE)
        /\ turn' = turn /\ turns' = turns /\ log' = log
    BY <1>0, <1>7, GiveUpFacts
  <2> QED BY <1>0, <2>1, TurnsReturn
<1>8. \A p \in conf.procs : Adds(p) => pc[p] \in {"user", "ai"}
  BY <1>0, AddFacts
<1> QED BY <1>1, <1>2, <1>3, <1>4, <1>5, <1>6, <1>7, <1>8, StepKinds

------------------------------------------------------------------------------
\* What is stored.

\* No more than two messages of each turn.
LEMMA OnceLength ==
    ASSUME NEW ms \in Seq(Message), Once(ms)
    PROVE  Len(ms) \in Nat /\ Len(ms) <= 2 * MaxTurns
<1> DEFINE S == 1..Len(ms)
           T == {"human", "ai"} \X (1..MaxTurns)
           f == [i \in S |-> <<ms[i].role, ms[i].turn>>]
<1>1. Len(ms) \in Nat /\ MaxTurns \in Nat
  BY LenProperties, MemoryAssumption
<1>2. \A i \in S : ms[i] \in Message
  BY <1>1, ElementOfSeq
<1>3. f \in [S -> T]
  BY <1>2 DEF Message
<1>4. ASSUME NEW i \in S, NEW j \in S, f[i] = f[j] PROVE i = j
  <2>1. ms[i].role = ms[j].role /\ ms[i].turn = ms[j].turn
    BY <1>4
  <2>2. ms[i] = ms[j]
    BY <1>2, <2>1 DEF Message
  <2> QED BY <1>1, <2>2 DEF Once
<1>5. f \in Injection(S, T)
  BY <1>3, <1>4 DEF Injection, IsInjective
<1>6. IsFiniteSet({"human", "ai"}) /\ Cardinality({"human", "ai"}) = 2
  <2>1. IsFiniteSet({"human"}) /\ Cardinality({"human"}) = 1
    BY FS_Singleton
  <2>2. {"human", "ai"} = {"human"} \cup {"ai"} /\ "ai" \notin {"human"}
    OBVIOUS
  <2>3. IsFiniteSet({"human"} \cup {"ai"}) /\ Cardinality({"human"} \cup {"ai"}) = 1 + 1
    BY <2>1, <2>2, FS_AddElement
  <2> QED BY <2>2, <2>3
<1>7. IsFiniteSet(1..MaxTurns) /\ Cardinality(1..MaxTurns) = MaxTurns
  BY <1>1, UpToFacts
<1>8. IsFiniteSet(T) /\ Cardinality(T) = 2 * MaxTurns
  <2>1. /\ IsFiniteSet(T)
        /\ Cardinality(T) = Cardinality({"human", "ai"}) * Cardinality(1..MaxTurns)
    BY <1>6, <1>7, FS_Product
  <2> QED BY <1>6, <1>7, <2>1, Zenon
<1>9. Cardinality(S) = Len(ms)
  BY <1>1, UpToFacts
<1> HIDE DEF S, T, f
<1>10. Cardinality(S) <= Cardinality(T)
  BY <1>5, <1>8, FS_Injection
<1> QED BY <1>1, <1>8, <1>9, <1>10

\* Where one caller trims, no other is in a save.
LEMMA OneAtATime ==
    ASSUME TypeOK, TurnsInv, Alone, Memory # "buffer", NEW p \in conf.procs
    PROVE  \A q \in Callers \ {p} : pc[q] = "idle"
BY DEF Alone, TurnsInv, TurnInv

\* Under a buffer memory a step that is no crash adds a message, or changes nothing.
LEMMA BufferSteps ==
    ASSUME TypeOK, TurnsInv, BufferInv, Memory = "buffer", [Next]_vars
    PROVE  \/ Crash
           \/ \E m \in Message : Insert(m) /\ torn' = torn
           \/ UNCHANGED <<store, durable, openTx, log, torn>>
<1>1. conf.procs \subseteq Callers /\ ~openTx
  BY ConfFacts DEF BufferInv
<1>2. ASSUME NEW p \in conf.procs PROVE pc[p] \in {"idle", "user", "ai"}
  BY <1>1 DEF TurnsInv, TurnInv, Places
<1>3. CASE UNCHANGED vars
  BY <1>3 DEF vars
<1>4. ASSUME NEW p \in conf.procs, Begin(p) PROVE UNCHANGED <<store, durable, openTx, log, torn>>
  BY <1>4 DEF Begin
<1>5. ASSUME NEW p \in conf.procs, Adds(p) PROVE \E m \in Message : Insert(m) /\ torn' = torn
  <2>1. p \in Callers
    BY <1>1
  <2> QED BY <1>5, <2>1, AddFacts, TurnFacts
<1>6. ASSUME NEW p \in conf.procs PROVE ~Trims(p)
  <2>1. p \in Callers
    BY <1>1
  <2> QED BY <1>2, <2>1, TrimFacts
<1>7. ASSUME NEW p \in conf.procs, GivesUp(p) PROVE UNCHANGED <<store, durable, openTx, log, torn>>
  BY <1>1, <1>2, <1>7 DEF GivesUp, FailsWithoutEffect, OutputInvalid, TransactionFails,
                          FailsRolledBack, ClearFails, InsertFails
<1> QED BY <1>3, <1>4, <1>5, <1>6, <1>7, StepKinds

LEMMA BufferStep ==
    ASSUME TypeOK, TurnsInv, BufferInv, [Next]_vars
    PROVE  BufferInv'
<1>1. conf' = conf
  BY StepKinds
<1> SUFFICES ASSUME Memory = "buffer"
             PROVE  /\ ~openTx'
                    /\ Len(store') = Len(log') - torn' /\ Agrees(store', log', torn')
                    /\ durable' = IF Store = "slice" THEN <<>> ELSE log'
                    /\ Store # "slice" => torn' = 0 /\ store' = log'
  BY <1>1 DEF BufferInv, Memory, Store, Agrees
<1>2. /\ ~openTx
      /\ Len(store) = Len(log) - torn /\ Agrees(store, log, torn)
      /\ durable = IF Store = "slice" THEN <<>> ELSE log
      /\ Store # "slice" => torn = 0 /\ store = log
      /\ store \in Seq(Message) /\ log \in Seq(Message)
      /\ Len(log) \in Nat /\ torn \in Int /\ 0 <= torn /\ torn <= Len(log)
  BY LenProperties DEF BufferInv, TypeOK
<1>3. CASE UNCHANGED <<store, durable, openTx, log, torn>>
  BY <1>2, <1>3
<1>4. CASE Crash
  <2>1. store' = durable /\ durable' = durable /\ log' = log /\ openTx' = FALSE
    BY <1>4 DEF Crash
  <2>2. CASE Store = "slice"
    <3>1. torn' = Len(log) /\ store' = <<>>
      BY <1>2, <1>4, <2>1, <2>2 DEF Crash
    <3>2. Len(<<>>) = 0 /\ Len(log) - Len(log) = 0
      BY <1>2
    <3>3. Agrees(<<>>, log, Len(log))
      BY <3>2 DEF Agrees
    <3> QED BY <1>2, <2>1, <2>2, <3>1, <3>2, <3>3
  <2>3. CASE Store # "slice"
    <3>1. \A p \in Callers : pc[p] # "insert"
      BY DEF TurnsInv, TurnInv, Places
    <3>2. torn' = torn
      BY <1>2, <1>4, <2>3, <3>1 DEF Crash
    <3> QED BY <1>2, <2>1, <2>3, <3>2
  <2> QED BY <2>2, <2>3
<1>5. ASSUME NEW m \in Message, Insert(m), torn' = torn
      PROVE  /\ ~openTx'
             /\ Len(store') = Len(log') - torn' /\ Agrees(store', log', torn')
             /\ durable' = IF Store = "slice" THEN <<>> ELSE log'
             /\ Store # "slice" => torn' = 0 /\ store' = log'
  <2>1. /\ store' = Append(store, m) /\ log' = Append(log, m) /\ openTx' = openTx
        /\ durable' = IF openTx \/ Store = "slice" THEN durable ELSE Append(store, m)
    BY <1>5 DEF Insert, Write
  <2>2. Len(Append(store, m)) = Len(Append(log, m)) - torn
    <3>1. Len(Append(store, m)) = Len(store) + 1 /\ Len(Append(log, m)) = Len(log) + 1
      BY <1>2, AppendFacts
    <3> QED BY <1>2, <3>1
  <2>3. Agrees(Append(store, m), Append(log, m), torn)
    BY <1>2, AgreesAppend
  <2> QED BY <1>2, <1>5, <2>1, <2>2, <2>3
<1> QED BY <1>3, <1>4, <1>5, BufferSteps

\* Where one caller trims, and reads all that is stored.
LEMMA TrimmingFacts ==
    ASSUME TypeOK, TurnsInv, StoresInv, Trimming
    PROVE  /\ StoresGood /\ Memory \in {"window", "token"} /\ Window \in Int /\ 2 <= Window
           /\ store \in Seq(Message) /\ durable \in Seq(Message) /\ log \in Seq(Message)
           /\ Len(store) \in Nat /\ Len(log) \in Nat /\ Len(log) \in Int
           /\ torn \in Nat /\ torn \in Int /\ 0 <= torn /\ torn <= Len(log)
           /\ Stored = store /\ conf.maxTokenLimit \in Nat
           /\ conf.procs \subseteq Callers
           /\ \A p \in Callers : local[p] \in Seq(Message)
<1>1. /\ StoresGood /\ Memory \in {"window", "token"} /\ Window \in Int /\ 2 <= Window
      /\ conf.maxTokenLimit \in Nat /\ conf.procs \subseteq Callers
  BY ConfFacts DEF StoresInv, Trimming
<1>2. /\ store \in Seq(Message) /\ durable \in Seq(Message) /\ log \in Seq(Message)
      /\ torn \in 0..Len(log) /\ \A p \in Callers : local[p] \in Seq(Message)
  BY DEF TypeOK
<1>3. Len(store) \in Nat /\ Len(log) \in Nat
  BY <1>2, LenProperties
<1>4. Stored = store
  <2>1. Len(store) <= 2 * MaxTurns
    BY <1>1, <1>2, SortedOnce, OnceLength DEF StoresGood, Recalled
  <2>2. Store = "sqlite" => ~(Len(store) > conf.limit)
    <3>1. Store = "sqlite" => conf.limit >= 2 * MaxTurns
      BY DEF Trimming, ReadsAll
    <3>2. conf.limit \in Int /\ MaxTurns \in Nat
      BY ConfFacts
    <3> QED BY <1>3, <2>1, <3>1, <3>2
  <2> QED BY <2>2 DEF Stored
<1> QED BY <1>1, <1>2, <1>3, <1>4

\* Nobody but p is in a save.
LEMMA NobodyElse ==
    ASSUME TypeOK, TurnsInv, StoresInv, Trimming, NEW p \in conf.procs
    PROVE  /\ p \in Callers /\ \A q \in Callers \ {p} : pc[q] = "idle"
           /\ pc[p] # "insert" => Enough(store, log, torn)
<1>1. p \in Callers /\ \A q \in Callers \ {p} : pc[q] = "idle"
  BY OneAtATime, ConfFacts DEF Trimming
<1> QED BY <1>1, TrimmingFacts DEF StoresGood

\* The last messages are as good as all, if there are enough of them.
LEMMA CutGood ==
    ASSUME TypeOK, TurnsInv, StoresInv, Trimming, Memory = "window", Len(Messages) > Window
    PROVE  Good(CutMessages(Messages), log, torn)
<1> PICK u : u = LastOf(store, Window)
  OBVIOUS
<1>1. CutMessages(Messages) = u /\ Window <= Len(store) /\ Window \in Int /\ 0 <= Window
  <2>1. Stored = store /\ Window \in Int /\ 2 <= Window
    BY TrimmingFacts
  <2> QED BY <2>1, CutRead
<1>2. u \in Seq(Message) /\ Len(u) = Window
  BY <1>1, TrimmingFacts, LastFacts
<1>3. Recalled(u, log, torn)
  BY <1>1, TrimmingFacts, RecalledLast DEF StoresGood
<1>4. Enough(u, log, torn)
  BY <1>1, <1>2 DEF Enough
<1> QED BY <1>1, <1>3, <1>4 DEF Good

\* So are all but the oldest, if all do not fit.
LEMMA TailGood ==
    ASSUME TypeOK, TurnsInv, StoresInv, Trimming, Memory = "token", store # <<>>,
           Enough(store, log, torn), Tokens(store) > conf.maxTokenLimit
    PROVE  Good(Tail(store), log, torn)
<1> PICK u : u = Tail(store)
  OBVIOUS
<1>1. /\ store \in Seq(Message) /\ log \in Seq(Message) /\ Len(store) \in Nat
      /\ Len(log) \in Nat /\ torn \in Int /\ 0 <= torn /\ torn <= Len(log)
      /\ Recalled(store, log, torn)
  BY TrimmingFacts DEF StoresGood
<1>2. u \in Seq(Message) /\ Len(u) = Len(store) - 1 /\ Len(store) >= 1
  <2>1. Len(store) \in Nat \ {0}
    BY <1>1, EmptySeq
  <2> QED BY <1>1, <2>1, HeadTailProperties
<1>3. Recalled(u, log, torn)
  <2>1. PICK k : k = Len(store) - 1
    OBVIOUS
  <2>2. k \in Int /\ 0 <= k /\ k <= Len(store) /\ Len(store) - k + 1 = 2
    BY <1>1, <1>2, <2>1
  <2>3. LastOf(store, k) = SubSeq(store, 2, Len(store))
    BY <2>2 DEF LastOf
  <2>4. u = SubSeq(store, 2, Len(store))
    BY <1>1, TailIsSubSeq
  <2>5. Recalled(LastOf(store, k), log, torn)
    BY <1>1, <2>2, RecalledLast
  <2> QED BY <2>3, <2>4, <2>5
<1>4. Enough(u, log, torn)
  <2>1. CASE Store = "zep"
    BY <2>1 DEF Enough
  <2>2. CASE Store # "zep"
    <3>1. ASSUME NEW k \in Nat, torn <= k, k < Len(log) - Len(u)
          PROVE  Tokens(After(log, k)) > conf.maxTokenLimit
      <4>1. CASE k < Len(log) - Len(store)
        BY <2>2, <3>1, <4>1 DEF Enough
      <4>2. CASE ~(k < Len(log) - Len(store))
        <5>1. Len(store) = Len(log) - k /\ k \in Int
          BY <1>1, <1>2, <3>1, <4>2
        <5>2. store = After(log, k)
          BY <1>1, <3>1, <5>1, AgreesAfter DEF Recalled
        <5> QED BY <5>2
      <4> QED BY <4>1, <4>2
    <3> QED BY <2>2, <3>1 DEF Enough
  <2> QED BY <2>1, <2>2
<1> QED BY <1>3, <1>4 DEF Good

\* Configurations do not change, and neither does what is enough.
LEMMA EnoughNext ==
    ASSUME TypeOK, conf' = conf
    PROVE  /\ Enough(store', log', torn') => Enough(store, log, torn)'
           /\ \A p \in Callers : Enough(local'[p], log', torn') => Enough(local[p], log, torn)'
<1>1. /\ Memory' = Memory /\ Store' = Store /\ Window' = Window
      /\ conf'.maxTokenLimit = conf.maxTokenLimit
      /\ Memory \in {"buffer", "window", "token"}
  BY ConfFacts DEF Memory, Store, Window
<1>2. CASE Memory = "buffer"
  BY <1>1, <1>2 DEF Enough
<1>3. CASE Memory = "window"
  BY <1>1, <1>3 DEF Enough
<1>4. CASE Memory = "token"
  BY <1>1, <1>4 DEF Enough
<1> QED BY <1>1, <1>2, <1>3, <1>4

LEMMA StoresNext ==
    ASSUME TypeOK, conf' = conf,
           Sorted(log'), Recalled(store', log', torn'), Recalled(durable', log', Len(log')),
           ~openTx' /\ Store # "slice" => durable' = store', openTx' => Store = "sqlite",
           (\A p \in Callers : pc'[p] # "insert") => Enough(store', log', torn'),
           \A p \in Callers :
             /\ pc'[p] # "idle" => turn'[p] = turns'
             /\ pc'[p] = "read" /\ Store # "zep" => Tokens(store') > conf.maxTokenLimit
             /\ pc'[p] \in {"set", "insert"} /\ Store # "zep" => Good(local'[p], log', torn')
             /\ pc'[p] = "insert" => store' = <<>> /\ TwoPhase
    PROVE  StoresGood'
<1>1. Store' = Store /\ TwoPhase' = TwoPhase /\ conf'.maxTokenLimit = conf.maxTokenLimit
  BY DEF Store, TwoPhase
<1>2. Sorted(log)' /\ Recalled(store, log, torn)' /\ Recalled(durable, log, Len(log))'
  OBVIOUS
<1>3. (\A p \in Callers : pc'[p] # "insert") => Enough(store, log, torn)'
  BY EnoughNext
<1>4. ASSUME NEW p \in Callers, pc'[p] \in {"set", "insert"}, Store # "zep"
      PROVE  Good(local[p], log, torn)'
  <2>1. Good(local'[p], log', torn')
    BY <1>4
  <2>2. Recalled(local[p], log, torn)'
    BY <2>1 DEF Good
  <2> QED BY <2>1, <2>2, EnoughNext DEF Good
<1> QED BY <1>1, <1>2, <1>3, <1>4 DEF StoresGood

\* What a step of the saving caller has to leave, that inserts nothing.
LEMMA StoresSet ==
    ASSUME TypeOK, TurnsInv, StoresInv, Trimming, NEW p \in conf.procs, pc[p] # "idle",
           conf' = conf, log' = log, turns' = turns, turn' = turn,
           \A q \in Callers \ {p} : pc'[q] = pc[q],
           Recalled(store', log, torn'), Recalled(durable', log, Len(log)),
           ~openTx' /\ Store # "slice" => durable' = store', openTx' => Store = "sqlite",
           pc'[p] # "insert" => Enough(store', log, torn'),
           pc'[p] = "read" /\ Store # "zep" => Tokens(store') > conf.maxTokenLimit,
           pc'[p] \in {"set", "insert"} /\ Store # "zep" => Good(local'[p], log, torn'),
           pc'[p] = "insert" => store' = <<>> /\ TwoPhase
    PROVE  StoresGood'
<1>1. /\ p \in Callers /\ \A q \in Callers \ {p} : pc[q] = "idle"
      /\ StoresGood
  BY NobodyElse, TrimmingFacts
<1>2. \A q \in Callers \ {p} : pc'[q] = "idle"
  BY <1>1
<1>3. turn'[p] = turns'
  BY <1>1 DEF StoresGood
<1>4. \A q \in Callers :
        /\ pc'[q] # "idle" => turn'[q] = turns'
        /\ pc'[q] = "read" /\ Store # "zep" => Tokens(store') > conf.maxTokenLimit
        /\ pc'[q] \in {"set", "insert"} /\ Store # "zep" => Good(local'[q], log', torn')
        /\ pc'[q] = "insert" => store' = <<>> /\ TwoPhase
  BY <1>2, <1>3
<1>5. Sorted(log') /\ Recalled(store', log', torn') /\ Recalled(durable', log', Len(log'))
  BY <1>1 DEF StoresGood
<1>6. (\A q \in Callers : pc'[q] # "insert") => Enough(store', log', torn')
  BY <1>1
<1> QED BY <1>4, <1>5, <1>6, StoresNext

\* A message that is said after all the others.
LEMMA SaidLast ==
    ASSUME TypeOK, TurnsInv, NEW p \in Callers, turn[p] = turns, NEW m \in Message,
           \/ pc[p] = "user" /\ m = Human(turn[p])
           \/ pc[p] = "ai" /\ m = AI(turn[p])
    PROVE  \A i \in 1..Len(log) : Earlier(log[i], m)
<1> SUFFICES ASSUME NEW i \in 1..Len(log) PROVE Earlier(log[i], m)
  OBVIOUS
<1>1. /\ log[i] \in Message /\ log[i].turn \in Int /\ log[i].role \in {"human", "ai"}
      /\ log[i].turn <= turns /\ turns \in Int
  <2>1. log \in Seq(Message)
    BY DEF TypeOK
  <2>2. log[i] \in Message
    BY <2>1, ElementOfSeq
  <2> QED BY <2>2, EarlierFacts, ConfFacts DEF TurnsInv, LogInv
<1>2. log[i] = Human(turns) \/ log[i] = AI(turns) \/ log[i].turn < turns
  <2>1. CASE log[i].turn = turns
    <3>1. log[i] = [role |-> log[i].role, turn |-> turns]
      BY <1>1, <2>1 DEF Message
    <3> QED BY <1>1, <3>1 DEF Human, AI
  <2> QED BY <1>1, <2>1
<1>3. m.turn = turns
  BY MessageFacts
<1>4. CASE pc[p] = "user" /\ m = Human(turn[p])
  <2>1. log[i] # Human(turns) /\ log[i] # AI(turns)
    BY <1>4 DEF TurnsInv, TurnInv, Absent
  <2> QED BY <1>2, <1>3, <2>1 DEF Earlier
<1>5. CASE pc[p] = "ai" /\ m = AI(turn[p])
  <2>1. log[i] # AI(turns)
    BY <1>5 DEF TurnsInv, TurnInv, Absent
  <2>2. Human(turns).turn = turns /\ Human(turns).role = "human" /\ m.role = "ai"
    BY <1>5 DEF Human, AI
  <2> QED BY <1>2, <1>3, <2>1, <2>2 DEF Earlier
<1> QED BY <1>4, <1>5

LEMMA StoresAdd ==
    ASSUME TypeOK, TurnsInv, StoresInv, Trimming, conf' = conf, NEW p \in conf.procs, Adds(p)
    PROVE  StoresGood'
<1>1. /\ p \in Callers /\ \A q \in Callers \ {p} : pc[q] = "idle"
      /\ StoresGood /\ Memory \in {"window", "token"}
  BY NobodyElse, TrimmingFacts
<1>2. /\ pc[p] \in {"user", "ai"}
      /\ turn' = turn /\ turns' = turns /\ local' = local /\ torn' = torn
  BY <1>1, AddFacts
<1>3. PICK m \in Message : /\ \/ pc[p] = "user" /\ m = Human(turn[p])
                              \/ pc[p] = "ai" /\ m = AI(turn[p])
                           /\ Insert(m)
  BY <1>1, <1>2, AddFacts, TurnFacts
<1>4. turn[p] = turns
  BY <1>1, <1>2 DEF StoresGood
<1>5. \A i \in 1..Len(log) : Earlier(log[i], m)
  BY <1>1, <1>3, <1>4, SaidLast
<1>6. /\ store \in Seq(Message) /\ durable \in Seq(Message) /\ log \in Seq(Message)
      /\ torn \in Int /\ torn \in Nat /\ 0 <= torn /\ torn <= Len(log) /\ conf.maxTokenLimit \in Nat
      /\ Window \in Int /\ Len(log) \in Nat
  BY TrimmingFacts
<1>7. /\ store' = Append(store, m) /\ log' = Append(log, m) /\ openTx' = openTx
      /\ durable' = IF openTx \/ Store = "slice" THEN durable ELSE Append(store, m)
  BY <1>3 DEF Insert, Write
<1>8. Sorted(log') /\ Recalled(store', log', torn')
  BY <1>1, <1>2, <1>5, <1>6, <1>7, SortedAppend, RecalledAppend DEF StoresGood
<1>9. Recalled(durable', log', Len(log'))
  <2>1. CASE openTx \/ Store = "slice"
    BY <1>1, <1>6, <1>7, <2>1, RecalledLost DEF StoresGood
  <2>2. CASE ~(openTx \/ Store = "slice")
    <3>1. store' \in Seq(Message) /\ log' \in Seq(Message) /\ durable' = store'
      BY <1>6, <1>7, <2>2, AppendFacts
    <3> QED BY <1>8, <3>1, RecalledLost
  <2> QED BY <2>1, <2>2
<1>10. Enough(store', log', torn')
  <2>1. Enough(store, log, torn)
    BY <1>2, NobodyElse
  <2> QED BY <1>1, <1>2, <1>6, <1>7, <2>1, EnoughAppend
<1>11. /\ pc'[p] \notin {"read", "set", "insert"}
       /\ \A q \in Callers \ {p} : pc'[q] = "idle"
  <2>1. PICK l : Goto(p, l) /\ l \in {"idle", "ai", "cut", "count"}
    BY <1>1, AddFacts DEF Returned
  <2> QED BY <1>1, <2>1, GotoTypes
<1>12. ~openTx' /\ Store # "slice" => durable' = store'
  BY <1>7
<1>13. openTx' => Store = "sqlite"
  BY <1>1, <1>7 DEF StoresGood
<1>14. \A q \in Callers :
        /\ pc'[q] # "idle" => turn'[q] = turns'
        /\ pc'[q] = "read" /\ Store # "zep" => Tokens(store') > conf.maxTokenLimit
        /\ pc'[q] \in {"set", "insert"} /\ Store # "zep" => Good(local'[q], log', torn')
        /\ pc'[q] = "insert" => store' = <<>> /\ TwoPhase
  BY <1>2, <1>4, <1>11
<1> QED BY <1>8, <1>9, <1>10, <1>12, <1>13, <1>14, StoresNext

LEMMA StoresBegin ==
    ASSUME TypeOK, TurnsInv, StoresInv, Trimming, conf' = conf, NEW p \in conf.procs, Begin(p)
    PROVE  StoresGood'
<1>1. /\ p \in Callers /\ \A q \in Callers \ {p} : pc[q] = "idle"
      /\ StoresGood
  BY NobodyElse, TrimmingFacts
<1>2. /\ pc[p] = "idle" /\ turns' = turns + 1 /\ turn' = [turn EXCEPT ![p] = turns + 1]
      /\ Goto(p, "user")
      /\ UNCHANGED <<store, durable, openTx, local, log, torn>>
  BY DEF Begin
<1>3. /\ pc'[p] = "user" /\ \A q \in Callers \ {p} : pc'[q] = "idle"
      /\ turn'[p] = turns'
  BY <1>1, <1>2, GotoTypes DEF TypeOK
<1>4. \A q \in Callers :
        /\ pc'[q] # "idle" => turn'[q] = turns'
        /\ pc'[q] = "read" /\ Store # "zep" => Tokens(store') > conf.maxTokenLimit
        /\ pc'[q] \in {"set", "insert"} /\ Store # "zep" => Good(local'[q], log', torn')
        /\ pc'[q] = "insert" => store' = <<>> /\ TwoPhase
  BY <1>3
<1>5. Enough(store', log', torn')
  BY <1>2, NobodyElse
<1>6. /\ Sorted(log') /\ Recalled(store', log', torn') /\ Recalled(durable', log', Len(log'))
      /\ (~openTx' /\ Store # "slice" => durable' = store') /\ (openTx' => Store = "sqlite")
  BY <1>1, <1>2 DEF StoresGood
<1> QED BY <1>4, <1>5, <1>6, StoresNext

LEMMA StoresCrash ==
    ASSUME TypeOK, TurnsInv, StoresInv, Trimming, conf' = conf, Crash
    PROVE  StoresGood'
<1>1. /\ StoresGood /\ Memory \in {"window", "token"}
      /\ durable \in Seq(Message) /\ log \in Seq(Message)
  BY TrimmingFacts
<1>2. /\ store' = durable /\ durable' = durable /\ openTx' = FALSE /\ log' = log
      /\ \A q \in Callers : pc'[q] = "idle"
      /\ torn' = IF \/ Store = "slice" \/ openTx
                    \/ \E p \in Callers : pc[p] = "insert"
                   THEN Len(log) ELSE torn
  BY DEF Crash
<1>3. Recalled(store', log', torn') /\ Enough(store', log', torn')
  <2>1. CASE Store = "slice" \/ openTx \/ \E p \in Callers : pc[p] = "insert"
    BY <1>1, <1>2, <2>1, EnoughLost DEF StoresGood
  <2>2. CASE ~(Store = "slice" \/ openTx \/ \E p \in Callers : pc[p] = "insert")
    BY <1>1, <1>2, <2>2 DEF StoresGood
  <2> QED BY <2>1, <2>2
<1>4. \A q \in Callers :
        /\ pc'[q] # "idle" => turn'[q] = turns'
        /\ pc'[q] = "read" /\ Store # "zep" => Tokens(store') > conf.maxTokenLimit
        /\ pc'[q] \in {"set", "insert"} /\ Store # "zep" => Good(local'[q], log', torn')
        /\ pc'[q] = "insert" => store' = <<>> /\ TwoPhase
  BY <1>2
<1>5. /\ Sorted(log') /\ Recalled(durable', log', Len(log'))
      /\ (~openTx' /\ Store # "slice" => durable' = store') /\ (openTx' => Store = "sqlite")
  BY <1>1, <1>2 DEF StoresGood
<1> QED BY <1>3, <1>4, <1>5, StoresNext

LEMMA StoresTrim ==
    ASSUME TypeOK, TurnsInv, StoresInv, Trimming, conf' = conf, NEW p \in conf.procs, Trims(p)
    PROVE  StoresGood'
<1>1. /\ p \in Callers /\ \A q \in Callers \ {p} : pc[q] = "idle"
      /\ pc[p] # "insert" => Enough(store, log, torn)
      /\ StoresGood /\ Memory \in {"window", "token"} /\ Stored = store
      /\ store \in Seq(Message) /\ log \in Seq(Message) /\ local[p] \in Seq(Message)
      /\ local \in [Callers -> Seq(Message)] /\ Len(log) \in Nat
  BY NobodyElse, TrimmingFacts DEF TypeOK
<1>2. /\ pc[p] \in {"cut", "count", "read", "set", "insert"} /\ pc[p] # "idle"
      /\ turn' = turn /\ turns' = turns /\ log' = log /\ torn' = torn
  BY <1>1, TrimFacts
<1>3. /\ pc[p] = "cut" => Memory = "window"
      /\ pc[p] \in {"count", "read"} => Memory = "token"
  BY <1>1 DEF TurnsInv, TurnInv, Places
<1>4. /\ Recalled(store, log, torn) /\ Recalled(durable, log, Len(log))
      /\ ~openTx /\ Store # "slice" => durable = store
      /\ openTx => Store = "sqlite"
      /\ pc[p] = "read" /\ Store # "zep" => Tokens(store) > conf.maxTokenLimit
      /\ pc[p] \in {"set", "insert"} /\ Store # "zep" => Good(local[p], log, torn)
      /\ pc[p] = "insert" => store = <<>> /\ TwoPhase
  BY <1>1 DEF StoresGood
<1>5. ASSUME NEW l \in {"idle", "user", "ai", "cut", "count", "read", "set", "insert"}, Goto(p, l)
      PROVE  pc'[p] = l /\ \A q \in Callers \ {p} : pc'[q] = pc[q]
  BY <1>1, <1>5, GotoTypes
\* The store is left as it is.
<1>6. ASSUME UNCHANGED <<store, durable, openTx>>, pc[p] # "insert",
             NEW l \in {"idle", "count", "read", "set"}, Goto(p, l),
             l = "read" /\ Store # "zep" => Tokens(store) > conf.maxTokenLimit,
             l = "set" /\ Store # "zep" => Good(local'[p], log, torn)
      PROVE  StoresGood'
  <2>1. pc'[p] = l /\ \A q \in Callers \ {p} : pc'[q] = pc[q]
    BY <1>5, <1>6
  <2> QED BY <1>1, <1>2, <1>4, <1>6, <2>1, StoresSet
\* It becomes what was to be set.
<1>7. ASSUME store' = local[p], pc[p] \in {"set", "insert"}, Store # "zep", NEW l \in {"idle", "count"},
             Goto(p, l), Recalled(durable', log, Len(log)),
             ~openTx' /\ Store # "slice" => durable' = store', openTx' => Store = "sqlite"
      PROVE  StoresGood'
  <2>1. pc'[p] = l /\ \A q \in Callers \ {p} : pc'[q] = pc[q]
    BY <1>5, <1>7
  <2>2. Recalled(store', log, torn') /\ Enough(store', log, torn')
    BY <1>2, <1>4, <1>7 DEF Good
  <2> QED BY <1>1, <1>2, <1>7, <2>1, <2>2, StoresSet
<1>8. pc[p] \in {"set", "insert"} /\ Store # "zep" => Recalled(local[p], log, Len(log))
  BY <1>1, <1>4, RecalledLost DEF Good
<1>9. CASE Cut(p)
  <2>1. pc[p] = "cut" /\ UNCHANGED <<store, durable, openTx>>
    BY <1>9 DEF Cut
  <2>2. CASE Len(Messages) > Window
    <3>1. local' = [local EXCEPT ![p] = CutMessages(Messages)] /\ Goto(p, "set")
      BY <1>9, <2>2 DEF Cut
    <3>2. local'[p] = CutMessages(Messages)
      BY <1>1, <3>1
    <3>3. Good(local'[p], log, torn)
      BY <1>3, <2>1, <2>2, <3>2, CutGood
    <3> QED BY <1>6, <2>1, <3>1, <3>3
  <2>3. CASE ~(Len(Messages) > Window)
    <3>1. Goto(p, "idle")
      BY <1>9, <2>3 DEF Cut, Returned
    <3> QED BY <1>6, <2>1, <3>1
  <2> QED BY <2>2, <2>3
<1>10. CASE Count(p)
  <2>1. pc[p] = "count" /\ UNCHANGED <<store, durable, openTx>>
    BY <1>10 DEF Count
  <2>2. CASE Tokens(Messages) > conf.maxTokenLimit
    <3>1. Goto(p, "read")
      BY <1>10, <2>2 DEF Count
    <3>2. Store # "zep" => Tokens(store) > conf.maxTokenLimit
      BY <1>1, <2>2, MessagesRead
    <3> QED BY <1>6, <2>1, <3>1, <3>2
  <2>3. CASE ~(Tokens(Messages) > conf.maxTokenLimit)
    <3>1. Goto(p, "idle")
      BY <1>10, <2>3 DEF Count, Returned
    <3> QED BY <1>6, <2>1, <3>1
  <2> QED BY <2>2, <2>3
<1>11. CASE Read(p)
  <2>1. pc[p] = "read" /\ UNCHANGED <<store, durable, openTx>>
    BY <1>11 DEF Read
  <2>2. CASE Messages # <<>>
    <3>1. local' = [local EXCEPT ![p] = DropOldest(Messages)] /\ Goto(p, "set")
      BY <1>11, <2>2 DEF Read
    <3>2. local'[p] = DropOldest(Messages)
      BY <1>1, <3>1
    <3>3. Store # "zep" => store # <<>> /\ DropOldest(Messages) = Tail(store)
      BY <1>1, <2>2, ReadRead
    <3>4. Store # "zep" => Good(local'[p], log, torn)
      BY <1>1, <1>3, <1>4, <2>1, <3>2, <3>3, TailGood
    <3> QED BY <1>6, <2>1, <3>1, <3>4
  <2>3. CASE Messages = <<>>
    <3>1. Goto(p, "idle")
      BY <1>11, <2>3 DEF Read, Returned
    <3> QED BY <1>6, <2>1, <3>1
  <2> QED BY <2>2, <2>3
<1>12. CASE SetMessages(p)
  <2>1. /\ pc[p] = "set" /\ local' = local
        /\ SetNothing(local[p]) \/ SetSlice(local[p]) \/ SetTransaction(local[p])
    BY <1>12 DEF SetMessages
  <2>2. PICK l \in {"idle", "count"} : Goto(p, l)
    BY <1>12 DEF SetMessages, AfterSet, Returned
  <2>3. CASE SetNothing(local[p])
    BY <1>6, <2>1, <2>2, <2>3 DEF SetNothing
  <2>4. CASE SetSlice(local[p])
    <3>1. store' = local[p] /\ durable' = durable /\ openTx' = openTx /\ Store = "slice"
      BY <2>4 DEF SetSlice, Write
    <3> QED BY <1>4, <1>7, <2>1, <2>2, <3>1
  <2>5. CASE SetTransaction(local[p])
    <3>1. store' = local[p] /\ durable' = local[p] /\ openTx' = openTx /\ Store = "sqlite"
      BY <2>5 DEF SetTransaction, Write
    <3> QED BY <1>7, <1>8, <2>1, <2>2, <3>1
  <2> QED BY <2>1, <2>3, <2>4, <2>5
<1>13. CASE SetMessagesError(p)
  <2>1. pc[p] = "set" /\ local' = local /\ Goto(p, "idle")
    BY <1>13 DEF SetMessagesError, Returned
  <2>2. CASE SetTransactionEmpty(local[p])
    <3>1. store' = local[p] /\ durable' = durable /\ openTx' /\ Store = "sqlite"
      BY <2>2 DEF SetTransactionEmpty
    <3> QED BY <1>4, <1>7, <2>1, <3>1
  <2>3. CASE SetTransactionNested(local[p])
    BY <1>6, <2>1, <2>3 DEF SetTransactionNested
  <2> QED BY <1>13, <2>2, <2>3 DEF SetMessagesError
<1>14. CASE SetClears(p)
  <2>1. /\ pc[p] = "set" /\ TwoPhase /\ Goto(p, "insert") /\ openTx' = openTx /\ local' = local
        /\ store' = <<>> /\ durable' = IF openTx \/ Store = "slice" THEN durable ELSE <<>>
    BY <1>14 DEF SetClears, Write
  <2>2. Store \notin {"slice", "zep", "sqlite"} /\ ~openTx
    BY <1>4, <2>1 DEF TwoPhase
  <2>3. durable' = <<>> /\ Recalled(<<>>, log, torn) /\ Recalled(<<>>, log, Len(log))
    BY <2>1, <2>2, RecalledNone
  <2>4. pc'[p] = "insert" /\ \A q \in Callers \ {p} : pc'[q] = pc[q]
    BY <1>5, <2>1
  <2> QED BY <1>1, <1>2, <1>4, <2>1, <2>2, <2>3, <2>4, StoresSet
<1>15. CASE SetInserts(p)
  <2>1. /\ pc[p] = "insert" /\ openTx' = openTx /\ store' = store \o local[p]
        /\ durable' = IF openTx \/ Store = "slice" THEN durable ELSE store \o local[p]
    BY <1>15 DEF SetInserts, Write
  <2>2. PICK l \in {"idle", "count"} : Goto(p, l)
    BY <1>15 DEF SetInserts, AfterSet, Returned
  <2>3. store' = local[p] /\ Store \notin {"slice", "zep", "sqlite"} /\ ~openTx
    BY <1>1, <1>4, <2>1, ConcatEmptySeq DEF TwoPhase
  <2> QED BY <1>7, <1>8, <2>1, <2>2, <2>3
<1>16. CASE SetInsertsNothing(p)
  <2>1. /\ pc[p] = "insert" /\ Goto(p, "idle") /\ local[p] = <<>> /\ Store = "mongo"
        /\ UNCHANGED <<store, durable, openTx>>
    BY <1>16 DEF SetInsertsNothing, Returned
  <2> QED BY <1>4, <1>7, <2>1
<1> QED BY <1>9, <1>10, <1>11, <1>12, <1>13, <1>14, <1>15, <1>16 DEF Trims

LEMMA StoresGiveUp ==
    ASSUME TypeOK, TurnsInv, StoresInv, Trimming, conf' = conf, NEW p \in conf.procs, GivesUp(p)
    PROVE  StoresGood'
<1>1. /\ p \in Callers /\ \A q \in Callers \ {p} : pc[q] = "idle"
      /\ pc[p] # "insert" => Enough(store, log, torn)
      /\ StoresGood /\ Memory \in {"window", "token"}
      /\ store \in Seq(Message) /\ durable \in Seq(Message) /\ log \in Seq(Message)
      /\ local[p] \in Seq(Message) /\ Len(log) \in Nat /\ Len(store) \in Nat
      /\ Len(local[p]) \in Nat
  BY NobodyElse, TrimmingFacts, LenProperties
<1>2. /\ pc[p] # "idle" /\ turn' = turn /\ turns' = turns /\ log' = log /\ local' = local
      /\ Goto(p, "idle")
  BY <1>1, GiveUpFacts DEF Returned
<1>3. pc'[p] = "idle" /\ \A q \in Callers \ {p} : pc'[q] = pc[q]
  BY <1>1, <1>2, GotoTypes
<1>4. /\ Recalled(store, log, torn) /\ Recalled(durable, log, Len(log))
      /\ ~openTx /\ Store # "slice" => durable = store
      /\ openTx => Store = "sqlite"
      /\ pc[p] \in {"set", "insert"} /\ Store # "zep" => Good(local[p], log, torn)
      /\ pc[p] = "insert" => store = <<>> /\ TwoPhase
      /\ TwoPhase => ~openTx /\ Store \notin {"slice", "zep"}
  BY <1>1 DEF StoresGood, TwoPhase
<1>5. ASSUME Recalled(store', log, torn'), Enough(store', log, torn'), Recalled(durable', log, Len(log)),
             ~openTx' /\ Store # "slice" => durable' = store', openTx' => Store = "sqlite"
      PROVE  StoresGood'
  BY <1>1, <1>2, <1>3, <1>5, StoresSet
\* When messages are lost, only their order matters.
<1>6. ASSUME NEW s \in Seq(Message), store' = s, Recalled(s, log, Len(log)), torn' = Len(log),
             Recalled(durable', log, Len(log)),
             ~openTx' /\ Store # "slice" => durable' = store', openTx' => Store = "sqlite"
      PROVE  StoresGood'
  <2>1. Enough(s, log, Len(log))
    BY <1>1, EnoughLost
  <2> QED BY <1>5, <1>6, <2>1
<1>7. CASE FailsWithoutEffect(p) \/ OutputInvalid(p)
  <2>1. pc[p] # "insert" /\ UNCHANGED <<store, durable, openTx, torn>>
    BY <1>7 DEF FailsWithoutEffect, OutputInvalid
  <2> QED BY <1>1, <1>4, <1>5, <2>1
<1>8. CASE TransactionFails(p)
  <2>1. /\ pc[p] = "set" /\ Store = "sqlite" /\ openTx' /\ durable' = durable
        /\ \/ store' \in {store, local[p]} /\ torn' = torn
           \/ store' = <<>> /\ torn' = Len(log)
    BY <1>8 DEF TransactionFails
  <2>2. CASE store' \in {store, local[p]} /\ torn' = torn
    BY <1>1, <1>4, <1>5, <2>1, <2>2 DEF Good
  <2>3. CASE store' = <<>> /\ torn' = Len(log)
    BY <1>4, <1>6, <2>1, <2>3, RecalledNone, EmptySeq
  <2> QED BY <2>1, <2>2, <2>3
<1>9. CASE FailsRolledBack(p)
  <2>1. /\ openTx /\ store' = durable /\ durable' = durable /\ openTx' = FALSE /\ torn' = Len(log)
    BY <1>9 DEF FailsRolledBack
  <2> QED BY <1>1, <1>4, <1>6, <2>1
<1>10. CASE ClearFails(p)
  <2>1. PICK n \in 1..Len(store) : Write(SubSeq(store, n + 1, Len(store)))
    BY <1>10 DEF ClearFails
  <2>2. TwoPhase /\ openTx' = openTx /\ torn' = Len(log)
    BY <1>10 DEF ClearFails
  <2>3. PICK s : s = SubSeq(store, n + 1, Len(store))
    OBVIOUS
  <2>4. n + 1 \in Int /\ Len(store) \in Int /\ 1 <= n + 1 /\ n + 1 <= Len(store) + 1
    BY <1>1
  <2>5. s \in Seq(Message) /\ Recalled(s, log, Len(log))
    BY <1>1, <1>4, <2>3, <2>4, RecalledPart
  <2>6. store' = s /\ durable' = s
    BY <1>4, <2>1, <2>2, <2>3 DEF Write
  <2> QED BY <1>4, <1>6, <2>2, <2>5, <2>6
<1>11. CASE InsertFails(p)
  <2>1. PICK n \in 0..Len(local[p]) :
           /\ Write(store \o SubSeq(local[p], 1, n))
           /\ torn' = IF n = Len(local[p]) THEN torn ELSE Len(log)
    BY <1>11 DEF InsertFails
  <2>2. pc[p] = "insert" /\ openTx' = openTx
    BY <1>11 DEF InsertFails
  <2>3. PICK s : s = SubSeq(local[p], 1, n)
    OBVIOUS
  <2>4. Recalled(local[p], log, torn) /\ Enough(local[p], log, torn) /\ store = <<>> /\ ~openTx
        /\ Store \notin {"slice", "zep"}
    BY <1>4, <2>2 DEF Good
  <2>5. n \in Int /\ 1 <= n + 1 /\ n <= Len(local[p])
    BY <1>1
  <2>6. s \in Seq(Message) /\ Recalled(s, log, Len(log))
    BY <1>1, <2>3, <2>4, <2>5, RecalledPart
  <2>7. store' = s /\ durable' = s
    <3>1. store \o s = s
      BY <2>4, <2>6, ConcatEmptySeq
    <3> QED BY <2>1, <2>3, <2>4, <3>1 DEF Write
  <2>8. CASE n = Len(local[p])
    <3>1. s = local[p]
      BY <1>1, <2>3, <2>8, SubSeqFull
    <3>2. torn' = torn
      BY <2>1, <2>8
    <3> QED BY <1>5, <2>2, <2>4, <2>6, <2>7, <3>1, <3>2
  <2>9. CASE n # Len(local[p])
    <3>1. torn' = Len(log)
      BY <2>1, <2>9
    <3> QED BY <1>6, <2>2, <2>4, <2>6, <2>7, <3>1
  <2> QED BY <2>8, <2>9
<1> QED BY <1>7, <1>8, <1>9, <1>10, <1>11 DEF GivesUp

LEMMA StoresStep ==
    ASSUME TypeOK, TurnsInv, StoresInv, [Next]_vars
    PROVE  StoresInv'
<1>1. conf' = conf
  BY StepKinds
<1>2. Trimming' <=> Trimming
  BY <1>1 DEF Trimming, Alone, ReadsAll, Memory, Store
<1>3. ASSUME Trimming, UNCHANGED vars PROVE StoresGood'
  <2>1. StoresGood
    BY <1>3 DEF StoresInv
  <2>2. /\ store' = store /\ durable' = durable /\ openTx' = openTx /\ pc' = pc /\ turn' = turn
        /\ local' = local /\ turns' = turns /\ log' = log /\ torn' = torn
    BY <1>3 DEF vars
  <2> QED BY <1>1, <2>1, <2>2, StoresNext DEF StoresGood
<1>4. Trimming => StoresGood'
  BY <1>1, <1>3, StoresCrash, StoresBegin, StoresAdd, StoresTrim, StoresGiveUp, StepKinds
<1> QED BY <1>2, <1>4 DEF StoresInv

LEMMA FitsStep ==
    ASSUME TypeOK, TurnsInv, StoresInv, FitsInv, [Next]_vars
    PROVE  FitsInv'
<1>1. conf' = conf
  BY StepKinds
<1> SUFFICES ASSUME Trimming, Memory = "token", Store # "zep"
             PROVE  /\ turns' \in acked' /\ torn' < Len(log') => Tokens(store') <= conf.maxTokenLimit
                    /\ \A p \in Callers : pc'[p] # "idle" => turns' \notin acked'
  BY <1>1 DEF FitsInv, Fits, Trimming, Alone, ReadsAll, Memory, Store
<1>2. /\ turns \in acked /\ torn < Len(log) => Tokens(store) <= conf.maxTokenLimit
      /\ \A p \in Callers : pc[p] # "idle" => turns \notin acked
      /\ StoresGood /\ Stored = store /\ Messages = store
      /\ conf.procs \subseteq Callers /\ conf.maxTokenLimit \in Nat
      /\ Len(log) \in Nat /\ turns \in Int
  BY TrimmingFacts, MessagesRead, ConfFacts DEF FitsInv, Fits
<1>3. CASE UNCHANGED vars
  BY <1>2, <1>3 DEF vars
<1>4. CASE Crash
  <2>1. /\ store' = durable /\ log' = log /\ turns' = turns /\ acked' = acked
        /\ \A p \in Callers : pc'[p] = "idle"
        /\ torn' = IF \/ Store = "slice" \/ openTx
                      \/ \E p \in Callers : pc[p] = "insert"
                     THEN Len(log) ELSE torn
    BY <1>4 DEF Crash
  <2>2. CASE Store = "slice" \/ openTx \/ \E p \in Callers : pc[p] = "insert"
    <3>1. ~(torn' < Len(log'))
      BY <1>2, <2>1, <2>2
    <3> QED BY <2>1, <3>1
  <2>3. CASE ~(Store = "slice" \/ openTx \/ \E p \in Callers : pc[p] = "insert")
    <3>1. store' = store /\ torn' = torn
      BY <1>2, <2>1, <2>3 DEF StoresGood
    <3> QED BY <1>2, <2>1, <3>1
  <2> QED BY <2>2, <2>3
\* A turn that is being saved was not acknowledged.
<1>5. ASSUME turns' \notin acked'
      PROVE  /\ turns' \in acked' /\ torn' < Len(log') => Tokens(store') <= conf.maxTokenLimit
             /\ \A p \in Callers : pc'[p] # "idle" => turns' \notin acked'
  BY <1>5
<1>6. ASSUME NEW p \in conf.procs, Begin(p) PROVE turns' \notin acked'
  <2>1. turns' = turns + 1 /\ acked' = acked
    BY <1>6 DEF Begin
  <2>2. ASSUME turns + 1 \in acked PROVE FALSE
    <3>1. PICK i \in 1..Len(log) : log[i] = Human(turns + 1)
      BY <2>2 DEF TurnsInv, LogInv, Has
    <3>2. turns + 1 <= turns
      BY <3>1, MessageFacts DEF TurnsInv, LogInv
    <3> QED BY <1>2, <3>2
  <2> QED BY <2>1, <2>2
<1>7. ASSUME NEW p \in conf.procs, Adds(p) \/ GivesUp(p) PROVE turns' \notin acked'
  <2>1. p \in Callers
    BY <1>2
  <2>2. pc[p] # "idle" /\ turns' = turns /\ acked' = acked
    BY <1>7, <2>1, AddFacts, GiveUpFacts DEF Returned
  <2> QED BY <1>2, <2>1, <2>2
<1>8. ASSUME NEW p \in conf.procs, Trims(p)
      PROVE  /\ turns' \in acked' /\ torn' < Len(log') => Tokens(store') <= conf.maxTokenLimit
             /\ \A q \in Callers : pc'[q] # "idle" => turns' \notin acked'
  <2>1. /\ p \in Callers /\ pc[p] # "idle" /\ turns' = turns
        /\ \A q \in Callers \ {p} : pc[q] = "idle"
    <3>1. p \in Callers /\ \A q \in Callers \ {p} : pc[q] = "idle"
      BY NobodyElse
    <3> QED BY <1>8, <3>1, TrimFacts
  <2>2. turns \notin acked
    BY <1>2, <2>1
  <2>3. CASE acked' = acked
    BY <1>5, <2>1, <2>2, <2>3
  <2>4. CASE Returned(p, TRUE)
    <3>1. pc[p] # "cut"
      BY <2>1 DEF TurnsInv, TurnInv, Places
    <3>2. Count(p) \/ Read(p)
      <4>1. Goto(p, "idle") /\ pc'[p] = "idle"
        BY <2>1, <2>4, GotoTypes DEF Returned
      <4>2. ASSUME AfterSet(p) PROVE FALSE
        <5>1. Goto(p, "count")
          BY <4>2 DEF AfterSet
        <5>2. pc'[p] = "count"
          BY <2>1, <5>1, GotoTypes
        <5> QED BY <4>1, <5>2
      <4>3. ASSUME SetMessagesError(p) \/ SetInsertsNothing(p) PROVE acked' = acked
        BY <4>3 DEF SetMessagesError, SetInsertsNothing, Returned
      <4>4. ASSUME SetClears(p) PROVE FALSE
        <5>1. Goto(p, "insert")
          BY <4>4 DEF SetClears
        <5>2. pc'[p] = "insert"
          BY <2>1, <5>1, GotoTypes
        <5> QED BY <4>1, <5>2
      <4>5. acked' = acked \cup {turn[p]} /\ turn[p] = turns
        BY <1>2, <2>1, <2>4 DEF Returned, StoresGood
      <4>6. acked' # acked
        BY <2>2, <4>5
      <4> QED BY <1>8, <3>1, <4>2, <4>3, <4>4, <4>6 DEF Trims, Cut, SetMessages, SetInserts
    <3>3. store' = store /\ Tokens(store) <= conf.maxTokenLimit
      <4>1. CASE Count(p)
        <5>1. ~(Tokens(store) > conf.maxTokenLimit)
          <6>1. ASSUME Tokens(store) > conf.maxTokenLimit PROVE FALSE
            <7>1. Goto(p, "read")
              BY <1>2, <4>1, <6>1 DEF Count
            <7>2. pc'[p] = "read" /\ pc'[p] = "idle"
              BY <2>1, <2>4, <7>1, GotoTypes DEF Returned
            <7> QED BY <7>2
          <6> QED BY <6>1
        <5>2. Tokens(store) \in Nat
          BY TokensType DEF TypeOK
        <5> QED BY <1>2, <4>1, <5>1, <5>2 DEF Count
      <4>2. CASE Read(p)
        <5>1. store = <<>>
          <6>1. ASSUME store # <<>> PROVE FALSE
            <7>1. Goto(p, "set")
              BY <1>2, <4>2, <6>1 DEF Read
            <7>2. pc'[p] = "set" /\ pc'[p] = "idle"
              BY <2>1, <2>4, <7>1, GotoTypes DEF Returned
            <7> QED BY <7>2
          <6> QED BY <6>1
        <5>2. Tokens(store) = 0
          BY <5>1, TokensNone
        <5> QED BY <1>2, <4>2, <5>2 DEF Read
      <4> QED BY <3>2, <4>1, <4>2
    <3>4. \A q \in Callers : pc'[q] = "idle"
      BY <2>1, <2>4, GotoTypes DEF Returned
    <3> QED BY <3>3, <3>4
  <2>5. CASE Returned(p, FALSE)
    BY <2>3, <2>5 DEF Returned
  <2> QED BY <1>8, <2>1, <2>3, <2>4, <2>5, TrimFacts
<1> QED BY <1>3, <1>4, <1>5, <1>6, <1>7, <1>8, StepKinds

------------------------------------------------------------------------------
\* How old a message is.

\* How far behind its turn's place the message k of the conversation may be.
Behind(k) == Len(log) - k + 1 - 2 * (turns - log[k].turn)

LEMMA AgeFacts ==
    ASSUME TypeOK
    PROVE  /\ log \in Seq(Message) /\ Len(log) \in Nat /\ turns \in Int
           /\ \A k \in 1..Len(log) : log[k].turn \in Int /\ Behind(k) \in Int
<1>1. log \in Seq(Message) /\ Len(log) \in Nat /\ turns \in 0..MaxTurns /\ MaxTurns \in Nat
  BY LenProperties, MemoryAssumption DEF TypeOK
<1>2. ASSUME NEW k \in 1..Len(log) PROVE log[k].turn \in Int /\ Behind(k) \in Int
  <2>1. log[k] \in Message
    BY <1>1, ElementOfSeq
  <2>2. log[k].turn \in 1..MaxTurns
    BY <2>1 DEF Message
  <2>3. log[k].turn \in Int
    BY <1>1, <2>2
  <2> QED BY <1>1, <2>3 DEF Behind
<1> QED BY <1>1, <1>2

LEMMA BehindFacts ==
    ASSUME NEW n \in Int, NEW k \in Int, NEW u \in Int, NEW t \in Int
    PROVE  /\ n - k + 1 - 2 * ((u + 1) - t) = (n - k + 1 - 2 * (u - t)) - 2
           /\ (n + 1) - k + 1 - 2 * (u - t) = (n - k + 1 - 2 * (u - t)) + 1
           /\ t <= u => /\ (n + 1) - (n + 1) + 1 - 2 * (u - t) <= 1
                        /\ (n + 1) - (n + 1) + 1 - 2 * (u - t) <= 2
           /\ n - k + 1 - 2 * (u - t) \in Int
OBVIOUS

LEMMA AgeStep ==
    ASSUME TypeOK, TurnsInv, AgeInv, [Next]_vars
    PROVE  AgeInv'
<1>0. conf' = conf /\ conf.procs \subseteq Callers
  BY StepKinds, ConfFacts
<1> SUFFICES ASSUME Memory = "window", Alone
             PROVE  \A k \in 1..Len(log') :
                      /\ Behind(k)' <= 2
                      /\ \A p \in Callers : /\ pc'[p] = "user" => Behind(k)' <= 0
                                            /\ pc'[p] = "ai" => Behind(k)' <= 1
  BY <1>0 DEF AgeInv, Behind, Memory, Alone
<1>1. \A k \in 1..Len(log) :
         /\ Behind(k) <= 2 /\ Behind(k) \in Int
         /\ \A p \in Callers : /\ pc[p] = "user" => Behind(k) <= 0
                               /\ pc[p] = "ai" => Behind(k) <= 1
  BY AgeFacts DEF AgeInv, Behind
<1>2. /\ log \in Seq(Message) /\ Len(log) \in Nat /\ turns \in Int
      /\ \A k \in 1..Len(log) : log[k].turn \in Int
      /\ pc \in [Callers -> {"idle", "user", "ai", "cut", "count", "read", "set", "insert"}]
  BY AgeFacts DEF TypeOK
<1>3. ASSUME log' = log, turns' = turns,
             \A p \in Callers : pc'[p] \in {"user", "ai"} => pc'[p] = pc[p]
      PROVE  \A k \in 1..Len(log') :
                      /\ Behind(k)' <= 2
                      /\ \A p \in Callers : /\ pc'[p] = "user" => Behind(k)' <= 0
                                            /\ pc'[p] = "ai" => Behind(k)' <= 1
  <2>1. \A k : Behind(k)' = Behind(k)
    BY <1>3 DEF Behind
  <2> QED BY <1>1, <1>3, <2>1
<1>4. CASE UNCHANGED vars
  BY <1>3, <1>4 DEF vars
<1>5. CASE Crash
  <2>1. log' = log /\ turns' = turns /\ \A p \in Callers : pc'[p] = "idle"
    BY <1>5 DEF Crash
  <2> QED BY <1>3, <2>1
<1>6. ASSUME NEW p \in conf.procs PROVE p \in Callers /\ \A q \in Callers \ {p} : pc[q] = "idle"
  BY <1>0, OneAtATime
<1>7. ASSUME NEW p \in conf.procs, Begin(p)
      PROVE  \A k \in 1..Len(log') :
                      /\ Behind(k)' <= 2
                      /\ \A q \in Callers : /\ pc'[q] = "user" => Behind(k)' <= 0
                                            /\ pc'[q] = "ai" => Behind(k)' <= 1
  <2>1. log' = log /\ turns' = turns + 1
    BY <1>7 DEF Begin
  <2>2. ASSUME NEW k \in 1..Len(log) PROVE Behind(k)' = Behind(k) - 2
    <3>1. PICK t \in Int : t = log[k].turn
      BY <1>2
    <3>2. /\ Behind(k) = Len(log) - k + 1 - 2 * (turns - t)
          /\ Behind(k)' = Len(log) - k + 1 - 2 * ((turns + 1) - t)
      BY <2>1, <3>1 DEF Behind
    <3>3. k \in Int
      BY <1>2
    <3> QED BY <1>2, <3>2, <3>3, BehindFacts
  <2> QED BY <1>1, <2>1, <2>2
\* Of the messages before it, each falls back by one; the new one is the last.
<1>8. ASSUME NEW p \in Callers, NEW m \in Message, m.turn <= turns,
             log' = Append(log, m), turns' = turns
      PROVE  /\ \A k \in 1..Len(log) : Behind(k)' = Behind(k) + 1
             /\ \A k \in 1..Len(log') : \/ k \in 1..Len(log)
                                        \/ Behind(k)' <= 1 /\ Behind(k)' <= 2
  <2>1. /\ Len(log') = Len(log) + 1 /\ log'[Len(log) + 1] = m
        /\ \A k \in 1..Len(log) : log'[k] = log[k]
        /\ \A k \in 1..Len(log') : k \in 1..Len(log) \/ k = Len(log) + 1
    BY <1>2, <1>8, AppendFacts
  <2>2. m.turn \in Int
    BY <1>2, MemoryAssumption DEF Message
  <2>3. ASSUME NEW k \in 1..Len(log) PROVE Behind(k)' = Behind(k) + 1
    <3>1. PICK t \in Int : t = log[k].turn
      BY <1>2
    <3>2. /\ Behind(k) = Len(log) - k + 1 - 2 * (turns - t)
          /\ Behind(k)' = (Len(log) + 1) - k + 1 - 2 * (turns - t)
      BY <1>8, <2>1, <3>1 DEF Behind
    <3>3. k \in Int
      BY <1>2
    <3> QED BY <1>2, <3>2, <3>3, BehindFacts
  <2>4. ASSUME NEW k, k = Len(log) + 1 PROVE Behind(k)' <= 1 /\ Behind(k)' <= 2
    <3>1. Behind(k)' = (Len(log) + 1) - (Len(log) + 1) + 1 - 2 * (turns - m.turn)
      BY <1>8, <2>1, <2>4 DEF Behind
    <3>2. Len(log) \in Int
      BY <1>2
    <3> QED BY <1>2, <1>8, <2>2, <3>1, <3>2, BehindFacts
  <2> QED BY <2>1, <2>3, <2>4
<1>9. ASSUME NEW p \in conf.procs, Adds(p)
      PROVE  \A k \in 1..Len(log') :
                      /\ Behind(k)' <= 2
                      /\ \A q \in Callers : /\ pc'[q] = "user" => Behind(k)' <= 0
                                            /\ pc'[q] = "ai" => Behind(k)' <= 1
  <2>0. p \in Callers /\ \A q \in Callers \ {p} : pc[q] = "idle"
    BY <1>6
  <2>1. PICK m \in Message : m.turn <= turns /\ log' = Append(log, m) /\ turns' = turns
    <3>1. pc[p] \in {"user", "ai"}
      BY <1>9, <2>0, AddFacts
    <3>2. /\ turn[p] <= turns /\ Human(turn[p]) \in Message /\ AI(turn[p]) \in Message
          /\ Human(turn[p]).turn = turn[p] /\ AI(turn[p]).turn = turn[p]
      BY <2>0, <3>1, TurnFacts, MessageFacts DEF TurnsInv, TurnInv
    <3> QED BY <1>9, <2>0, <3>2, AddFacts DEF Insert
  <2>2. PICK l \in {"idle", "ai", "cut", "count"} : Goto(p, l) /\ (l = "ai" => pc[p] = "user")
    BY <1>9, <2>0, AddFacts DEF Returned
  <2>3. /\ pc[p] \in {"user", "ai"} /\ pc'[p] # "user" /\ (pc'[p] = "ai" => pc[p] = "user")
        /\ \A q \in Callers \ {p} : pc'[q] = "idle"
    <3>1. pc'[p] = l /\ \A q \in Callers \ {p} : pc'[q] = pc[q]
      BY <2>0, <2>2, GotoTypes
    <3> QED BY <1>9, <2>0, <2>2, <3>1, AddFacts
  <2>4. /\ \A k \in 1..Len(log) : Behind(k)' = Behind(k) + 1
        /\ \A k \in 1..Len(log') : \/ k \in 1..Len(log)
                                   \/ Behind(k)' <= 1 /\ Behind(k)' <= 2
    BY <1>8, <2>0, <2>1
  <2>5. ASSUME NEW k \in 1..Len(log') PROVE Behind(k)' <= 2 /\ (pc'[p] = "ai" => Behind(k)' <= 1)
    <3>1. CASE k \in 1..Len(log)
      BY <1>1, <2>0, <2>3, <2>4, <3>1
    <3>2. CASE Behind(k)' <= 1 /\ Behind(k)' <= 2
      BY <3>2
    <3> QED BY <2>4, <3>1, <3>2
  <2> QED BY <2>3, <2>5
<1>10. ASSUME NEW p \in conf.procs, Trims(p) \/ GivesUp(p)
       PROVE  log' = log /\ turns' = turns /\ \A q \in Callers : pc'[q] \in {"user", "ai"} => pc'[q] = pc[q]
  <2>1. p \in Callers
    BY <1>6
  <2>2. /\ log' = log /\ turns' = turns
        /\ \E l \in {"idle", "set", "read", "insert", "count"} : Goto(p, l)
    BY <1>10, <2>1, TrimFacts, GiveUpFacts DEF Returned
  <2> QED BY <1>2, <2>1, <2>2 DEF Goto
<1>11. ASSUME NEW p \in conf.procs, Trims(p) \/ GivesUp(p)
       PROVE  \A k \in 1..Len(log') :
                      /\ Behind(k)' <= 2
                      /\ \A q \in Callers : /\ pc'[q] = "user" => Behind(k)' <= 0
                                            /\ pc'[q] = "ai" => Behind(k)' <= 1
  BY <1>3, <1>10, <1>11
<1> QED BY <1>4, <1>5, <1>7, <1>9, <1>11, StepKinds

------------------------------------------------------------------------------
LEMMA InitIInv == Init => IInv
<1> SUFFICES ASSUME Init PROVE IInv
  OBVIOUS
<1>1. /\ conf \in Configurations /\ store = <<>> /\ durable = <<>> /\ openTx = FALSE
      /\ pc = [p \in Callers |-> "idle"] /\ turn = [p \in Callers |-> 0]
      /\ local = [p \in Callers |-> <<>>] /\ turns = 0 /\ log = <<>> /\ torn = 0 /\ acked = {}
  BY DEF Init
<1>2. <<>> \in Seq(Message) /\ Len(<<>>) = 0 /\ 0 \in 0..MaxTurns
  BY MemoryAssumption, EmptySeq
<1>3. TypeOK
  <2>1. 0 \in 0..Len(<<>>)
    BY <1>2
  <2> QED BY <1>1, <1>2, <2>1 DEF TypeOK
<1>4. TurnsInv
  <2>1. LogInv
    BY <1>1, <1>2 DEF LogInv, Once
  <2>2. \A p \in Callers : TurnInv(p)
    BY <1>1 DEF TurnInv
  <2> QED BY <2>1, <2>2 DEF TurnsInv
<1>5. BufferInv
  BY <1>1, <1>2 DEF BufferInv, Agrees
<1>6. StoresInv /\ FitsInv
  <2>1. Recalled(<<>>, log, torn) /\ Recalled(<<>>, log, Len(log)) /\ Sorted(log)
    BY <1>1, <1>2, RecalledNone DEF Sorted
  <2>2. Trimming => Enough(store, log, torn)
    BY <1>1, <1>2, EnoughLost, ConfFacts, <1>3
  <2>3. Trimming => StoresGood
    BY <1>1, <2>1, <2>2 DEF StoresGood
  <2>4. Fits
    BY <1>1 DEF Fits
  <2> QED BY <2>3, <2>4 DEF StoresInv, FitsInv
<1>7. AgeInv
  BY <1>1, <1>2 DEF AgeInv
<1> QED BY <1>3, <1>4, <1>5, <1>6, <1>7 DEF IInv

LEMMA StepIInv == IInv /\ [Next]_vars => IInv'
BY TypeStep, TurnsStep, BufferStep, StoresStep, FitsStep, AgeStep DEF IInv

\* The inductive invariant of SaveContext and the stores, in every configuration.
THEOREM Invariant == Spec => []IInv
BY InitIInv, StepIInv, PTL DEF Spec

\* Messages, turns and places keep their types whoever saves and whatever fails or
\* crashes.
THEOREM TypeCorrect == Spec => []TypeOK
<1>1. IInv => TypeOK
  BY DEF IInv
<1> QED BY <1>1, Invariant, PTL

\* In every configuration, with any number of callers: a turn whose SaveContext
\* returned nil to a buffer memory on a durable store is there, question then answer.
THEOREM AckedTurnsKept == Spec => []AckedTurnsSurvive
<1>1. ASSUME IInv, Memory = "buffer", Store # "slice", NEW t \in acked
      PROVE  Holds(durable, t)
  <2>1. durable = log /\ log \in Seq(Message) /\ Once(log) /\ Has(log, t)
    BY <1>1 DEF IInv, BufferInv, TurnsInv, LogInv, TypeOK
  <2> QED BY <2>1, HasHolds
<1>2. IInv => AckedTurnsSurvive
  BY <1>1 DEF AckedTurnsSurvive
<1> QED BY <1>2, Invariant, PTL

\* What is said of the messages loaded is said of all that is stored, or of a window.
LEMMA SaidFacts ==
    ASSUME TypeOK, Stored = store
    PROVE  /\ store \in Seq(Message)
           /\ \/ Said = store /\ (Memory = "window" => Len(store) <= Window)
              \/ /\ Memory = "window" /\ Said = LastOf(store, Window)
                 /\ Window <= Len(store) /\ Window \in Int /\ 2 <= Window
<1>1. store \in Seq(Message) /\ Window \in Int /\ 2 <= Window /\ Summary \notin Message
  <2>1. \A m \in Message : m.role \in {"human", "ai"}
    BY DEF Message
  <2>2. Summary.role = "system"
    BY DEF Summary
  <2> QED BY <2>1, <2>2, ConfFacts DEF TypeOK
<1>2. ASSUME NEW s \in Seq(Message), Loaded = s PROVE Said = s
  <2>1. s # <<>> => s[1] \in Message
    <3>1. s # <<>> => Len(s) \in Nat \ {0}
      BY EmptySeq
    <3>2. s # <<>> => 1 \in 1..Len(s)
      BY <3>1
    <3> QED BY <3>2, ElementOfSeq
  <2> QED BY <1>1, <1>2, <2>1 DEF Said
<1>3. CASE Memory = "window" /\ Len(Messages) > Window
  <2>1. /\ Loaded = CutMessages(Messages) /\ CutMessages(Messages) \in Seq(Message)
        /\ CutMessages(Messages) = LastOf(store, Window) /\ Window <= Len(store)
    BY <1>3, CutRead DEF Loaded
  <2> QED BY <1>1, <1>2, <1>3, <2>1
<1>4. CASE ~(Memory = "window" /\ Len(Messages) > Window)
  <2>1. Loaded = Messages
    BY <1>4 DEF Loaded, CutMessages
  <2>2. Len(store) \in Nat
    BY <1>1, LenProperties
  <2>3. CASE Messages = Stored
    BY <1>1, <1>2, <1>4, <2>1, <2>2, <2>3
  <2>4. CASE Messages = <<Summary>> \o Stored
    <3>1. Said = store /\ Len(Messages) = Len(store) + 1
      BY <1>1, <2>1, <2>4, SummaryFacts DEF Said
    <3> QED BY <1>1, <1>4, <2>2, <3>1
  <2> QED BY <1>1, <2>3, <2>4, MessagesRead
<1> QED BY <1>1, <1>3, <1>4

\* A buffer memory stores all that was said since messages were last lost.
LEMMA BufferFollows ==
    ASSUME TypeOK, TurnsInv, BufferInv, Memory = "buffer"
    PROVE  Follows(store, log)
<1>1. /\ store \in Seq(Message) /\ log \in Seq(Message) /\ Once(log)
      /\ Len(store) \in Nat /\ Len(log) \in Nat /\ torn \in Int /\ 0 <= torn /\ torn <= Len(log)
      /\ Len(store) = Len(log) - torn /\ Agrees(store, log, torn)
  BY LenProperties DEF TypeOK, TurnsInv, LogInv, BufferInv
<1>2. ASSUME NEW i \in 1..Len(store)
      PROVE  i + torn \in 1..Len(log) /\ store[i] = log[i + torn] /\ Position(store[i], log) = i + torn
  <2>1. PICK d : d = Len(store) - i
    OBVIOUS
  <2>2. d \in Nat /\ d < Len(store) /\ d < Len(log) - torn
    BY <1>1, <2>1
  <2>3. Len(store) - d = i /\ Len(log) - d = i + torn /\ i + torn \in 1..Len(log)
    BY <1>1, <2>1
  <2>4. store[Len(store) - d] = log[Len(log) - d]
    BY <1>1, <2>2 DEF Agrees
  <2> QED BY <1>1, <2>3, <2>4, PositionFacts
<1>3. DOMAIN store = 1..Len(store) /\ DOMAIN log = 1..Len(log)
  BY <1>1, LenProperties
<1>4. ToSet(store) \subseteq ToSet(log)
  BY <1>2, <1>3 DEF ToSet
<1>5. \A i, j \in 1..Len(store) : i < j => Position(store[i], log) < Position(store[j], log)
  <2> SUFFICES ASSUME NEW i \in 1..Len(store), NEW j \in 1..Len(store), i < j
               PROVE  Position(store[i], log) < Position(store[j], log)
    OBVIOUS
  <2>1. i + torn < j + torn
    BY <1>1
  <2> QED BY <1>2, <2>1
<1> QED BY <1>3, <1>4, <1>5 DEF Follows

\* Between two saves the prompt is what was said, in its order and nothing twice, and
\* of what was said since messages were last lost it is all, or a whole window, or an
\* end of it; in every configuration where one caller trims and reads all that is stored,
\* whatever of a call fails or crashes.
THEOREM PromptIsTheTail == Spec => [](Alone /\ ReadsAll => LoadsTheTail)
<1>1. ASSUME IInv, ReadsAll, Idle, Memory = "buffer"
      PROVE  Follows(Said, log) /\ IsSuffix(Rest, Said)
  <2>1. /\ TypeOK /\ store \in Seq(Message) /\ log \in Seq(Message)
        /\ Len(store) = Len(log) - torn /\ Agrees(store, log, torn)
        /\ torn \in Int /\ 0 <= torn /\ torn <= Len(log) /\ Len(log) \in Nat
    BY <1>1, LenProperties DEF IInv, BufferInv, TypeOK
  <2>2. Stored = store
    <3>1. Len(log) <= 2 * MaxTurns
      BY <1>1, <2>1, OnceLength DEF IInv, TurnsInv, LogInv
    <3>2. Len(store) <= 2 * MaxTurns /\ conf.limit \in Int /\ MaxTurns \in Nat /\ Len(store) \in Nat
      BY <2>1, <3>1, ConfFacts
    <3>3. Store = "sqlite" => ~(Len(store) > conf.limit)
      BY <1>1, <3>2 DEF ReadsAll
    <3> QED BY <3>3 DEF Stored
  <2>3. Said = store
    BY <1>1, <2>1, <2>2, SaidFacts
  <2>4. IsSuffix(After(log, torn), store)
    <3>1. Len(store) >= Len(log) - torn
      BY <2>1
    <3> QED BY <2>1, <3>1, AgreesSuffix
  <2> QED BY <1>1, <2>3, <2>4, BufferFollows DEF IInv, Rest, After
<1>2. ASSUME IInv, Trimming, Idle
      PROVE  /\ Follows(Said, log)
             /\ \/ IsSuffix(Rest, Said)
                \/ /\ IsSuffix(Said, Rest) /\ Memory # "buffer"
                   /\ Memory = "window" => Len(Said) = Window
  <2>1. TypeOK /\ TurnsInv /\ StoresInv
    BY <1>2 DEF IInv
  <2>2. /\ StoresGood /\ Stored = store /\ Memory \in {"window", "token"}
        /\ store \in Seq(Message) /\ log \in Seq(Message) /\ Len(log) \in Nat
        /\ torn \in Int /\ 0 <= torn /\ torn <= Len(log) /\ Window \in Int /\ Len(store) \in Nat
    BY <1>2, <2>1, TrimmingFacts
  <2>3. Enough(store, log, torn)
    <3>1. \A p \in Callers : pc[p] # "insert"
      BY <1>2, <2>1 DEF Idle, TurnsInv, TurnInv
    <3> QED BY <2>2, <3>1 DEF StoresGood
  <2>4. PICK s : s = Said
    OBVIOUS
  <2>5. /\ s \in Seq(Message) /\ Recalled(s, log, torn) /\ Len(s) \in Nat
        /\ \/ s = store /\ (Memory = "window" => Len(s) <= Window)
           \/ Memory = "window" /\ Len(s) = Window
    <3>1. CASE Said = store /\ (Memory = "window" => Len(store) <= Window)
      BY <2>2, <2>4, <3>1 DEF StoresGood
    <3>2. CASE /\ Memory = "window" /\ Said = LastOf(store, Window)
               /\ Window <= Len(store) /\ 2 <= Window
      <4>1. 0 <= Window
        BY <2>2, <3>2
      <4>2. s \in Seq(Message) /\ Len(s) = Window
        BY <2>2, <2>4, <3>2, <4>1, LastFacts
      <4>3. Recalled(s, log, torn)
        BY <2>2, <2>4, <3>2, <4>1, RecalledLast DEF StoresGood
      <4> QED BY <3>2, <4>2, <4>3, LenProperties
    <3> QED BY <2>1, <2>2, <3>1, <3>2, SaidFacts
  <2>6. Follows(s, log)
    BY <2>2, <2>5, SortedFollows DEF Recalled, StoresGood
  <2>7. /\ Len(s) <= Len(log) - torn => IsSuffix(s, Rest)
        /\ Len(s) >= Len(log) - torn => IsSuffix(Rest, s)
    <3>1. Rest = After(log, torn)
      BY DEF Rest, After
    <3> QED BY <2>2, <2>5, <3>1, AgreesSuffix DEF Recalled
  <2>8. CASE Len(s) >= Len(log) - torn
    BY <2>4, <2>6, <2>7, <2>8
  <2>9. CASE ~(Len(s) >= Len(log) - torn)
    <3>1. IsSuffix(s, Rest)
      BY <2>2, <2>5, <2>7, <2>9
    <3>2. Memory = "window" => Len(s) = Window
      BY <2>2, <2>3, <2>5, <2>9 DEF Enough
    <3> QED BY <2>2, <2>4, <2>6, <3>1, <3>2
  <2> QED BY <2>8, <2>9
<1>3. ASSUME IInv, Alone, ReadsAll PROVE LoadsTheTail
  BY <1>1, <1>2, <1>3 DEF LoadsTheTail, Trimming
<1>4. IInv => (Alone /\ ReadsAll => LoadsTheTail)
  BY <1>3
<1> QED BY <1>4, Invariant, PTL

\* The acknowledged turns of the last window of a window memory are stored, unless they
\* were said before messages were lost; where one caller trims and reads all that is
\* stored, whatever of a call fails or crashes.
THEOREM RecentTurnsKept == Spec => [](Alone /\ ReadsAll => RecentTurnsSurvive)
<1>1. ASSUME IInv, Alone, ReadsAll, Memory = "window", \A p \in Callers : pc[p] # "insert",
             NEW t \in acked, Human(t) \in ToSet(Rest), 2 * (turns - t + 1) <= Window
      PROVE  Holds(store, t)
  <2>1. TypeOK /\ TurnsInv /\ StoresInv /\ AgeInv /\ Trimming
    BY <1>1 DEF IInv, Trimming
  <2>2. /\ StoresGood /\ Once(log) /\ Has(log, t)
        /\ store \in Seq(Message) /\ log \in Seq(Message)
        /\ Len(store) \in Nat /\ Len(log) \in Nat
        /\ torn \in Int /\ 0 <= torn /\ torn <= Len(log) /\ Window \in Int
    BY <2>1, TrimmingFacts DEF TurnsInv, LogInv
  <2>3. t \in Int /\ turns \in Int
    <3>1. t \in 1..MaxTurns /\ turns \in 0..MaxTurns /\ MaxTurns \in Nat
      BY <2>1, MemoryAssumption DEF TypeOK
    <3> QED BY <3>1
  <2>4. Len(store) >= Window \/ Len(store) >= Len(log) - torn
    BY <1>1, <2>2 DEF StoresGood, Enough
  <2>5. PICK i, j \in 1..Len(log) : i < j /\ log[i] = Human(t) /\ log[j] = AI(t)
    BY <2>2 DEF Has
  <2>6. torn < i
    <3>1. PICK r : r = After(log, torn)
      OBVIOUS
    <3>2. /\ r \in Seq(Message) /\ Len(r) = Len(log) - torn
          /\ \A k \in 1..(Len(log) - torn) : k + torn \in 1..Len(log) /\ r[k] = log[k + torn]
      BY <2>2, <3>1, AfterFacts
    <3>3. PICK k \in DOMAIN r : r[k] = Human(t)
      BY <1>1, <3>1 DEF Rest, After, ToSet
    <3>4. DOMAIN r = 1..(Len(log) - torn)
      BY <3>2, LenProperties
    <3>5. k + torn \in 1..Len(log) /\ log[k + torn] = log[i]
      BY <2>5, <3>2, <3>3, <3>4
    <3>6. k + torn = i
      BY <2>2, <3>5 DEF Once
    <3> QED BY <2>2, <3>3, <3>4, <3>6
\* A message of the turn that far from the end is among those stored.
  <2>7. ASSUME NEW k \in 1..Len(log), torn < k, log[k] \in {Human(t), AI(t)}
        PROVE  /\ k - (Len(log) - Len(store)) \in 1..Len(store)
               /\ store[k - (Len(log) - Len(store))] = log[k]
    <3>1. log[k].turn = t
      BY <2>7, MessageFacts
    <3>2. Len(log) - k + 1 - 2 * (turns - t) <= 2
      BY <1>1, <2>1, <3>1 DEF AgeInv
    <3>3. Len(log) - k + 1 <= Window
      BY <1>1, <2>2, <2>3, <3>2
    <3>4. PICK d : d = Len(log) - k
      OBVIOUS
    <3>5. d \in Nat /\ d < Len(store) /\ d < Len(log) - torn
      BY <2>2, <2>4, <2>7, <3>3, <3>4
    <3>6. store[Len(store) - d] = log[Len(log) - d]
      BY <2>2, <3>5 DEF StoresGood, Recalled, Agrees
    <3>7. /\ Len(store) - d = k - (Len(log) - Len(store)) /\ Len(log) - d = k
          /\ Len(store) - d \in 1..Len(store)
      BY <2>2, <3>4, <3>5
    <3> QED BY <3>6, <3>7
  <2>8. torn < j /\ i - (Len(log) - Len(store)) < j - (Len(log) - Len(store))
    BY <2>2, <2>5, <2>6
  <2>9. Has(store, t)
    BY <2>5, <2>6, <2>7, <2>8 DEF Has
  <2>10. Once(store)
    BY <2>2, SortedOnce DEF StoresGood, Recalled
  <2> QED BY <2>2, <2>9, <2>10, HasHolds
<1>2. IInv => (Alone /\ ReadsAll => RecentTurnsSurvive)
  BY <1>1 DEF RecentTurnsSurvive
<1> QED BY <1>2, Invariant, PTL

\* After a turn that was acknowledged, what a token memory stores fits its limit, and one
\* more of the messages said since the last loss would not; where one caller trims and
\* reads all that is stored, on any store but zep, whose messages cannot be set.
THEOREM MostIsKept == Spec => [](Alone /\ ReadsAll /\ Store # "zep" => KeepsWhatFits)
<1>1. ASSUME IInv, Alone, ReadsAll, Store # "zep", Memory = "token", Idle, turns \in acked, Rest # <<>>
      PROVE  /\ Tokens(store) <= conf.maxTokenLimit
             /\ \A n \in torn..Len(log) :
                   Tokens(SubSeq(log, n + 1, Len(log))) <= conf.maxTokenLimit
                       => Len(store) >= Len(log) - n
  <2>1. TypeOK /\ TurnsInv /\ StoresInv /\ Trimming /\ Fits
    BY <1>1 DEF IInv, Trimming, FitsInv
  <2>2. /\ StoresGood /\ store \in Seq(Message) /\ log \in Seq(Message)
        /\ Len(store) \in Nat /\ Len(log) \in Nat /\ conf.maxTokenLimit \in Nat
        /\ torn \in Nat /\ torn <= Len(log)
    BY <2>1, TrimmingFacts
  <2>3. torn < Len(log)
    <3>1. ASSUME torn = Len(log) PROVE FALSE
      <4>1. Rest = SubSeq(log, Len(log) + 1, Len(log)) /\ Len(log) < Len(log) + 1
        BY <2>2, <3>1 DEF Rest
      <4>2. Rest = <<>>
        BY <2>2, <4>1, SubSeqEmpty
      <4> QED BY <1>1, <4>2
    <3> QED BY <2>2, <3>1
  <2>4. Enough(store, log, torn)
    <3>1. \A p \in Callers : pc[p] # "insert"
      BY <1>1, <2>1 DEF Idle, TurnsInv, TurnInv
    <3> QED BY <2>2, <3>1 DEF StoresGood
  <2>5. ASSUME NEW n \in torn..Len(log), Tokens(After(log, n)) <= conf.maxTokenLimit
        PROVE  Len(store) >= Len(log) - n
    <3>1. n \in Nat /\ torn <= n /\ n \in Int /\ 0 <= n /\ n <= Len(log)
      BY <2>2
    <3>2. ~(Tokens(After(log, n)) > conf.maxTokenLimit)
      <4>1. Tokens(After(log, n)) \in Nat
        BY <2>2, <3>1, AfterFacts, TokensType
      <4> QED BY <2>2, <2>5, <4>1
    <3>3. ~(n < Len(log) - Len(store))
      BY <1>1, <2>4, <3>1, <3>2 DEF Enough
    <3> QED BY <2>2, <3>1, <3>3
  <2> QED BY <1>1, <2>1, <2>3, <2>5 DEF Fits, After
<1>2. IInv => (Alone /\ ReadsAll /\ Store # "zep" => KeepsWhatFits)
  BY <1>1 DEF KeepsWhatFits
<1> QED BY <1>2, Invariant, PTL
------------------------------------------------------------------------------
(***************************************************************************)
(* AnthropicMessages.  It shares no variable with the memory above; the    *)
(* two specifications are proved about side by side.                       *)
(***************************************************************************)

\* What the goroutine has assembled, as long as it goes on: every block told of
\* is there, with the parts told so far; a tool's input is parsed at its stop.
Ev(p) == reply.events[p]
Going == reader \in {"scan", "func", "send"}
Row(b, m) == [k \in 1..m |-> <<b, k>>]
Taken(b, m) == \A p \in Of(reply, "delta", b) : p <= pos <=> Ev(p).part <= m
ToldOf(type, b) == \E p \in Of(reply, type, b) : p <= pos
BlockInv(b) ==
    /\ b \in DOMAIN reply.blocks
    /\ response.blocks[b].kind = reply.blocks[b].kind /\ reply.blocks[b].kind # Unknown
    /\ ToldOf("content_block_start", b)
    /\ IF reply.blocks[b].kind = "redacted_thinking"
         THEN response.blocks[b].data = Row(b, 1)
         ELSE \E m \in 0..reply.blocks[b].parts :
                response.blocks[b].data = Row(b, m) /\ Taken(b, m)
    /\ reply.blocks[b].kind = "tool_use" /\ ToldOf("content_block_stop", b)
         => response.blocks[b].input = response.blocks[b].data
OpenedInv == \A p \in 1..pos : Tells(Ev(p)) => Ev(p).block \in 1..Len(response.blocks)
StopInv == (\E p \in 1..pos : Ev(p).type = "message_delta") => response.stop = reply.stop
AssembledInv ==
    Going => /\ OpenedInv /\ StopInv
             /\ \A b \in 1..Len(response.blocks) : BlockInv(b)

\* The parts shown are those of the deltas of text and thinking.
ShownUpto(n) == {p \in 1..n : Ev(p).type = "delta" /\ Shown(Ev(p).kind)}
Took(n) == {Part(Ev(p)) : p \in ShownUpto(n)}
ShownInv ==
    /\ reader \in {"scan", "send"} => ToSet(streamed) = Took(pos)
    /\ reader = "func" => ToSet(streamed) = Took(pos - 1)
StreamedInv ==
    /\ \A i, j \in DOMAIN streamed : i < j => Precedes(streamed[i], streamed[j])
    /\ ToSet(streamed) \subseteq Display
    /\ \A x \in Display, y \in ToSet(streamed) : Precedes(x, y) => x \in ToSet(streamed)
\* Where the goroutine is.
ReaderInv ==
    /\ reader = "not started" => pos = 0 /\ response = EmptyResponse /\ streamed = <<>>
    /\ reader # "not started" => streaming
    /\ reader = "func" => pos \in ShownUpto(pos)
    /\ reader = "send" => pos \in 1..pos /\ Ev(pos).type = "message_stop"
\* A message received, or decoded, is whole, and all of it was shown.
Whole(m) ==
    /\ m.stop = reply.stop /\ DOMAIN m.blocks = DOMAIN reply.blocks
    /\ reply.blocks = <<>> => m.blocks = <<>>
    /\ \A b \in DOMAIN reply.blocks :
         /\ m.blocks[b].kind = reply.blocks[b].kind
         /\ (IF m.blocks[b].kind = "tool_use" THEN m.blocks[b].input
                                              ELSE m.blocks[b].data) = Says(b)
LastInv == last # Nil => Whole(last) /\ (streaming => Display \subseteq ToSet(streamed))
AnswerInv ==
    /\ caller = "decode" => ~streaming
    /\ caller = "request" => reader = "not started" /\ result = "none"
    /\ caller \in {"decode", "receive", "process"} => result = "none"
    /\ caller = "replied" => result = "nil"
    /\ result = "nil" =>
         /\ caller \in {"returned", "replied"} /\ Usable(last)
         /\ choice = IF last.blocks = <<>> THEN Refusal ELSE ChoiceOf(last)
    /\ caller = "replied" => replayed = HandleAIMessage(AssistantMessage(choice))
TypeInv ==
    /\ reply \in Replies /\ streaming \in BOOLEAN
    /\ cut \in 0..Len(reply.events) /\ pos \in 0..cut
    /\ reader \in {"not started", "scan", "func", "send", "send error", "closed"}
    /\ response \in ResponseType /\ streamed \in Seq(PartIds)
MessagesIInv ==
    /\ TypeInv /\ ReaderInv /\ AssembledInv /\ ShownInv /\ StreamedInv
    /\ LastInv /\ AnswerInv
------------------------------------------------------------------------------
\* What the service's events are.

LEMMA Within ==
    ASSUME NEW c \in Nat, NEW p \in 1..c PROVE p \in 0..c
OBVIOUS

LEMMA NothingYet ==
    ASSUME NEW S
    PROVE  /\ <<>> \in Seq(S) /\ Len(<<>>) = 0 /\ DOMAIN <<>> = {} /\ ToSet(<<>>) = {}
           /\ \A p : p \notin 1..0
<1>1. <<>> \in Seq(S) /\ Len(<<>>) = 0
  BY EmptySeq
<1>2. \A p : p \notin 1..0
  OBVIOUS
<1>3. DOMAIN <<>> = {}
  BY <1>1, <1>2, LenProperties
<1>4. ToSet(<<>>) = {}
  BY <1>3 DEF ToSet
<1> QED BY <1>1, <1>2, <1>3, <1>4

LEMMA EmptyIs == ASSUME NEW S, NEW s \in Seq(S), DOMAIN s = {} PROVE s = <<>>
<1>1. Len(s) \in Nat /\ 1..Len(s) = {}
  BY LenProperties
<1>2. Len(s) = 0
  BY <1>1
<1> QED BY <1>2, EmptySeq


LEMMA FromZero == ASSUME NEW n \in Nat, NEW c \in 0..n PROVE 0 \in 0..c
OBVIOUS

LEMMA AppendIs ==
    ASSUME NEW S, NEW s \in Seq(S), NEW x \in S, NEW t, t = Append(s, x)
    PROVE  /\ t \in Seq(S) /\ Len(t) = Len(s) + 1 /\ t[Len(s) + 1] = x
           /\ \A i \in 1..Len(s) : t[i] = s[i]
           /\ Len(s) \in Nat /\ DOMAIN s = 1..Len(s)
           /\ DOMAIN t = 1..Len(s) \cup {Len(s) + 1}
<1>1. /\ t \in Seq(S) /\ Len(t) = Len(s) + 1 /\ t[Len(s) + 1] = x
      /\ \A i \in 1..Len(s) : t[i] = s[i]
  BY AppendProperties
<1>2. Len(s) \in Nat /\ DOMAIN s = 1..Len(s) /\ DOMAIN t = 1..Len(t)
  BY <1>1, LenProperties
<1>3. 1..(Len(s) + 1) = 1..Len(s) \cup {Len(s) + 1}
  BY <1>2
<1> QED BY <1>1, <1>2, <1>3

LEMMA ExceptIs ==
    ASSUME NEW S, NEW s \in Seq(S), NEW i \in 1..Len(s), NEW x \in S, NEW t,
           t = [s EXCEPT ![i] = x]
    PROVE  /\ t \in Seq(S) /\ Len(t) = Len(s)
           /\ \A j \in 1..Len(s) : t[j] = IF j = i THEN x ELSE s[j]
BY ExceptSeq

LEMMA ResponseIs ==
    ASSUME NEW b \in Seq(AssembledType),
           NEW s \in {"", "end_turn", "tool_use", "max_tokens", "refusal"}
    PROVE  [blocks |-> b, stop |-> s] \in ResponseType
BY DEF ResponseType

LEMMA ReplyFacts ==
    ASSUME RepliesAreReplies, reply \in Replies
    PROVE  /\ MaxBlocks \in Nat /\ MaxParts \in Nat
           /\ IsMessage(reply) /\ EventsInOrder(reply) /\ EventsComplete(reply)
BY DEF RepliesAreReplies

LEMMA BlockFacts ==
    ASSUME RepliesAreReplies, reply \in Replies
    PROVE  /\ Len(reply.blocks) \in Nat /\ Len(reply.blocks) <= MaxBlocks
           /\ DOMAIN reply.blocks = 1..Len(reply.blocks)
           /\ reply.blocks \in Seq(Block)
           /\ \A b \in DOMAIN reply.blocks :
                /\ b \in Nat /\ b \in 1..MaxBlocks
                /\ reply.blocks[b] \in Block
                /\ reply.blocks[b].parts \in Nat /\ reply.blocks[b].parts <= MaxParts
                /\ reply.blocks[b].kind \in Kinds \cup {Unknown}
                /\ reply.blocks[b].kind = "redacted_thinking" => reply.blocks[b].parts = 1
<1>1. reply.blocks \in Seq(Block) /\ Len(reply.blocks) <= MaxBlocks
      /\ MaxBlocks \in Nat /\ MaxParts \in Nat
      /\ \A b \in DOMAIN reply.blocks :
            reply.blocks[b].kind = "redacted_thinking" => reply.blocks[b].parts = 1
  BY ReplyFacts DEF IsMessage
<1>2. Len(reply.blocks) \in Nat /\ DOMAIN reply.blocks = 1..Len(reply.blocks)
  BY <1>1, LenProperties
<1>3. ASSUME NEW b \in DOMAIN reply.blocks
      PROVE  /\ b \in Nat /\ b \in 1..MaxBlocks
             /\ reply.blocks[b] \in Block
             /\ reply.blocks[b].parts \in Nat /\ reply.blocks[b].parts <= MaxParts
             /\ reply.blocks[b].kind \in Kinds \cup {Unknown}
  <2>1. reply.blocks[b] \in Block
    BY <1>1, <1>2, ElementOfSeq
  <2>2. reply.blocks[b].parts \in 0..MaxParts /\ reply.blocks[b].kind \in Kinds \cup {Unknown}
    BY <2>1 DEF Block
  <2>3. b \in Nat /\ b \in 1..MaxBlocks
    BY <1>1, <1>2
  <2> QED BY <1>1, <2>1, <2>2, <2>3
<1> QED BY <1>1, <1>2, <1>3

LEMMA EventFacts ==
    ASSUME RepliesAreReplies, reply \in Replies
    PROVE  /\ Len(reply.events) \in Nat /\ DOMAIN reply.events = 1..Len(reply.events)
           /\ \A p \in DOMAIN reply.events :
                /\ Ev(p) \in Event /\ Ev(p).block \in Nat /\ Ev(p).part \in Nat
                /\ Ev(p).part <= MaxParts
                /\ Tells(Ev(p)) => Ev(p).block \in DOMAIN reply.blocks
                /\ Ev(p).type \in {"content_block_start", "delta"} =>
                     Ev(p).kind = reply.blocks[Ev(p).block].kind
                /\ Ev(p).type = "delta" =>
                     /\ Ev(p).kind # "redacted_thinking"
                     /\ Ev(p).part \in 1..reply.blocks[Ev(p).block].parts
<1>1. reply.events \in Seq(Event) /\ MaxParts \in Nat /\ MaxBlocks \in Nat
  BY ReplyFacts DEF EventsInOrder
<1>2. Len(reply.events) \in Nat /\ DOMAIN reply.events = 1..Len(reply.events)
  BY <1>1, LenProperties
<1>3. ASSUME NEW p \in DOMAIN reply.events
      PROVE  Ev(p) \in Event /\ Ev(p).block \in Nat /\ Ev(p).part \in Nat /\ Ev(p).part <= MaxParts
  <2>1. Ev(p) \in Event
    BY <1>1, <1>2, ElementOfSeq DEF Ev
  <2>2. Ev(p).block \in 0..MaxBlocks /\ Ev(p).part \in 0..MaxParts
    BY <2>1 DEF Event
  <2> QED BY <1>1, <2>1, <2>2
<1>4. ASSUME NEW p \in DOMAIN reply.events
      PROVE  /\ Tells(Ev(p)) => Ev(p).block \in DOMAIN reply.blocks
             /\ Ev(p).type \in {"content_block_start", "delta"} =>
                  Ev(p).kind = reply.blocks[Ev(p).block].kind
             /\ Ev(p).type = "delta" =>
                  /\ Ev(p).kind # "redacted_thinking"
                  /\ Ev(p).part \in 1..reply.blocks[Ev(p).block].parts
  BY ReplyFacts DEF EventsInOrder, Ev
<1> QED BY <1>2, <1>3, <1>4

\* Events of one type.
LEMMA OfFacts ==
    ASSUME NEW type, NEW b
    PROVE  /\ \A p : p \in Of(reply, type, b) <=>
                p \in DOMAIN reply.events /\ Ev(p).type = type /\ Ev(p).block = b
           /\ type \in {"content_block_start", "delta", "signature_delta", "content_block_stop"}
                => \A p \in Of(reply, type, b) : Tells(Ev(p))
BY DEF Of, Ev, Tells

LEMMA PhaseFacts ==
    ASSUME NEW e, MaxParts \in Nat
    PROVE  /\ e.type = "content_block_start" => Phase(e) = 0
           /\ e.type = "delta" => Phase(e) = e.part
           /\ e.type = "signature_delta" => Phase(e) = MaxParts + 1
           /\ e.type = "content_block_stop" => Phase(e) = MaxParts + 2
<1>1. CASE e.type = "content_block_start"
  BY <1>1 DEF Phase
<1>2. CASE e.type = "delta"
  BY <1>2 DEF Phase
<1>3. CASE e.type = "signature_delta"
  BY <1>3 DEF Phase
<1>4. CASE e.type = "content_block_stop"
  BY <1>4 DEF Phase
<1> QED BY <1>1, <1>2, <1>3, <1>4

\* Two events that tell of blocks: which comes first.
LEMMA InOrderFacts ==
    ASSUME RepliesAreReplies, reply \in Replies,
           NEW p \in DOMAIN reply.events, NEW q \in DOMAIN reply.events,
           Tells(Ev(p)), Tells(Ev(q))
    PROVE  /\ p < q => Before(Ev(p), Ev(q))
           /\ Before(Ev(p), Ev(q)) => p < q
           /\ Ev(p).block < Ev(q).block => p < q
           /\ p < q => Ev(p).block <= Ev(q).block
<1>1. p \in Nat /\ q \in Nat /\ Ev(p).block \in Nat /\ Ev(q).block \in Nat
  BY EventFacts
<1>2. /\ p < q => Before(Ev(p), Ev(q))
      /\ q < p => Before(Ev(q), Ev(p))
  BY ReplyFacts DEF EventsInOrder, Ev
<1>3. \A e \in {Ev(p), Ev(q)} : Phase(e) \in Nat
  <2>1. ASSUME NEW x \in DOMAIN reply.events, Tells(Ev(x)) PROVE Phase(Ev(x)) \in Nat
    <3>1. MaxParts \in Nat /\ Ev(x).part \in Nat
      BY EventFacts, ReplyFacts
    <3>2. Ev(x).type \in {"content_block_start", "delta", "signature_delta", "content_block_stop"}
      BY <2>1 DEF Tells
    <3> QED BY <3>1, <3>2, PhaseFacts
  <2> QED BY <2>1
<1>4. p = q => ~Before(Ev(p), Ev(q))
  BY <1>1, <1>3 DEF Before
<1>5. ~(Before(Ev(p), Ev(q)) /\ Before(Ev(q), Ev(p)))
  BY <1>1, <1>3 DEF Before
<1>6. Before(Ev(p), Ev(q)) => p < q
  BY <1>1, <1>2, <1>4, <1>5
<1>7. Ev(p).block < Ev(q).block => Before(Ev(p), Ev(q))
  BY DEF Before
<1>8. Before(Ev(p), Ev(q)) => Ev(p).block <= Ev(q).block
  BY <1>1 DEF Before
<1> QED BY <1>2, <1>6, <1>7, <1>8

\* Within a block.
LEMMA SameBlock ==
    ASSUME RepliesAreReplies, reply \in Replies,
           NEW p \in DOMAIN reply.events, NEW q \in DOMAIN reply.events,
           Tells(Ev(p)), Tells(Ev(q)), Ev(p).block = Ev(q).block
    PROVE  /\ Phase(Ev(p)) < Phase(Ev(q)) => p < q
           /\ p < q => Phase(Ev(p)) < Phase(Ev(q))
<1>1. Ev(p).block \in Nat
  BY EventFacts
<1>2. Before(Ev(p), Ev(q)) <=> Phase(Ev(p)) < Phase(Ev(q))
  BY <1>1 DEF Before
<1> QED BY <1>2, InOrderFacts

LEMMA CompleteFacts ==
    ASSUME RepliesAreReplies, reply \in Replies
    PROVE  /\ \A b \in DOMAIN reply.blocks : Of(reply, "content_block_stop", b) # {}
           /\ \A b \in DOMAIN reply.blocks :
                Of(reply, "content_block_start", b) # {}
                /\ reply.blocks[b].kind # "redacted_thinking" =>
                  \A k \in 1..reply.blocks[b].parts :
                    \E p \in Of(reply, "delta", b) : Ev(p).part = k
           /\ \A s \in DOMAIN reply.events : Ev(s).type = "message_stop" =>
                /\ \A p \in DOMAIN reply.events : Tells(Ev(p)) => p < s
                /\ \E p \in 1..(s - 1) : Ev(p).type = "message_delta"
BY ReplyFacts DEF EventsComplete, Ev

LEMMA RowAppend ==
    ASSUME NEW b, NEW m \in Nat
    PROVE  /\ Append(Row(b, m), <<b, m + 1>>) = Row(b, m + 1)
           /\ Row(b, 0) = <<>>
<1>1. Row(b, m) \in Seq({<<b, k>> : k \in 1..m}) /\ Len(Row(b, m)) = m
      /\ DOMAIN Row(b, m) = 1..m
  BY DEF Row
<1>2. Row(b, 0) = <<>>
  <2>1. Row(b, 0) \in Seq({<<b, k>> : k \in 1..0}) /\ Len(Row(b, 0)) = 0
    BY DEF Row
  <2> QED BY <2>1, EmptySeq
<1>3. Append(Row(b, m), <<b, m + 1>>) = Row(b, m + 1)
  <2> DEFINE T == {<<b, k>> : k \in 1..(m + 1)}
             s == Append(Row(b, m), <<b, m + 1>>)
             t == Row(b, m + 1)
  <2>1. Row(b, m) \in Seq(T) /\ <<b, m + 1>> \in T
    BY DEF Row
  <2>2. s \in Seq(T) /\ Len(s) = m + 1 /\ s[m + 1] = <<b, m + 1>>
        /\ \A k \in 1..m : s[k] = <<b, k>>
    <3>1. \A k \in 1..m : Row(b, m)[k] = <<b, k>>
      BY DEF Row
    <3> HIDE DEF T
    <3> QED BY <1>1, <2>1, <3>1, AppendProperties
  <2>3. t \in Seq(T) /\ Len(t) = m + 1 /\ \A k \in 1..(m + 1) : t[k] = <<b, k>>
    BY DEF Row
  <2>4. \A k \in 1..(m + 1) : k \in 1..m \/ k = m + 1
    OBVIOUS
  <2> HIDE DEF T, s, t
  <2>5. \A k \in 1..(m + 1) : s[k] = t[k]
    BY <2>2, <2>3, <2>4
  <2>6. s = t
    BY <2>2, <2>3, <2>5, SeqEqual
  <2> QED BY <2>6 DEF s, t
<1> QED BY <1>2, <1>3

------------------------------------------------------------------------------
\* What a step of the goroutine leaves alone.

LEMMA ViewStep ==
    ASSUME UNCHANGED reply
    PROVE  /\ \A p : Ev(p)' = Ev(p)
           /\ \A type, b : Of(reply', type, b) = Of(reply, type, b)
           /\ \A n : ShownUpto(n)' = ShownUpto(n)
           /\ \A n : Took(n)' = Took(n)
           /\ Display' = Display
           /\ \A b : Says(b)' = Says(b)
BY DEF Ev, Of, ShownUpto, Took, Display, Says

LEMMA StateFacts ==
    ASSUME RepliesAreReplies, TypeInv
    PROVE  /\ pos \in Nat /\ cut \in Nat /\ pos <= cut /\ cut <= Len(reply.events)
           /\ \A p \in 1..pos : p \in DOMAIN reply.events /\ p \in Nat
           /\ reply \in Replies
           /\ DOMAIN reply.events = 1..Len(reply.events)
<1>1. reply \in Replies /\ cut \in 0..Len(reply.events) /\ pos \in 0..cut
  BY DEF TypeInv
<1>2. Len(reply.events) \in Nat /\ DOMAIN reply.events = 1..Len(reply.events)
  BY <1>1, EventFacts
<1>3. cut \in Nat /\ cut <= Len(reply.events)
  BY <1>1, <1>2
<1>4. pos \in Nat /\ pos <= cut
  BY <1>1, <1>3
<1> QED BY <1>1, <1>2, <1>3, <1>4

LEMMA ResponseFacts ==
    ASSUME TypeInv
    PROVE  /\ response.blocks \in Seq(AssembledType)
           /\ Len(response.blocks) \in Nat /\ DOMAIN response.blocks = 1..Len(response.blocks)
           /\ response.stop \in {"", "end_turn", "tool_use", "max_tokens", "refusal"}
           /\ response = [blocks |-> response.blocks, stop |-> response.stop]
           /\ \A b \in 1..Len(response.blocks) :
                response.blocks[b] \in AssembledType
<1>1. response \in ResponseType
  BY DEF TypeInv
<1>2. /\ response.blocks \in Seq(AssembledType)
      /\ response.stop \in {"", "end_turn", "tool_use", "max_tokens", "refusal"}
      /\ response = [blocks |-> response.blocks, stop |-> response.stop]
  BY <1>1 DEF ResponseType
<1>3. Len(response.blocks) \in Nat /\ DOMAIN response.blocks = 1..Len(response.blocks)
  BY <1>2, LenProperties
<1>4. \A b \in 1..Len(response.blocks) :
         response.blocks[b] \in AssembledType
  BY <1>2, ElementOfSeq
<1> QED BY <1>2, <1>3, <1>4

LEMMA NextEvent ==
    ASSUME RepliesAreReplies, TypeInv, pos < cut
    PROVE  /\ pos + 1 \in DOMAIN reply.events /\ Ev(pos + 1) = Current
           /\ pos + 1 \in 1..cut
           /\ \A p \in DOMAIN reply.events : p <= pos + 1 <=> p <= pos \/ p = pos + 1
           /\ \A p : p \in 1..(pos + 1) <=> p \in 1..pos \/ p = pos + 1
           /\ (pos + 1) - 1 = pos
<1>1. /\ pos \in Nat /\ cut \in Nat /\ cut <= Len(reply.events) /\ Len(reply.events) \in Nat
      /\ DOMAIN reply.events = 1..Len(reply.events)
  BY StateFacts, EventFacts
<1>2. pos + 1 \in 1..Len(reply.events) /\ pos + 1 \in 1..cut
  BY <1>1
<1>3. Ev(pos + 1) = Current
  BY DEF Ev, Current
<1>4. \A p \in 1..Len(reply.events) : p <= pos + 1 <=> p <= pos \/ p = pos + 1
  BY <1>1
<1>5. \A p : p \in 1..(pos + 1) <=> p \in 1..pos \/ p = pos + 1
  BY <1>1
<1> QED BY <1>1, <1>2, <1>3, <1>4, <1>5

\* A block the event adds no part to.
LEMMA SameParts ==
    ASSUME RepliesAreReplies, TypeInv, pos < cut, UNCHANGED reply, pos' = pos + 1,
           NEW b, BlockInv(b),
           response'.blocks[b].kind = response.blocks[b].kind,
           response'.blocks[b].data = response.blocks[b].data,
           ~(Current.type = "delta" /\ Current.block = b),
           reply.blocks[b].kind = "tool_use" /\ ToldOf("content_block_stop", b)'
             => response'.blocks[b].input = response'.blocks[b].data
    PROVE  BlockInv(b)'
<1>1. /\ \A p \in DOMAIN reply.events : p <= pos + 1 <=> p <= pos \/ p = pos + 1
      /\ Ev(pos + 1) = Current
  BY NextEvent
<1>2. /\ \A p : Ev(p)' = Ev(p)
      /\ \A type, c : Of(reply', type, c) = Of(reply, type, c)
  BY ViewStep
<1>3. \A type : \A p \in Of(reply, type, b) :
         p \in DOMAIN reply.events /\ Ev(p).type = type /\ Ev(p).block = b
  BY OfFacts
<1>4. /\ b \in DOMAIN reply.blocks
      /\ response.blocks[b].kind = reply.blocks[b].kind /\ reply.blocks[b].kind # Unknown
      /\ ToldOf("content_block_start", b)
      /\ reply.blocks[b].kind = "redacted_thinking" => response.blocks[b].data = Row(b, 1)
      /\ reply.blocks[b].kind # "redacted_thinking" =>
           \E m \in 0..reply.blocks[b].parts :
                response.blocks[b].data = Row(b, m) /\ Taken(b, m)
  BY DEF BlockInv
<1>5. ToldOf("content_block_start", b)'
  <2>1. PICK p \in Of(reply, "content_block_start", b) : p <= pos
    BY <1>4 DEF ToldOf
  <2>2. p <= pos + 1
    BY <1>1, <1>3, <2>1
  <2>3. p \in Of(reply', "content_block_start", b) /\ p <= pos'
    BY <1>2, <2>2
  <2> QED BY <2>3 DEF ToldOf
<1>6. ASSUME NEW m, Taken(b, m) PROVE Taken(b, m)'
  <2>1. ASSUME NEW p \in Of(reply, "delta", b) PROVE p <= pos + 1 <=> Ev(p).part <= m
    <3>1. p <= pos <=> Ev(p).part <= m
      BY <1>6 DEF Taken
    <3>2. p # pos + 1
      BY <1>1, <1>3
    <3> QED BY <1>1, <1>3, <3>1, <3>2
  <2> QED BY <1>2, <2>1 DEF Taken
<1>7. reply'.blocks[b].kind # "redacted_thinking" =>
           \E m \in 0..reply'.blocks[b].parts :
                response'.blocks[b].data = Row(b, m) /\ Taken(b, m)'
  BY <1>4, <1>6
<1> QED BY <1>4, <1>5, <1>7 DEF BlockInv

LEMMA KeepBlock ==
    ASSUME RepliesAreReplies, TypeInv, pos < cut, UNCHANGED reply, pos' = pos + 1,
           NEW b, BlockInv(b), response'.blocks[b] = response.blocks[b],
           ~(Current.type = "delta" /\ Current.block = b),
           ~(/\ Current.type = "content_block_stop" /\ Current.block = b
             /\ reply.blocks[b].kind = "tool_use")
    PROVE  BlockInv(b)'
<1>1. /\ \A p \in DOMAIN reply.events : p <= pos + 1 <=> p <= pos \/ p = pos + 1
      /\ Ev(pos + 1) = Current
  BY NextEvent
<1>2. Of(reply', "content_block_stop", b) = Of(reply, "content_block_stop", b)
  BY ViewStep
<1>3. \A p \in Of(reply, "content_block_stop", b) :
         p \in DOMAIN reply.events /\ Ev(p).type = "content_block_stop" /\ Ev(p).block = b
  BY OfFacts
<1>4. ASSUME reply.blocks[b].kind = "tool_use", ToldOf("content_block_stop", b)'
      PROVE  ToldOf("content_block_stop", b)
  <2>1. PICK p \in Of(reply, "content_block_stop", b) : p <= pos + 1
    BY <1>2, <1>4 DEF ToldOf
  <2>2. p # pos + 1
    BY <1>1, <1>3, <1>4
  <2>3. p <= pos
    BY <1>1, <1>3, <2>1, <2>2
  <2> QED BY <2>3 DEF ToldOf
<1>5. reply.blocks[b].kind = "tool_use" /\ ToldOf("content_block_stop", b)'
        => response'.blocks[b].input = response'.blocks[b].data
  BY <1>4 DEF BlockInv
<1> QED BY <1>5, SameParts

\* An event that adds nothing to a block.
LEMMA KeepBlocks ==
    ASSUME RepliesAreReplies, TypeInv, OpenedInv,
           \A b \in 1..Len(response.blocks) : BlockInv(b),
           pos < cut, UNCHANGED reply, pos' = pos + 1, response'.blocks = response.blocks,
           Current.type # "delta",
           Current.type = "content_block_stop" =>
               reply.blocks[Current.block].kind # "tool_use",
           Tells(Current) => Current.block \in 1..Len(response.blocks)
    PROVE  OpenedInv' /\ \A b \in 1..Len(response'.blocks) : BlockInv(b)'
<1>1. OpenedInv'
  <2>1. \A p : Ev(p)' = Ev(p)
    BY ViewStep
  <2>2. \A p \in 1..(pos + 1) : Tells(Ev(p)) => Ev(p).block \in 1..Len(response.blocks)
    BY NextEvent DEF OpenedInv
  <2> QED BY <2>1, <2>2 DEF OpenedInv, Tells
<1>2. ASSUME NEW b \in 1..Len(response.blocks) PROVE BlockInv(b)'
  BY KeepBlock
<1> QED BY <1>1, <1>2

\* What was shown, when the next event is nothing to show.
LEMMA TookNext ==
    ASSUME RepliesAreReplies, TypeInv, pos < cut
    PROVE  ~(Current.type = "delta" /\ Shown(Current.kind)) => Took(pos + 1) = Took(pos)
<1>1. /\ \A p : p \in 1..(pos + 1) <=> p \in 1..pos \/ p = pos + 1
      /\ Ev(pos + 1) = Current
  BY NextEvent
<1>2. ~(Current.type = "delta" /\ Shown(Current.kind)) => ShownUpto(pos + 1) = ShownUpto(pos)
  BY <1>1 DEF ShownUpto
<1> QED BY <1>2 DEF Took

LEMMA StopNext ==
    ASSUME RepliesAreReplies, TypeInv, StopInv, pos < cut, UNCHANGED reply, pos' = pos + 1,
           Current.type # "message_delta", response'.stop = response.stop
    PROVE  StopInv'
<1>1. /\ \A p : p \in 1..(pos + 1) <=> p \in 1..pos \/ p = pos + 1
      /\ Ev(pos + 1) = Current
  BY NextEvent
<1>2. \A p : Ev(p)' = Ev(p)
  BY ViewStep
<1> QED BY <1>1, <1>2 DEF StopInv

\* The answer does not change while the goroutine reads.
LEMMA AnswerFrame ==
    ASSUME MessagesIInv, UNCHANGED <<reply, streaming, streamed, caller, last, result, choice, replayed>>,
           reader # "not started"
    PROVE  StreamedInv' /\ LastInv' /\ AnswerInv'
<1>1. Display' = Display /\ \A b : Says(b)' = Says(b)
  BY ViewStep
<1>2. StreamedInv'
  BY <1>1 DEF MessagesIInv, StreamedInv
<1>3. LastInv'
  BY <1>1 DEF MessagesIInv, LastInv, Whole
<1>4. AnswerInv'
  BY DEF MessagesIInv, AnswerInv
<1> QED BY <1>2, <1>3, <1>4

------------------------------------------------------------------------------
\* The steps of the goroutine.

LEMMA ScanFacts ==
    ASSUME MessagesIInv, NEW type, Scan(type)
    PROVE  /\ reader = "scan" /\ pos < cut /\ pos' = pos + 1 /\ Current.type = type
           /\ UNCHANGED <<reply, streaming, cut, caller, last, result, choice, replayed>>
           /\ TypeInv /\ OpenedInv /\ StopInv /\ streaming
           /\ \A b \in 1..Len(response.blocks) : BlockInv(b)
           /\ ToSet(streamed) = Took(pos)
<1>1. /\ reader = "scan" /\ pos < cut /\ pos' = pos + 1 /\ Current.type = type
      /\ UNCHANGED <<reply, streaming, cut, caller, last, result, choice, replayed>>
  BY DEF Scan, server, Current
<1>2. TypeInv /\ OpenedInv /\ StopInv /\ \A b \in 1..Len(response.blocks) : BlockInv(b)
  BY <1>1 DEF MessagesIInv, AssembledInv, Going
<1>3. ToSet(streamed) = Took(pos) /\ streaming
  BY <1>1 DEF MessagesIInv, ShownInv, ReaderInv
<1> QED BY <1>1, <1>2, <1>3

LEMMA ScanType ==
    ASSUME RepliesAreReplies, TypeInv, pos < cut, pos' = pos + 1,
           UNCHANGED <<reply, streaming, cut, streamed>>, response' \in ResponseType,
           reader' \in {"scan", "func", "send", "send error"}
    PROVE  TypeInv'
<1>1. pos + 1 \in 1..cut /\ cut \in Nat
  BY NextEvent, StateFacts
<1>2. pos + 1 \in 0..cut
  BY <1>1, Within
<1> QED BY <1>2 DEF TypeInv

\* An error ends it, or the end of the body.
LEMMA FailedKeeps ==
    ASSUME RepliesAreReplies, MessagesIInv, reader # "not started", reader' \in {"send error", "closed"},
           UNCHANGED <<reply, streaming, cut, streamed, response, caller, last, result, choice,
                       replayed>>,
           pos' = pos \/ (pos < cut /\ pos' = pos + 1)
    PROVE  MessagesIInv'
<1>1. TypeInv'
  <2>1. TypeInv
    BY DEF MessagesIInv
  <2>2. pos \in 0..cut /\ cut \in Nat
    BY <2>1, StateFacts DEF TypeInv
  <2>3. pos < cut => pos + 1 \in 1..cut
    BY <2>1, NextEvent
  <2>4. pos < cut => pos + 1 \in 0..cut
    BY <2>2, <2>3, Within
  <2>5. pos' \in 0..cut
    BY <2>2, <2>4
  <2> QED BY <2>1, <2>5 DEF TypeInv
<1>2. ReaderInv' /\ AssembledInv' /\ ShownInv'
  BY DEF MessagesIInv, ReaderInv, AssembledInv, ShownInv, Going
<1> QED BY <1>1, <1>2, AnswerFrame DEF MessagesIInv

\* The goroutine goes on to the next event, and the blocks are as they were.
LEMMA GoesOn ==
    ASSUME RepliesAreReplies, MessagesIInv, NEW type, Scan(type), reader' = "scan",
           UNCHANGED <<streamed, response>>, type \notin {"delta", "message_delta"},
           type = "content_block_stop" => reply.blocks[Current.block].kind # "tool_use",
           Tells(Current) => Current.block \in 1..Len(response.blocks)
    PROVE  MessagesIInv'
<1>1. /\ reader = "scan" /\ pos < cut /\ pos' = pos + 1 /\ Current.type = type
      /\ UNCHANGED <<reply, streaming, cut, caller, last, result, choice, replayed>>
      /\ TypeInv /\ OpenedInv /\ StopInv /\ streaming
      /\ \A b \in 1..Len(response.blocks) : BlockInv(b)
      /\ ToSet(streamed) = Took(pos)
  BY ScanFacts
<1>2. TypeInv'
  BY <1>1, ScanType DEF TypeInv
<1>3. OpenedInv' /\ \A b \in 1..Len(response'.blocks) : BlockInv(b)'
  BY <1>1, KeepBlocks
<1>4. StopInv'
  BY <1>1, StopNext
<1>5. AssembledInv'
  BY <1>3, <1>4 DEF AssembledInv
<1>6. ShownInv'
  <2>1. Took(pos + 1) = Took(pos)
    BY <1>1, TookNext
  <2>2. \A n : Took(n)' = Took(n)
    BY <1>1, ViewStep
  <2>3. PICK n : n = pos + 1
    OBVIOUS
  <2>4. ToSet(streamed') = Took(n)' /\ pos' = n
    BY <1>1, <2>1, <2>2, <2>3
  <2> QED BY <1>1, <2>4 DEF ShownInv, Took, ShownUpto
<1>7. ReaderInv'
  BY <1>1 DEF ReaderInv
<1> QED BY <1>1, <1>2, <1>5, <1>6, <1>7, AnswerFrame DEF MessagesIInv

LEMMA IgnoredStep ==
    ASSUME RepliesAreReplies, MessagesIInv, Ignored PROVE MessagesIInv'
<1>1. CASE Scan("message_start")
  <2>1. reader' = "scan" /\ ~Tells(Current) /\ UNCHANGED <<streamed, response>>
    BY <1>1, ScanFacts DEF Ignored, Tells
  <2> QED BY <1>1, <2>1, GoesOn
<1>2. CASE Scan("ping")
  <2>1. reader' = "scan" /\ ~Tells(Current) /\ UNCHANGED <<streamed, response>>
    BY <1>2, ScanFacts DEF Ignored, Tells
  <2> QED BY <1>2, <2>1, GoesOn
<1> QED BY <1>1, <1>2 DEF Ignored

LEMMA OpenedFacts ==
    ASSUME RepliesAreReplies, TypeInv, pos < cut, Tells(Current)
    PROVE  /\ Current.block \in DOMAIN reply.blocks /\ Current.block \in Nat
           /\ Opened(Current.block) <=> Current.block \in 1..Len(response.blocks)
<1>1. pos + 1 \in DOMAIN reply.events /\ Ev(pos + 1) = Current
  BY NextEvent
<1>2. Current.block \in DOMAIN reply.blocks
  BY <1>1, EventFacts, StateFacts
<1>3. Current.block \in 1..Len(reply.blocks) /\ Len(reply.blocks) \in Nat
  BY <1>2, BlockFacts, StateFacts
<1>4. Len(response.blocks) \in Nat
  BY ResponseFacts
<1> QED BY <1>2, <1>3, <1>4 DEF Opened

LEMMA SignatureDeltaStep ==
    ASSUME RepliesAreReplies, MessagesIInv, SignatureDelta PROVE MessagesIInv'
<1>1. Scan("signature_delta") /\ UNCHANGED <<response, streamed>>
      /\ reader' = IF Opened(Current.block) THEN reader ELSE "send error"
  BY DEF SignatureDelta
<1>2. /\ reader = "scan" /\ pos < cut /\ pos' = pos + 1 /\ Current.type = "signature_delta"
      /\ UNCHANGED <<reply, streaming, cut, caller, last, result, choice, replayed>> /\ TypeInv
  BY <1>1, ScanFacts
<1>3. CASE Opened(Current.block)
  <2>1. Current.block \in 1..Len(response.blocks)
    BY <1>2, <1>3, OpenedFacts DEF Tells
  <2> QED BY <1>1, <1>2, <1>3, <2>1, GoesOn
<1>4. CASE ~Opened(Current.block)
  BY <1>1, <1>2, <1>4, FailedKeeps
<1> QED BY <1>3, <1>4

LEMMA MessageDeltaStep ==
    ASSUME RepliesAreReplies, MessagesIInv, MessageDelta PROVE MessagesIInv'
<1>1. Scan("message_delta") /\ response' = [response EXCEPT !.stop = reply.stop]
      /\ UNCHANGED <<reader, streamed>>
  BY DEF MessageDelta
<1>2. /\ reader = "scan" /\ pos < cut /\ pos' = pos + 1 /\ Current.type = "message_delta"
      /\ UNCHANGED <<reply, streaming, cut, caller, last, result, choice, replayed>>
      /\ TypeInv /\ OpenedInv /\ streaming
      /\ \A b \in 1..Len(response.blocks) : BlockInv(b)
      /\ ToSet(streamed) = Took(pos)
  BY <1>1, ScanFacts
<1>3. response'.blocks = response.blocks /\ response'.stop = reply.stop
      /\ response' = [blocks |-> response.blocks, stop |-> reply.stop]
  BY <1>1, <1>2, ResponseFacts
<1>4. reply.stop \in {"", "end_turn", "tool_use", "max_tokens", "refusal"}
  BY <1>2, StateFacts, ReplyFacts DEF IsMessage
<1>5. response' \in ResponseType
  BY <1>2, <1>3, <1>4, ResponseFacts DEF ResponseType
<1>6. TypeInv'
  BY <1>1, <1>2, <1>5, ScanType
<1>7. OpenedInv' /\ \A b \in 1..Len(response'.blocks) : BlockInv(b)'
  <2>1. ~Tells(Current)
    BY <1>2 DEF Tells
  <2> QED BY <1>2, <1>3, <2>1, KeepBlocks
<1>8. StopInv'
  BY <1>2, <1>3 DEF StopInv
<1>9. AssembledInv'
  BY <1>7, <1>8 DEF AssembledInv
<1>10. ShownInv'
  <2>1. Took(pos + 1) = Took(pos)
    BY <1>2, TookNext
  <2>2. \A n : Took(n)' = Took(n)
    BY <1>2, ViewStep
  <2>3. PICK n : n = pos + 1
    OBVIOUS
  <2>4. ToSet(streamed') = Took(n)' /\ pos' = n
    BY <1>1, <1>2, <2>1, <2>2, <2>3
  <2> QED BY <1>1, <1>2, <2>4 DEF ShownInv, Took, ShownUpto
<1>11. ReaderInv'
  BY <1>1, <1>2 DEF ReaderInv
<1> QED BY <1>1, <1>2, <1>6, <1>9, <1>10, <1>11, AnswerFrame DEF MessagesIInv

LEMMA MessageStopStep ==
    ASSUME RepliesAreReplies, MessagesIInv, MessageStop PROVE MessagesIInv'
<1>1. Scan("message_stop") /\ reader' = "send" /\ UNCHANGED <<response, streamed>>
  BY DEF MessageStop
<1>2. /\ reader = "scan" /\ pos < cut /\ pos' = pos + 1 /\ Current.type = "message_stop"
      /\ UNCHANGED <<reply, streaming, cut, caller, last, result, choice, replayed>>
      /\ TypeInv /\ OpenedInv /\ StopInv /\ streaming
      /\ \A b \in 1..Len(response.blocks) : BlockInv(b)
      /\ ToSet(streamed) = Took(pos)
  BY <1>1, ScanFacts
<1>3. TypeInv'
  BY <1>1, <1>2, ScanType DEF TypeInv
<1>4. OpenedInv' /\ \A b \in 1..Len(response'.blocks) : BlockInv(b)'
  <2>1. ~Tells(Current)
    BY <1>2 DEF Tells
  <2> QED BY <1>1, <1>2, <2>1, KeepBlocks
<1>5. StopInv'
  BY <1>1, <1>2, StopNext
<1>6. AssembledInv'
  BY <1>4, <1>5 DEF AssembledInv
<1>7. ShownInv'
  <2>1. Took(pos + 1) = Took(pos)
    BY <1>2, TookNext
  <2>2. \A n : Took(n)' = Took(n)
    BY <1>2, ViewStep
  <2>3. PICK n : n = pos + 1
    OBVIOUS
  <2>4. ToSet(streamed') = Took(n)' /\ pos' = n
    BY <1>1, <1>2, <2>1, <2>2, <2>3
  <2> QED BY <1>1, <2>4 DEF ShownInv, Took, ShownUpto
<1>8. ReaderInv'
  <2>1. pos + 1 \in 1..(pos + 1) /\ Ev(pos + 1).type = "message_stop"
    BY <1>2, StateFacts, NextEvent
  <2>2. PICK n : n = pos + 1
    OBVIOUS
  <2>3. n \in 1..n /\ Ev(n)'.type = "message_stop" /\ pos' = n
    BY <1>2, <2>1, <2>2, ViewStep
  <2> QED BY <1>1, <1>2, <2>3 DEF ReaderInv, Ev
<1> QED BY <1>1, <1>2, <1>3, <1>6, <1>7, <1>8, AnswerFrame DEF MessagesIInv

LEMMA ScanEndsStep ==
    ASSUME RepliesAreReplies, MessagesIInv, ScanEnds \/ ScanFails PROVE MessagesIInv'
<1>1. /\ reader = "scan" /\ reader' \in {"closed", "send error"} /\ pos' = pos
      /\ UNCHANGED <<reply, streaming, cut, streamed, response, caller, last, result, choice,
                     replayed>>
  BY DEF ScanEnds, ScanFails, server
<1> QED BY <1>1, FailedKeeps

LEMMA UpdateBlock ==
    ASSUME TypeInv, NEW b \in 1..Len(response.blocks), NEW v,
           v \in AssembledType,
           response' = [response EXCEPT !.blocks = [@ EXCEPT ![b] = v]]
    PROVE  /\ response' \in ResponseType /\ response'.stop = response.stop
           /\ Len(response'.blocks) = Len(response.blocks)
           /\ response'.blocks[b] = v
           /\ \A c \in 1..Len(response.blocks) : c # b => response'.blocks[c] = response.blocks[c]
<1>0. PICK n : n = [response.blocks EXCEPT ![b] = v]
  OBVIOUS
<1>1. /\ response.blocks \in Seq(AssembledType) /\ DOMAIN response.blocks = 1..Len(response.blocks)
      /\ response = [blocks |-> response.blocks, stop |-> response.stop]
      /\ response.stop \in {"", "end_turn", "tool_use", "max_tokens", "refusal"}
  BY ResponseFacts
<1>2. v \in AssembledType /\ b \in 1..Len(response.blocks)
  OBVIOUS
<1>3. response' = [blocks |-> n, stop |-> response.stop]
  BY <1>0, <1>1
<1>4. n \in Seq(AssembledType) /\ Len(n) = Len(response.blocks)
      /\ \A c \in 1..Len(response.blocks) : n[c] = IF c = b THEN v ELSE response.blocks[c]
  <2>1. PICK o : o = response.blocks
    OBVIOUS
  <2>2. o \in Seq(AssembledType) /\ b \in 1..Len(o) /\ n = [o EXCEPT ![b] = v]
    BY ONLY <1>0, <1>1, <1>2, <2>1
  <2>3. /\ n \in Seq(AssembledType) /\ Len(n) = Len(o)
        /\ \A c \in 1..Len(o) : n[c] = IF c = b THEN v ELSE o[c]
    BY ONLY <1>2, <2>2, ExceptIs
  <2> QED BY ONLY <2>1, <2>3
<1>5. response' \in ResponseType
  BY ONLY <1>1, <1>3, <1>4, ResponseIs
<1> QED BY <1>3, <1>4, <1>5

\* The goroutine goes on: what remains to show is how the blocks changed.
LEMMA ScanStep ==
    ASSUME RepliesAreReplies, MessagesIInv, NEW type, Scan(type), UNCHANGED streamed,
           type # "message_delta",
           \/ reader' = "scan" /\ ~(type = "delta" /\ Shown(Current.kind))
           \/ reader' = "func" /\ type = "delta" /\ Shown(Current.kind),
           response' \in ResponseType, response'.stop = response.stop,
           OpenedInv', \A b \in 1..Len(response'.blocks) : BlockInv(b)'
    PROVE  MessagesIInv'
<1>1. /\ reader = "scan" /\ pos < cut /\ pos' = pos + 1 /\ Current.type = type
      /\ UNCHANGED <<reply, streaming, cut, caller, last, result, choice, replayed>>
      /\ TypeInv /\ StopInv /\ streaming
      /\ ToSet(streamed) = Took(pos)
  BY ScanFacts
<1>2. TypeInv'
  BY <1>1, ScanType
<1>3. StopInv'
  BY <1>1, StopNext
<1>4. AssembledInv'
  BY <1>3 DEF AssembledInv
<1>5. PICK n : n = pos + 1
  OBVIOUS
<1>6. n - 1 = pos /\ pos' = n /\ n \in 1..n /\ Ev(n)' = Current
  BY <1>1, <1>5, NextEvent, StateFacts, ViewStep
<1>7. \A i : Took(i)' = Took(i)
  BY <1>1, ViewStep
<1>8. ShownInv'
  <2>1. CASE reader' = "scan"
    <3>1. Took(n) = Took(pos)
      BY <1>1, <1>5, <2>1, TookNext
    <3>2. ToSet(streamed') = Took(n)'
      BY <1>1, <1>7, <3>1
    <3> QED BY <1>6, <2>1, <3>2 DEF ShownInv, Took, ShownUpto
  <2>2. CASE reader' = "func"
    <3>1. ToSet(streamed') = Took(n - 1)'
      BY <1>1, <1>6, <1>7
    <3> QED BY <1>6, <2>2, <3>1 DEF ShownInv, Took, ShownUpto
  <2> QED BY <2>1, <2>2
<1>9. ReaderInv'
  <2>1. reader' = "func" => n \in ShownUpto(n)'
    BY <1>1, <1>6 DEF ShownUpto, Ev
  <2> QED BY <1>1, <1>6, <2>1 DEF ReaderInv, ShownUpto
<1> QED BY <1>1, <1>2, <1>4, <1>8, <1>9, AnswerFrame DEF MessagesIInv

\* A block that is not there yet is the next one, and nothing was told of it.
LEMMA OpensNext ==
    ASSUME RepliesAreReplies, TypeInv, OpenedInv, pos < cut,
           Tells(Current), ~Opened(Current.block)
    PROVE  /\ Current.block = Len(response.blocks) + 1
           /\ \A p \in DOMAIN reply.events :
                Tells(Ev(p)) /\ Ev(p).block = Current.block => ~(p <= pos)
<1>1. /\ pos \in Nat /\ reply \in Replies /\ DOMAIN reply.events = 1..Len(reply.events)
      /\ Len(response.blocks) \in Nat
      /\ Len(reply.blocks) \in Nat /\ DOMAIN reply.blocks = 1..Len(reply.blocks)
      /\ pos + 1 \in DOMAIN reply.events /\ Ev(pos + 1) = Current
  BY StateFacts, ResponseFacts, BlockFacts, NextEvent
<1>2. /\ Current.block \in DOMAIN reply.blocks /\ Current.block \in Nat
      /\ Current.block \notin 1..Len(response.blocks)
  BY OpenedFacts
<1>3. ASSUME NEW p \in DOMAIN reply.events, Tells(Ev(p)), p <= pos
      PROVE  Ev(p).block \in 1..Len(response.blocks)
  <2>1. p \in 1..pos
    BY <1>1, <1>3
  <2> QED BY <1>3, <2>1 DEF OpenedInv
<1>4. ASSUME Current.block # Len(response.blocks) + 1 PROVE FALSE
  <2> DEFINE c == Len(response.blocks) + 1
  <2>1. c \in DOMAIN reply.blocks /\ c < Current.block
    BY <1>1, <1>2, <1>4
  <2>2. PICK q : q \in Of(reply, "content_block_stop", c)
    BY <1>1, <2>1, CompleteFacts
  <2>3. q \in DOMAIN reply.events /\ Ev(q).block = c /\ Tells(Ev(q))
    BY <2>2, OfFacts
  <2>4. q < pos + 1
    BY <1>1, <2>1, <2>3, InOrderFacts
  <2>5. q <= pos
    BY <1>1, <2>3, <2>4
  <2>6. c \in 1..Len(response.blocks)
    BY <1>3, <2>3, <2>5
  <2> QED BY <1>1, <2>6
<1> QED BY <1>2, <1>3, <1>4

LEMMA NewBlock ==
    ASSUME RepliesAreReplies, MessagesIInv, Scan("content_block_start"),
           Current.kind # Unknown, ~Opened(Current.block), NEW v,
           v = [kind |-> Current.kind, id |-> Current.block,
                data |-> IF Current.kind = "redacted_thinking"
                           THEN <<<<Current.block, 1>>>> ELSE <<>>,
                input |-> <<>>, signed |-> FALSE],
           response' = [response EXCEPT !.blocks = Append(@, v)]
    PROVE  /\ response' \in ResponseType /\ response'.stop = response.stop
           /\ OpenedInv' /\ \A b \in 1..Len(response'.blocks) : BlockInv(b)'
<1> DEFINE N == Len(response.blocks)
<1>0. PICK c : c = Current.block
  OBVIOUS
<1>1. /\ pos < cut /\ pos' = pos + 1 /\ Current.type = "content_block_start"
      /\ reply' = reply /\ TypeInv /\ OpenedInv
      /\ \A b \in 1..N : BlockInv(b)
  BY ScanFacts
<1>2. /\ reply \in Replies /\ pos \in Nat
      /\ pos + 1 \in DOMAIN reply.events /\ Ev(pos + 1) = Current
  BY <1>1, StateFacts, NextEvent
<1>3. Tells(Current) /\ c \in DOMAIN reply.blocks /\ c \in Nat
  BY <1>0, <1>1, OpenedFacts DEF Tells
<1>4. /\ c = N + 1 /\ N \in Nat
      /\ \A p \in DOMAIN reply.events : Tells(Ev(p)) /\ Ev(p).block = c => ~(p <= pos)
  BY <1>0, <1>1, <1>3, OpensNext, ResponseFacts
<1>5. /\ Current.kind = reply.blocks[c].kind /\ Current.kind \in Kinds
      /\ c \in 1..MaxBlocks /\ reply.blocks[c].parts \in Nat
      /\ reply.blocks[c].kind = "redacted_thinking" => reply.blocks[c].parts = 1
      /\ reply.blocks[c].parts <= MaxParts /\ MaxParts \in Nat /\ MaxBlocks \in Nat
  BY <1>0, <1>1, <1>2, <1>3, EventFacts, BlockFacts, ReplyFacts
<1>6. v.kind = Current.kind /\ v.input = <<>> /\ v.id = c /\ v.signed = FALSE
      /\ v.data = IF Current.kind = "redacted_thinking" THEN Row(c, 1) ELSE <<>>
  <2>1. Row(c, 1) = <<<<c, 1>>>>
    BY DEF Row
  <2> QED BY <1>0, <2>1
<1>7. v \in AssembledType
  <2>1. Current.kind = "redacted_thinking" => <<c, 1>> \in PartIds
    BY <1>5 DEF PartIds
  <2>2. v.data \in Seq(PartIds)
    BY <1>0, <2>1
  <2>3. v = [kind |-> v.kind, id |-> v.id, data |-> v.data, input |-> v.input,
             signed |-> v.signed]
    OBVIOUS
  <2>4. v.input \in Seq(PartIds)
    BY <1>6
  <2> QED BY <1>5, <1>6, <2>2, <2>3, <2>4 DEF AssembledType
<1>7a. PICK n : n = Append(response.blocks, v)
  OBVIOUS
<1>8. /\ response.blocks \in Seq(AssembledType) /\ DOMAIN response.blocks = 1..N
      /\ response = [blocks |-> response.blocks, stop |-> response.stop]
      /\ response.stop \in {"", "end_turn", "tool_use", "max_tokens", "refusal"}
  BY <1>1, ResponseFacts
<1>9. response' = [blocks |-> n, stop |-> response.stop]
  BY <1>7a, <1>8
<1>10. n \in Seq(AssembledType) /\ Len(n) = N + 1 /\ n[N + 1] = v
       /\ \A b \in 1..N : n[b] = response.blocks[b]
  <2>1. PICK o : o = response.blocks
    OBVIOUS
  <2>2. o \in Seq(AssembledType) /\ n = Append(o, v)
    BY ONLY <1>7a, <1>8, <2>1
  <2>3. /\ n \in Seq(AssembledType) /\ Len(n) = Len(o) + 1 /\ n[Len(o) + 1] = v
        /\ \A b \in 1..Len(o) : n[b] = o[b]
    BY ONLY <1>7, <2>2, AppendIs
  <2> QED BY ONLY <2>1, <2>3
<1>11. response' \in ResponseType /\ response'.stop = response.stop
  BY <1>8, <1>9, <1>10, ResponseIs
<1>12. /\ Len(response'.blocks) = N + 1 /\ response'.blocks[N + 1] = v
       /\ \A b \in 1..N : response'.blocks[b] = response.blocks[b]
       /\ 1..(N + 1) = 1..N \cup {N + 1}
  BY <1>4, <1>9, <1>10
<1>13. OpenedInv'
  <2>1. \A p : Ev(p)' = Ev(p)
    BY <1>1, ViewStep
  <2>2. \A p \in 1..(pos + 1) : Tells(Ev(p)) => Ev(p).block \in 1..(N + 1)
    <3>1. ASSUME NEW p \in 1..(pos + 1), Tells(Ev(p)) PROVE Ev(p).block \in 1..N \/ Ev(p).block = N + 1
      <4>1. p \in 1..pos \/ p = pos + 1
        BY <1>1, NextEvent
      <4> QED BY <1>0, <1>1, <1>2, <1>4, <3>1, <4>1 DEF OpenedInv
    <3> QED BY <1>12, <3>1
  <2> QED BY <1>1, <1>12, <2>1, <2>2 DEF OpenedInv, Tells
<1>14. ASSUME NEW b \in 1..N PROVE BlockInv(b)'
  BY <1>0, <1>1, <1>4, <1>12, KeepBlock
<1>15. BlockInv(c)'
  <2>1. /\ \A p : Ev(p)' = Ev(p)
        /\ \A type, b : Of(reply', type, b) = Of(reply, type, b)
    BY <1>1, ViewStep
  <2>2. \A p \in DOMAIN reply.events : p <= pos + 1 <=> p <= pos \/ p = pos + 1
    BY <1>1, NextEvent
  <2>3. ToldOf("content_block_start", c)'
    <3>1. pos + 1 \in Of(reply', "content_block_start", c) /\ pos + 1 <= pos'
      BY <1>0, <1>1, <1>2, <2>1, OfFacts
    <3> QED BY <3>1 DEF ToldOf
  <2>4. \A type \in {"delta", "content_block_stop"} : \A p \in Of(reply, type, c) :
           p \in DOMAIN reply.events /\ Ev(p).type = type /\ ~(p <= pos + 1)
    BY <1>0, <1>1, <1>2, <1>4, <2>2, OfFacts DEF Tells
  <2>5. ~ToldOf("content_block_stop", c)'
    BY <1>1, <2>1, <2>4 DEF ToldOf
  <2>6. Taken(c, 0)'
    <3>1. ASSUME NEW p \in Of(reply, "delta", c) PROVE ~(p <= pos + 1) /\ ~(Ev(p).part <= 0)
      <4>1. p \in DOMAIN reply.events /\ Ev(p).type = "delta" /\ Ev(p).block = c
        BY OfFacts
      <4>2. Ev(p).part \in 1..reply.blocks[c].parts
        BY <1>2, <4>1, EventFacts
      <4> QED BY <1>5, <2>4, <4>2
    <3> QED BY <1>1, <2>1, <3>1 DEF Taken
  <2>7. response'.blocks[c] = v
    BY <1>4, <1>12
  <2>8. reply.blocks[c].kind # "redacted_thinking" =>
          \E m \in 0..reply'.blocks[c].parts :
             response'.blocks[c].data = Row(c, m) /\ Taken(c, m)'
    <3>1. 0 \in 0..reply'.blocks[c].parts
      BY <1>1, <1>5
    <3>2. Row(c, 0) = <<>>
      BY RowAppend
    <3> QED BY <1>5, <1>6, <2>6, <2>7, <3>1, <3>2
  <2> QED BY <1>1, <1>3, <1>5, <1>6, <2>3, <2>5, <2>7, <2>8 DEF BlockInv, Unknown
<1> QED BY <1>4, <1>11, <1>12, <1>13, <1>14, <1>15

LEMMA ContentBlockStartStep ==
    ASSUME RepliesAreReplies, MessagesIInv, ContentBlockStart PROVE MessagesIInv'
<1>1. Scan("content_block_start") /\ UNCHANGED streamed
  BY DEF ContentBlockStart
<1>2. /\ reader = "scan" /\ pos < cut /\ pos' = pos + 1 /\ Current.type = "content_block_start"
      /\ UNCHANGED <<reply, streaming, cut, caller, last, result, choice, replayed>> /\ TypeInv
  BY <1>1, ScanFacts
<1>3. CASE Current.kind = Unknown
  <2>1. reader' = "send error" /\ UNCHANGED response
    BY <1>3 DEF ContentBlockStart
  <2> QED BY <1>1, <1>2, <2>1, FailedKeeps
<1>4. CASE Current.kind # Unknown /\ Opened(Current.block)
  <2>1. reader' = "scan" /\ UNCHANGED response
    BY <1>2, <1>4 DEF ContentBlockStart
  <2>2. Current.block \in 1..Len(response.blocks)
    BY <1>2, <1>4, OpenedFacts DEF Tells
  <2> QED BY <1>1, <2>1, <2>2, GoesOn
<1>5. CASE Current.kind # Unknown /\ ~Opened(Current.block)
  <2>1. PICK v : v = [kind |-> Current.kind, id |-> Current.block,
                      data |-> IF Current.kind = "redacted_thinking"
                                 THEN <<<<Current.block, 1>>>> ELSE <<>>,
                      input |-> <<>>, signed |-> FALSE]
    OBVIOUS
  <2>2. reader' = "scan" /\ response' = [response EXCEPT !.blocks = Append(@, v)]
    BY <1>2, <1>5, <2>1 DEF ContentBlockStart
  <2>3. /\ response' \in ResponseType /\ response'.stop = response.stop
        /\ OpenedInv' /\ \A b \in 1..Len(response'.blocks) : BlockInv(b)'
    BY <1>1, <1>5, <2>1, <2>2, NewBlock
  <2> QED BY <1>1, <2>2, <2>3, ScanStep
<1> QED BY <1>3, <1>4, <1>5

\* The delta of an opened block is its next one: those before it were taken.
LEMMA NextPart ==
    ASSUME RepliesAreReplies, TypeInv, pos < cut, Current.type = "delta",
           NEW b, b = Current.block, BlockInv(b)
    PROVE  \E m \in Nat :
             /\ response.blocks[b].data = Row(b, m) /\ Current.part = m + 1
             /\ m + 1 \in 0..reply.blocks[b].parts
             /\ reply.blocks[b].kind # "redacted_thinking"
             /\ <<b, m + 1>> \in PartIds
             /\ \A p \in Of(reply, "delta", b) : p <= pos + 1 <=> Ev(p).part <= m + 1
             /\ \A p \in Of(reply, "content_block_stop", b) : ~(p <= pos + 1)
<1>1. /\ reply \in Replies /\ pos \in Nat
      /\ pos + 1 \in DOMAIN reply.events /\ Ev(pos + 1) = Current
      /\ \A p \in DOMAIN reply.events : p \in Nat
      /\ \A p \in DOMAIN reply.events : p <= pos + 1 <=> p <= pos \/ p = pos + 1
  BY StateFacts, NextEvent, EventFacts
<1>2. /\ Tells(Current) /\ b \in DOMAIN reply.blocks /\ b \in Nat
      /\ MaxParts \in Nat /\ MaxBlocks \in Nat
  BY <1>1, OpenedFacts, ReplyFacts DEF Tells
<1>3. /\ reply.blocks[b].parts \in Nat /\ reply.blocks[b].parts <= MaxParts /\ b \in 1..MaxBlocks
      /\ Current.part \in 1..reply.blocks[b].parts
      /\ reply.blocks[b].kind # "redacted_thinking"
  BY <1>1, <1>2, BlockFacts, EventFacts
<1>4. PICK m \in 0..reply.blocks[b].parts : response.blocks[b].data = Row(b, m) /\ Taken(b, m)
  BY <1>3 DEF BlockInv
<1>5. ASSUME NEW p \in Of(reply, "delta", b)
      PROVE  /\ p \in DOMAIN reply.events /\ Tells(Ev(p)) /\ Ev(p).block = b /\ p \in Nat
             /\ Ev(p).type = "delta" /\ Phase(Ev(p)) = Ev(p).part /\ Ev(p).part \in Nat
             /\ p <= pos <=> Ev(p).part <= m
  <2>1. p \in DOMAIN reply.events /\ Tells(Ev(p)) /\ Ev(p).block = b /\ Ev(p).type = "delta"
    BY OfFacts
  <2>2. Phase(Ev(p)) = Ev(p).part /\ Ev(p).part \in Nat
    BY <1>1, <1>2, <2>1, PhaseFacts, EventFacts
  <2> QED BY <1>1, <1>4, <2>1, <2>2 DEF Taken
<1>6. pos + 1 \in Of(reply, "delta", b)
  BY <1>1, OfFacts
<1>7. m \in Nat /\ Current.part \in Nat /\ Current.part > m
  BY <1>1, <1>3, <1>4, <1>5, <1>6
<1>8. ASSUME Current.part # m + 1 PROVE FALSE
  <2>1. m + 1 \in 1..reply.blocks[b].parts /\ m + 1 < Current.part
    BY <1>3, <1>7, <1>8
  <2>2. Of(reply, "content_block_start", b) # {}
    BY DEF BlockInv, ToldOf
  <2>3. PICK q \in Of(reply, "delta", b) : Ev(q).part = m + 1
    BY <1>1, <1>2, <1>3, <2>1, <2>2, CompleteFacts
  <2>4. Phase(Ev(q)) < Phase(Ev(pos + 1))
    BY <1>1, <1>5, <1>6, <2>1, <2>3
  <2>5. q < pos + 1
    BY <1>1, <1>2, <1>5, <1>6, <2>3, <2>4, SameBlock
  <2>6. q <= pos
    BY <1>1, <1>5, <2>3, <2>5
  <2> QED BY <1>5, <1>7, <2>3, <2>6
<1>9. ASSUME NEW p \in Of(reply, "delta", b) PROVE p <= pos + 1 <=> Ev(p).part <= m + 1
  <2>1. p \in DOMAIN reply.events /\ p \in Nat /\ Ev(p).part \in Nat /\ Phase(Ev(p)) = Ev(p).part
        /\ Tells(Ev(p)) /\ Ev(p).block = b
        /\ (p <= pos <=> Ev(p).part <= m)
        /\ Phase(Ev(pos + 1)) = m + 1
    BY <1>1, <1>5, <1>6, <1>8
  <2>2. p < pos + 1 => Ev(p).part < m + 1
    BY <1>1, <1>2, <2>1, SameBlock
  <2>3. pos + 1 < p => m + 1 < Ev(p).part
    BY <1>1, <1>2, <2>1, SameBlock
  <2>4. p = pos + 1 => Ev(p).part = m + 1
    BY <1>1, <1>8
  <2> QED BY <1>1, <1>7, <2>1, <2>2, <2>3, <2>4
<1>10. ASSUME NEW p \in Of(reply, "content_block_stop", b) PROVE ~(p <= pos + 1)
  <2>1. /\ p \in DOMAIN reply.events /\ Tells(Ev(p)) /\ Ev(p).block = b
        /\ Ev(p).type = "content_block_stop"
    BY OfFacts
  <2>2. Phase(Ev(p)) = MaxParts + 2 /\ Phase(Ev(pos + 1)) = Current.part
    BY <1>1, <1>2, <2>1, PhaseFacts
  <2>3. p < pos + 1 => FALSE
    <3>1. p < pos + 1 => MaxParts + 2 < Current.part
      BY <1>1, <1>2, <2>1, <2>2, SameBlock
    <3> QED BY <1>2, <1>3, <3>1
  <2>4. p # pos + 1
    BY <1>1, <2>1
  <2> QED BY <1>1, <2>1, <2>3, <2>4
<1>11. m + 1 \in 0..reply.blocks[b].parts /\ <<b, m + 1>> \in PartIds
  BY <1>2, <1>3, <1>7, <1>8 DEF PartIds
<1> QED BY <1>3, <1>4, <1>7, <1>8, <1>9, <1>10, <1>11

LEMMA Told ==
    ASSUME RepliesAreReplies, TypeInv, OpenedInv, pos < cut, UNCHANGED reply, pos' = pos + 1,
           Len(response'.blocks) = Len(response.blocks),
           Tells(Current) => Current.block \in 1..Len(response.blocks)
    PROVE  OpenedInv'
<1>1. \A p : Ev(p)' = Ev(p)
  BY ViewStep
<1>2. \A p \in 1..(pos + 1) : Tells(Ev(p)) => Ev(p).block \in 1..Len(response.blocks)
  BY NextEvent DEF OpenedInv
<1> QED BY <1>1, <1>2 DEF OpenedInv, Tells

\* A delta added to its block.
LEMMA AddPart ==
    ASSUME RepliesAreReplies, MessagesIInv, Scan("delta"), Opened(Current.block),
           NEW b, b = Current.block, NEW v,
           v = [response.blocks[b] EXCEPT !.data = Append(@, Part(Current))],
           response' = [response EXCEPT !.blocks = [@ EXCEPT ![b] = v]]
    PROVE  /\ response' \in ResponseType /\ response'.stop = response.stop
           /\ OpenedInv' /\ \A c \in 1..Len(response'.blocks) : BlockInv(c)'
<1>1. /\ pos < cut /\ pos' = pos + 1 /\ Current.type = "delta" /\ reply' = reply
      /\ TypeInv /\ OpenedInv
      /\ \A c \in 1..Len(response.blocks) : BlockInv(c)
  BY ScanFacts
<1>2. b \in 1..Len(response.blocks) /\ BlockInv(b) /\ b \in Nat
  BY <1>1, OpenedFacts DEF Tells
<1>3. PICK m \in Nat :
             /\ response.blocks[b].data = Row(b, m) /\ Current.part = m + 1
             /\ m + 1 \in 0..reply.blocks[b].parts
             /\ reply.blocks[b].kind # "redacted_thinking"
             /\ <<b, m + 1>> \in PartIds
             /\ \A p \in Of(reply, "delta", b) : p <= pos + 1 <=> Ev(p).part <= m + 1
             /\ \A p \in Of(reply, "content_block_stop", b) : ~(p <= pos + 1)
  BY <1>1, <1>2, NextPart
<1>4. PICK o : o = response.blocks[b]
  OBVIOUS
<1>5. o \in AssembledType
  BY <1>1, <1>2, <1>4, ResponseFacts
<1>6. Append(o.data, Part(Current)) = Row(b, m + 1)
  <2>1. Part(Current) = <<b, m + 1>>
    BY <1>3 DEF Part
  <2> QED BY <1>3, <1>4, <2>1, RowAppend
<1>7. v.kind = o.kind /\ v.data = Row(b, m + 1) /\ v.input = o.input /\ v \in AssembledType
  <2>1. o.data \in Seq(PartIds) /\ Row(b, m) = o.data
    BY <1>3, <1>4, <1>5 DEF AssembledType
  <2>2. Append(o.data, <<b, m + 1>>) \in Seq(PartIds)
    BY <1>3, <2>1, AppendIs
  <2>3. Row(b, m + 1) \in Seq(PartIds)
    BY <2>1, <2>2, RowAppend
  <2>4. v = [o EXCEPT !.data = Row(b, m + 1)]
    BY <1>4, <1>6
  <2> QED BY <1>5, <2>3, <2>4 DEF AssembledType
<1>8. /\ response' \in ResponseType /\ response'.stop = response.stop
      /\ Len(response'.blocks) = Len(response.blocks)
      /\ response'.blocks[b] = v
      /\ \A c \in 1..Len(response.blocks) : c # b => response'.blocks[c] = response.blocks[c]
  BY <1>1, <1>2, <1>7, UpdateBlock
<1>9. OpenedInv'
  BY <1>1, <1>2, <1>8, Told
<1>10. BlockInv(b)'
  <2>1. /\ \A p : Ev(p)' = Ev(p)
        /\ \A type, c : Of(reply', type, c) = Of(reply, type, c)
    BY <1>1, ViewStep
  <2>2. \A p \in DOMAIN reply.events : p <= pos + 1 <=> p <= pos \/ p = pos + 1
    BY <1>1, NextEvent
  <2>3. ToldOf("content_block_start", b)'
    <3>1. PICK p \in Of(reply, "content_block_start", b) : p <= pos
      BY <1>2 DEF BlockInv, ToldOf
    <3>2. p <= pos + 1
      BY <2>2, <3>1, OfFacts
    <3> QED BY <1>1, <2>1, <3>1, <3>2 DEF ToldOf
  <2>4. ~ToldOf("content_block_stop", b)'
    BY <1>1, <1>3, <2>1 DEF ToldOf
  <2>5. Taken(b, m + 1)'
    BY <1>1, <1>3, <2>1 DEF Taken
  <2>6. response'.blocks[b].kind = response.blocks[b].kind
    BY <1>4, <1>7, <1>8
  <2>7. b \in DOMAIN reply.blocks /\ response.blocks[b].kind = reply.blocks[b].kind
        /\ reply.blocks[b].kind # Unknown
    BY <1>2 DEF BlockInv
  <2>8. \E k \in 0..reply'.blocks[b].parts : response'.blocks[b].data = Row(b, k) /\ Taken(b, k)'
    BY <1>1, <1>3, <1>7, <1>8, <2>5
  <2> QED BY <1>1, <1>3, <2>3, <2>4, <2>6, <2>7, <2>8 DEF BlockInv
<1>11. ASSUME NEW c \in 1..Len(response.blocks), c # b PROVE BlockInv(c)'
  BY <1>1, <1>8, <1>11, KeepBlock
<1> QED BY <1>8, <1>9, <1>10, <1>11

LEMMA ContentBlockDeltaStep ==
    ASSUME RepliesAreReplies, MessagesIInv, ContentBlockDelta PROVE MessagesIInv'
<1>1. Scan("delta") /\ UNCHANGED streamed
  BY DEF ContentBlockDelta
<1>2. /\ reader = "scan" /\ pos < cut /\ pos' = pos + 1 /\ Current.type = "delta"
      /\ UNCHANGED <<reply, streaming, cut, caller, last, result, choice, replayed>> /\ TypeInv
  BY <1>1, ScanFacts
<1>3. CASE Opened(Current.block) /\ response.blocks[Current.block].kind = Current.kind
  <2>1. PICK b : b = Current.block
    OBVIOUS
  <2>2. PICK v : v = [response.blocks[b] EXCEPT !.data = Append(@, Part(Current))]
    OBVIOUS
  <2>3. response' = [response EXCEPT !.blocks = [@ EXCEPT ![b] = v]]
    BY <1>3, <2>1, <2>2 DEF ContentBlockDelta
  <2>4. /\ response' \in ResponseType /\ response'.stop = response.stop
        /\ OpenedInv' /\ \A c \in 1..Len(response'.blocks) : BlockInv(c)'
    BY <1>1, <1>3, <2>1, <2>2, <2>3, AddPart
  <2>5. reader' = IF Shown(Current.kind) THEN "func" ELSE "scan"
    BY <1>2, <1>3 DEF ContentBlockDelta
  <2> QED BY <1>1, <2>4, <2>5, ScanStep
<1>4. CASE ~(Opened(Current.block) /\ response.blocks[Current.block].kind = Current.kind)
  <2>1. reader' = "send error" /\ UNCHANGED response
    BY <1>4 DEF ContentBlockDelta
  <2> QED BY <1>1, <1>2, <2>1, FailedKeeps
<1> QED BY <1>3, <1>4

\* The JSON of a tool, parsed at the stop of its block.
LEMMA ParsedInput ==
    ASSUME RepliesAreReplies, MessagesIInv, Scan("content_block_stop"), Opened(Current.block),
           NEW b, b = Current.block, NEW v,
           v = [response.blocks[b] EXCEPT !.input = response.blocks[b].data],
           response' = [response EXCEPT !.blocks = [@ EXCEPT ![b] = v]]
    PROVE  /\ response' \in ResponseType /\ response'.stop = response.stop
           /\ OpenedInv' /\ \A c \in 1..Len(response'.blocks) : BlockInv(c)'
<1>1. /\ pos < cut /\ pos' = pos + 1 /\ Current.type = "content_block_stop" /\ reply' = reply
      /\ TypeInv /\ OpenedInv
      /\ \A c \in 1..Len(response.blocks) : BlockInv(c)
  BY ScanFacts
<1>2. b \in 1..Len(response.blocks) /\ BlockInv(b) /\ b \in Nat
  BY <1>1, OpenedFacts DEF Tells
<1>3. PICK o : o = response.blocks[b]
  OBVIOUS
<1>4. o \in AssembledType
  BY <1>1, <1>2, <1>3, ResponseFacts
<1>5. v.kind = o.kind /\ v.data = o.data /\ v.input = o.data /\ v \in AssembledType
  <2>1. v = [o EXCEPT !.input = o.data]
    BY <1>3
  <2> QED BY <1>4, <2>1 DEF AssembledType
<1>6. /\ response' \in ResponseType /\ response'.stop = response.stop
      /\ Len(response'.blocks) = Len(response.blocks)
      /\ response'.blocks[b] = v
      /\ \A c \in 1..Len(response.blocks) : c # b => response'.blocks[c] = response.blocks[c]
  BY <1>1, <1>2, <1>5, UpdateBlock
<1>7. OpenedInv'
  BY <1>1, <1>2, <1>6, Told
<1>8. BlockInv(b)'
  <2>1. /\ response'.blocks[b].kind = response.blocks[b].kind
        /\ response'.blocks[b].data = response.blocks[b].data
        /\ response'.blocks[b].input = response'.blocks[b].data
    BY <1>3, <1>5, <1>6
  <2> QED BY <1>1, <1>2, <2>1, SameParts
<1>9. ASSUME NEW c \in 1..Len(response.blocks), c # b PROVE BlockInv(c)'
  BY <1>1, <1>6, <1>9, KeepBlock
<1> QED BY <1>6, <1>7, <1>8, <1>9

LEMMA ContentBlockStopStep ==
    ASSUME RepliesAreReplies, MessagesIInv, ContentBlockStop PROVE MessagesIInv'
<1>1. Scan("content_block_stop") /\ UNCHANGED streamed
  BY DEF ContentBlockStop
<1>2. /\ reader = "scan" /\ pos < cut /\ pos' = pos + 1 /\ Current.type = "content_block_stop"
      /\ UNCHANGED <<reply, streaming, cut, caller, last, result, choice, replayed>>
      /\ TypeInv /\ \A c \in 1..Len(response.blocks) : BlockInv(c)
  BY <1>1, ScanFacts
<1>3. PICK b : b = Current.block
  OBVIOUS
<1>4. CASE ~Opened(b) \/ (response.blocks[b].kind = "tool_use" /\ ~reply.blocks[b].json)
  <2>1. reader' = "send error" /\ UNCHANGED response
    BY <1>3, <1>4 DEF ContentBlockStop
  <2> QED BY <1>1, <1>2, <2>1, FailedKeeps
<1>5. CASE /\ ~(~Opened(b) \/ (response.blocks[b].kind = "tool_use" /\ ~reply.blocks[b].json))
           /\ response.blocks[b].kind # "tool_use"
  <2>1. reader' = "scan" /\ UNCHANGED response
    BY <1>2, <1>3, <1>5 DEF ContentBlockStop
  <2>2. b \in 1..Len(response.blocks)
    BY <1>2, <1>3, <1>5, OpenedFacts DEF Tells
  <2>3. reply.blocks[b].kind # "tool_use"
    BY <1>2, <1>5, <2>2 DEF BlockInv
  <2> QED BY <1>1, <1>3, <2>1, <2>2, <2>3, GoesOn
<1>6. CASE /\ ~(~Opened(b) \/ (response.blocks[b].kind = "tool_use" /\ ~reply.blocks[b].json))
           /\ response.blocks[b].kind = "tool_use"
  <2>1. PICK v : v = [response.blocks[b] EXCEPT !.input = response.blocks[b].data]
    OBVIOUS
  <2>2. reader' = "scan" /\ response' = [response EXCEPT !.blocks = [@ EXCEPT ![b] = v]]
    BY <1>2, <1>3, <1>6, <2>1 DEF ContentBlockStop
  <2>3. /\ response' \in ResponseType /\ response'.stop = response.stop
        /\ OpenedInv' /\ \A c \in 1..Len(response'.blocks) : BlockInv(c)'
    BY <1>1, <1>3, <1>6, <2>1, <2>2, ParsedInput
  <2> QED BY <1>1, <2>2, <2>3, ScanStep
<1> QED BY <1>4, <1>5, <1>6

\* The part of a delta of text or thinking.
LEMMA ShownPart ==
    ASSUME RepliesAreReplies, TypeInv, NEW p \in ShownUpto(pos)
    PROVE  /\ p \in 1..pos /\ p \in Nat /\ p \in DOMAIN reply.events
           /\ Tells(Ev(p)) /\ Ev(p).type = "delta"
           /\ Part(Ev(p)) = <<Ev(p).block, Ev(p).part>>
           /\ Part(Ev(p)) \in Display /\ Part(Ev(p)) \in PartIds
           /\ Phase(Ev(p)) = Ev(p).part
           /\ Ev(p).block \in Nat /\ Ev(p).part \in Nat
           /\ Ev(p).block \in DOMAIN reply.blocks
<1>1. p \in 1..pos /\ Ev(p).type = "delta" /\ Shown(Ev(p).kind)
  BY DEF ShownUpto
<1>2. p \in Nat /\ p \in DOMAIN reply.events /\ reply \in Replies /\ MaxParts \in Nat /\ MaxBlocks \in Nat
  BY <1>1, StateFacts, ReplyFacts
<1>3. Tells(Ev(p))
  BY <1>1 DEF Tells
<1>4. /\ Ev(p).block \in DOMAIN reply.blocks /\ Ev(p).kind = reply.blocks[Ev(p).block].kind
      /\ Ev(p).part \in 1..reply.blocks[Ev(p).block].parts /\ Ev(p).block \in Nat
      /\ Ev(p).part \in Nat /\ Ev(p).part <= MaxParts
  BY <1>1, <1>2, <1>3, EventFacts
<1>5. Ev(p).block \in 1..MaxBlocks
  BY <1>2, <1>4, BlockFacts
<1>6. Part(Ev(p)) = <<Ev(p).block, Ev(p).part>> /\ Part(Ev(p)) \in PartIds
  BY <1>2, <1>4, <1>5 DEF Part, PartIds
<1>7. Part(Ev(p)) \in Display
  BY <1>1, <1>4, <1>6 DEF Display
<1>8. Phase(Ev(p)) = Ev(p).part
  BY <1>1, <1>2, PhaseFacts
<1> QED BY <1>1, <1>2, <1>3, <1>4, <1>6, <1>7, <1>8

\* Of the parts of text and thinking, those before one that was told were told.
LEMMA ShownBefore ==
    ASSUME RepliesAreReplies, TypeInv, OpenedInv, NEW p \in ShownUpto(pos),
           \A b \in 1..Len(response.blocks) : BlockInv(b),
           NEW x \in Display, Precedes(x, Part(Ev(p)))
    PROVE  \E q \in ShownUpto(pos) : q < p /\ Part(Ev(q)) = x
<1>1. /\ p \in 1..pos /\ p \in Nat /\ p \in DOMAIN reply.events /\ Tells(Ev(p))
      /\ Part(Ev(p)) = <<Ev(p).block, Ev(p).part>> /\ Phase(Ev(p)) = Ev(p).part
      /\ Ev(p).block \in Nat /\ Ev(p).part \in Nat
  BY ShownPart
<1>2. /\ x \in PartIds /\ x[1] \in DOMAIN reply.blocks /\ Shown(reply.blocks[x[1]].kind)
      /\ x[2] \in 1..reply.blocks[x[1]].parts
  BY DEF Display
<1>3. reply \in Replies /\ MaxParts \in Nat /\ pos \in Nat
  BY StateFacts, ReplyFacts
<1>4. x = <<x[1], x[2]>> /\ x[1] \in Nat /\ x[2] \in Nat /\ x[1] \in 1..Len(reply.blocks)
  BY <1>2, <1>3, BlockFacts DEF PartIds
<1>5. x[1] < Ev(p).block \/ (x[1] = Ev(p).block /\ x[2] < Ev(p).part)
  BY <1>1 DEF Precedes
<1>6. x[1] \in 1..Len(response.blocks)
  <2>1. Ev(p).block \in 1..Len(response.blocks) /\ Len(response.blocks) \in Nat
    BY <1>1, ResponseFacts DEF OpenedInv
  <2> QED BY <1>1, <1>4, <1>5, <2>1
<1>7. Of(reply, "content_block_start", x[1]) # {}
  BY <1>6 DEF BlockInv, ToldOf
<1>8. reply.blocks[x[1]].kind # "redacted_thinking"
  BY <1>2 DEF Shown
<1>9. PICK q \in Of(reply, "delta", x[1]) : Ev(q).part = x[2]
  BY <1>2, <1>3, <1>7, <1>8, CompleteFacts
<1>10. /\ q \in DOMAIN reply.events /\ Ev(q).type = "delta" /\ Ev(q).block = x[1] /\ Tells(Ev(q))
       /\ q \in Nat /\ q >= 1
  BY <1>3, <1>9, OfFacts, EventFacts
<1>11. Phase(Ev(q)) = x[2]
  BY <1>3, <1>9, <1>10, PhaseFacts
<1>12. Before(Ev(q), Ev(p))
  BY <1>1, <1>5, <1>10, <1>11 DEF Before
<1>13. q < p
  BY <1>1, <1>3, <1>10, <1>12, InOrderFacts
<1>14. q \in 1..pos
  BY <1>1, <1>3, <1>10, <1>13
<1>15. Shown(Ev(q).kind)
  BY <1>2, <1>3, <1>10, EventFacts
<1>16. Part(Ev(q)) = x
  BY <1>4, <1>9, <1>10 DEF Part
<1> QED BY <1>10, <1>13, <1>14, <1>15, <1>16 DEF ShownUpto

\* A part of text or thinking shown follows those shown before it.
LEMMA ShownInOrder ==
    ASSUME RepliesAreReplies, TypeInv, NEW p \in ShownUpto(pos), NEW q \in ShownUpto(pos), q < p
    PROVE  Precedes(Part(Ev(q)), Part(Ev(p)))
<1>1. /\ p \in DOMAIN reply.events /\ Tells(Ev(p))
      /\ Part(Ev(p)) = <<Ev(p).block, Ev(p).part>> /\ Phase(Ev(p)) = Ev(p).part
  BY ShownPart
<1>2. /\ q \in DOMAIN reply.events /\ Tells(Ev(q))
      /\ Part(Ev(q)) = <<Ev(q).block, Ev(q).part>> /\ Phase(Ev(q)) = Ev(q).part
  BY ShownPart
<1>3. Before(Ev(q), Ev(p))
  BY <1>1, <1>2, StateFacts, InOrderFacts
<1> QED BY <1>1, <1>2, <1>3 DEF Before, Precedes

LEMMA TookOne ==
    ASSUME RepliesAreReplies, MessagesIInv, reader = "func", NEW S, NEW t,
           S = ToSet(streamed), t = Append(streamed, Part(Ev(pos)))
    PROVE  /\ t \in Seq(PartIds) /\ ToSet(t) = Took(pos)
           /\ S \subseteq ToSet(t)
           /\ \A i, j \in DOMAIN t : i < j => Precedes(t[i], t[j])
           /\ ToSet(t) \subseteq Display
           /\ \A x \in Display, y \in ToSet(t) : Precedes(x, y) => x \in ToSet(t)
<1>1. /\ TypeInv /\ OpenedInv /\ \A b \in 1..Len(response.blocks) : BlockInv(b)
      /\ S = Took(pos - 1) /\ pos \in ShownUpto(pos) /\ streamed \in Seq(PartIds)
      /\ StreamedInv
  BY DEF MessagesIInv, AssembledInv, Going, ShownInv, ReaderInv, TypeInv
<1>2. pos \in Nat /\ Part(Ev(pos)) \in PartIds /\ Part(Ev(pos)) \in Display
  BY <1>1, ShownPart
<1>3. PICK x : x = Part(Ev(pos))
  OBVIOUS
<1>4. /\ t \in Seq(PartIds) /\ Len(streamed) \in Nat
      /\ DOMAIN streamed = 1..Len(streamed) /\ DOMAIN t = 1..Len(streamed) \cup {Len(streamed) + 1}
      /\ t[Len(streamed) + 1] = x /\ \A i \in 1..Len(streamed) : t[i] = streamed[i]
  <2>1. t = Append(streamed, x) /\ x \in PartIds /\ streamed \in Seq(PartIds)
    BY <1>1, <1>2, <1>3
  <2> QED BY ONLY <2>1, AppendIs
<1>5. ToSet(t) = S \cup {x}
  <2>1. ToSet(t) = ToSet(streamed) \cup {x}
    BY ONLY <1>4 DEF ToSet
  <2> QED BY <2>1
<1>6. \A q : q \in ShownUpto(pos) <=> q \in ShownUpto(pos - 1) \/ q = pos
  <2>1. \A q : q \in 1..pos <=> q \in 1..(pos - 1) \/ q = pos
    BY <1>1, <1>2, ShownPart
  <2> QED BY <1>1, <2>1 DEF ShownUpto
<1>7. ToSet(t) = Took(pos)
  BY <1>1, <1>3, <1>5, <1>6 DEF Took
<1>8. ASSUME NEW y \in S PROVE Precedes(y, x)
  <2>1. PICK q \in ShownUpto(pos - 1) : y = Part(Ev(q))
    BY <1>1, <1>8 DEF Took
  <2>2. q \in ShownUpto(pos) /\ q < pos
    <3>1. q \in 1..(pos - 1)
      BY <2>1 DEF ShownUpto
    <3> QED BY <1>2, <1>6, <3>1
  <2> QED BY <1>1, <1>3, <2>1, <2>2, ShownInOrder
<1>9. ASSUME NEW i \in DOMAIN t, NEW j \in DOMAIN t, i < j PROVE Precedes(t[i], t[j])
  <2>1. i \in 1..Len(streamed)
    BY <1>4, <1>9
  <2>2. CASE j \in 1..Len(streamed)
    BY <1>1, <1>4, <1>9, <2>1, <2>2 DEF StreamedInv
  <2>3. CASE j = Len(streamed) + 1
    <3>1. streamed[i] \in S
      BY <1>4, <2>1 DEF ToSet
    <3> QED BY <1>4, <1>8, <2>1, <2>3, <3>1
  <2> QED BY <1>4, <2>2, <2>3
<1>10. ToSet(t) \subseteq Display
  BY <1>1, <1>2, <1>3, <1>5 DEF StreamedInv
<1>11. ASSUME NEW z \in Display, NEW y \in ToSet(t), Precedes(z, y) PROVE z \in ToSet(t)
  <2>1. CASE y \in S
    BY <1>1, <1>5, <1>11, <2>1 DEF StreamedInv
  <2>2. CASE y = x
    <3>1. PICK q \in ShownUpto(pos) : q < pos /\ Part(Ev(q)) = z
      BY <1>1, <1>3, <1>11, <2>2, ShownBefore
    <3> QED BY <1>7, <3>1 DEF Took
  <2> QED BY <1>5, <2>1, <2>2
<1> QED BY <1>4, <1>5, <1>7, <1>9, <1>10, <1>11

LEMMA StreamingFuncStep ==
    ASSUME RepliesAreReplies, MessagesIInv, StreamingFunc PROVE MessagesIInv'
<1>1. /\ reader = "func" /\ pos' = pos
      /\ UNCHANGED <<reply, streaming, cut, response, caller, last, result, choice, replayed>>
  BY DEF StreamingFunc, server
<1>2. CASE reader' = "send error" /\ UNCHANGED streamed
  BY <1>1, <1>2, FailedKeeps
<1>3. CASE reader' = "scan" /\ streamed' = Append(streamed, Part(reply.events[pos]))
  <2>1. PICK t, S : t = Append(streamed, Part(Ev(pos))) /\ S = ToSet(streamed)
    OBVIOUS
  <2>2. streamed' = t
    BY <1>3, <2>1 DEF Ev
  <2>3. /\ t \in Seq(PartIds) /\ ToSet(t) = Took(pos)
        /\ S \subseteq ToSet(t)
        /\ \A i, j \in DOMAIN t : i < j => Precedes(t[i], t[j])
        /\ ToSet(t) \subseteq Display
        /\ \A x \in Display, y \in ToSet(t) : Precedes(x, y) => x \in ToSet(t)
    BY <1>1, <2>1, TookOne
  <2>4. /\ \A n : Took(n)' = Took(n)
        /\ Display' = Display
        /\ \A b : Says(b)' = Says(b)
        /\ \A p : Ev(p)' = Ev(p)
        /\ \A type, b : Of(reply', type, b) = Of(reply, type, b)
    BY <1>1, ViewStep
  <2>5. TypeInv'
    BY <1>1, <1>3, <2>2, <2>3 DEF MessagesIInv, TypeInv
  <2>6. ReaderInv'
    BY <1>1, <1>3 DEF MessagesIInv, ReaderInv
  <2>7. AssembledInv'
    <3>1. OpenedInv /\ StopInv /\ \A b \in 1..Len(response.blocks) : BlockInv(b)
      BY <1>1 DEF MessagesIInv, AssembledInv, Going
    <3>2. OpenedInv' /\ StopInv'
      BY <1>1, <2>4, <3>1 DEF OpenedInv, StopInv, Tells
    <3>3. ASSUME NEW b \in 1..Len(response.blocks) PROVE BlockInv(b)'
      BY <1>1, <2>4, <3>1 DEF BlockInv, ToldOf, Taken
    <3> QED BY <1>1, <3>2, <3>3 DEF AssembledInv
  <2>8. ShownInv'
    <3>1. ToSet(streamed') = Took(pos)'
      BY <1>1, <2>2, <2>3, <2>4
    <3> QED BY <1>3, <3>1 DEF ShownInv
  <2>9. StreamedInv'
    BY <2>2, <2>3, <2>4 DEF StreamedInv
  <2>10. LastInv'
    BY <1>1, <2>1, <2>2, <2>3, <2>4 DEF MessagesIInv, LastInv, Whole
  <2>11. AnswerInv'
    BY <1>1 DEF MessagesIInv, AnswerInv
  <2> QED BY <2>5, <2>6, <2>7, <2>8, <2>9, <2>10, <2>11 DEF MessagesIInv
<1> QED BY <1>2, <1>3 DEF StreamingFunc

------------------------------------------------------------------------------
\* The steps of the caller.

\* At message_stop everything was told: the message is whole, and was shown.
LEMMA WholeFromStream ==
    ASSUME RepliesAreReplies, MessagesIInv, reader = "send"
    PROVE  Whole(response) /\ Display \subseteq ToSet(streamed)
<1>1. /\ TypeInv /\ OpenedInv /\ StopInv /\ \A b \in 1..Len(response.blocks) : BlockInv(b)
      /\ ToSet(streamed) = Took(pos) /\ pos \in 1..pos /\ Ev(pos).type = "message_stop"
  BY DEF MessagesIInv, AssembledInv, Going, ShownInv, ReaderInv
<1>2. /\ reply \in Replies /\ pos \in Nat /\ pos \in DOMAIN reply.events
      /\ \A p \in DOMAIN reply.events : p \in Nat /\ p >= 1
  BY <1>1, StateFacts, EventFacts
<1>3. /\ \A p \in DOMAIN reply.events : Tells(Ev(p)) => p < pos
      /\ \E p \in 1..(pos - 1) : Ev(p).type = "message_delta"
  BY <1>1, <1>2, CompleteFacts
<1>4. response.stop = reply.stop
  <2>1. PICK p \in 1..(pos - 1) : Ev(p).type = "message_delta"
    BY <1>3
  <2>2. p \in 1..pos
    BY <1>2, <2>1
  <2> QED BY <1>1, <2>1, <2>2 DEF StopInv
<1>5. ASSUME NEW b \in DOMAIN reply.blocks PROVE b \in 1..Len(response.blocks)
  <2>1. PICK q : q \in Of(reply, "content_block_stop", b)
    BY <1>2, CompleteFacts
  <2>2. q \in DOMAIN reply.events /\ Tells(Ev(q)) /\ Ev(q).block = b
    BY <2>1, OfFacts
  <2>3. q \in 1..pos
    BY <1>2, <1>3, <2>2
  <2> QED BY <1>1, <2>2, <2>3 DEF OpenedInv
<1>6. DOMAIN response.blocks = DOMAIN reply.blocks
  <2>1. \A b \in 1..Len(response.blocks) : b \in DOMAIN reply.blocks
    BY <1>1 DEF BlockInv
  <2> QED BY <1>1, <1>5, <2>1, ResponseFacts
<1>7. ASSUME NEW b \in DOMAIN reply.blocks
      PROVE  /\ response.blocks[b].kind = reply.blocks[b].kind
             /\ response.blocks[b].data = Says(b)
             /\ reply.blocks[b].kind = "tool_use" => response.blocks[b].input = Says(b)
  <2>1. BlockInv(b)
    BY <1>1, <1>5
  <2>2. reply.blocks[b].parts \in Nat
        /\ (reply.blocks[b].kind = "redacted_thinking" => reply.blocks[b].parts = 1)
    BY <1>2, BlockFacts
  <2>3. Says(b) = Row(b, reply.blocks[b].parts)
    BY DEF Says, Row
  <2>4. response.blocks[b].data = Says(b)
    <3>1. CASE reply.blocks[b].kind = "redacted_thinking"
      BY <2>1, <2>2, <2>3, <3>1 DEF BlockInv
    <3>2. CASE reply.blocks[b].kind # "redacted_thinking"
      <4>1. PICK m \in 0..reply.blocks[b].parts :
                response.blocks[b].data = Row(b, m) /\ Taken(b, m)
        BY <2>1, <3>2 DEF BlockInv
      <4>2. ASSUME reply.blocks[b].parts # 0 PROVE reply.blocks[b].parts <= m
        <5>1. reply.blocks[b].parts \in 1..reply.blocks[b].parts
          BY <2>2, <4>2
        <5>2. Of(reply, "content_block_start", b) # {}
          BY <2>1 DEF BlockInv, ToldOf
        <5>3. PICK q \in Of(reply, "delta", b) : Ev(q).part = reply.blocks[b].parts
          BY <1>2, <3>2, <5>1, <5>2, CompleteFacts
        <5>4. q <= pos
          BY <1>2, <1>3, <5>3, OfFacts
        <5> QED BY <4>1, <5>3, <5>4 DEF Taken
      <4>3. m = reply.blocks[b].parts
        BY <2>2, <4>1, <4>2
      <4> QED BY <2>3, <4>1, <4>3
    <3> QED BY <3>1, <3>2
  <2>5. ToldOf("content_block_stop", b)
    <3>1. PICK q : q \in Of(reply, "content_block_stop", b)
      BY <1>2, CompleteFacts
    <3>2. q <= pos
      BY <1>2, <1>3, <3>1, OfFacts
    <3> QED BY <3>1, <3>2 DEF ToldOf
  <2>6. reply.blocks[b].kind = "tool_use" => response.blocks[b].input = Says(b)
    BY <2>1, <2>4, <2>5 DEF BlockInv
  <2>7. response.blocks[b].kind = reply.blocks[b].kind
    BY <2>1 DEF BlockInv
  <2> QED BY <2>4, <2>6, <2>7
<1>7a. reply.blocks = <<>> => response.blocks = <<>>
  <2> SUFFICES ASSUME reply.blocks = <<>> PROVE response.blocks = <<>>
    OBVIOUS
  <2>1. DOMAIN response.blocks = {} /\ response.blocks \in Seq(AssembledType)
    BY <1>1, <1>6, NothingYet, ResponseFacts
  <2> QED BY <2>1, EmptyIs
<1>8. Whole(response)
  BY <1>4, <1>6, <1>7, <1>7a DEF Whole
<1>9. ASSUME NEW x \in Display PROVE x \in Took(pos)
  <2>1. /\ x \in PartIds /\ x[1] \in DOMAIN reply.blocks /\ Shown(reply.blocks[x[1]].kind)
        /\ x[2] \in 1..reply.blocks[x[1]].parts
    BY DEF Display
  <2>2. x = <<x[1], x[2]>>
    BY <2>1 DEF PartIds
  <2>3. Of(reply, "content_block_start", x[1]) # {}
    BY <1>1, <1>5, <2>1 DEF BlockInv, ToldOf
  <2>4. reply.blocks[x[1]].kind # "redacted_thinking"
    BY <2>1 DEF Shown
  <2>5. PICK q \in Of(reply, "delta", x[1]) : Ev(q).part = x[2]
    BY <1>2, <2>1, <2>3, <2>4, CompleteFacts
  <2>6. q \in DOMAIN reply.events /\ Ev(q).type = "delta" /\ Ev(q).block = x[1] /\ Tells(Ev(q))
    BY <2>5, OfFacts
  <2>7. q \in 1..pos
    BY <1>2, <1>3, <2>6
  <2>8. Shown(Ev(q).kind)
    BY <1>2, <2>1, <2>6, EventFacts
  <2>9. Part(Ev(q)) = x
    BY <2>2, <2>5, <2>6 DEF Part
  <2> QED BY <2>6, <2>7, <2>8, <2>9 DEF ShownUpto, Took
<1> QED BY <1>1, <1>8, <1>9

\* What the caller keeps of the goroutine.
LEMMA CallerKeeps ==
    ASSUME UNCHANGED <<reply, streaming, cut, pos, response, streamed>>
    PROVE  /\ StreamedInv => StreamedInv'
           /\ OpenedInv' <=> OpenedInv
           /\ StopInv' <=> StopInv
           /\ \A b : BlockInv(b) => BlockInv(b)'
           /\ \A n : Took(n)' = Took(n)
           /\ \A n : ShownUpto(n)' = ShownUpto(n)
           /\ \A m : Whole(m) => Whole(m)'
           /\ Display' = Display
<1>1. /\ \A p : Ev(p)' = Ev(p)
      /\ \A type, b : Of(reply', type, b) = Of(reply, type, b)
      /\ \A n : ShownUpto(n)' = ShownUpto(n)
      /\ \A n : Took(n)' = Took(n)
      /\ Display' = Display
      /\ \A b : Says(b)' = Says(b)
  BY ViewStep
<1>2. StreamedInv => StreamedInv'
  BY <1>1 DEF StreamedInv
<1>3. OpenedInv' <=> OpenedInv
  BY <1>1 DEF OpenedInv, Tells
<1>4. StopInv' <=> StopInv
  BY <1>1 DEF StopInv
<1>5. ASSUME NEW b, BlockInv(b) PROVE BlockInv(b)'
  BY <1>1, <1>5 DEF BlockInv, ToldOf, Taken
<1>6. ASSUME NEW m, Whole(m) PROVE Whole(m)'
  BY <1>1, <1>6 DEF Whole
<1> QED BY <1>1, <1>2, <1>3, <1>4, <1>5, <1>6

\* The goroutine is where it was, and so is what it shows.
LEMMA GoroutineKept ==
    ASSUME MessagesIInv, UNCHANGED <<reply, streaming, cut, pos, response, streamed>>,
           \/ reader' = reader
           \/ reader = "send" /\ reader' = "scan"
           \/ reader = "not started" /\ streaming /\ reader' = "scan"
           \/ reader = "send error" /\ reader' = "closed"
    PROVE  TypeInv' /\ ReaderInv' /\ AssembledInv' /\ ShownInv' /\ StreamedInv'
<1>1. /\ StreamedInv => StreamedInv'
      /\ OpenedInv' <=> OpenedInv
      /\ StopInv' <=> StopInv
      /\ \A b : BlockInv(b) => BlockInv(b)'
      /\ \A n : Took(n)' = Took(n)
      /\ \A n : ShownUpto(n)' = ShownUpto(n)
  BY CallerKeeps
<1>2. TypeInv /\ ReaderInv /\ AssembledInv /\ ShownInv /\ StreamedInv
  BY DEF MessagesIInv
<1>3. TypeInv'
  BY <1>2 DEF TypeInv
<1>4. CASE reader = "not started" /\ reader' = "scan" /\ streaming
  <2>1. pos = 0 /\ response = EmptyResponse /\ streamed = <<>>
    BY <1>2, <1>4 DEF ReaderInv
  <2>2. \A p : p \notin 1..pos
    BY <2>1, NothingYet
  <2>3. OpenedInv /\ StopInv /\ ShownUpto(pos) = {}
    BY <2>2 DEF OpenedInv, StopInv, ShownUpto
  <2>4. \A b : b \notin 1..Len(response.blocks)
    <3>1. response.blocks = <<>>
      BY <2>1 DEF EmptyResponse
    <3>2. Len(response.blocks) = 0
      BY <3>1, NothingYet
    <3> QED BY <3>2, NothingYet
  <2>5. ToSet(streamed) = {} /\ Took(pos) = {}
    <3>1. ToSet(streamed) = {}
      BY <2>1, NothingYet
    <3>2. Took(pos) = {}
      BY <2>3 DEF Took
    <3> QED BY <3>1, <3>2
  <2>6. AssembledInv'
    BY <1>1, <2>3, <2>4 DEF AssembledInv
  <2>7. ToSet(streamed') = Took(pos)'
    BY <1>1, <2>5
  <2>8. ShownInv'
    BY <1>4, <2>7 DEF ShownInv
  <2>9. ReaderInv'
    BY <1>4 DEF ReaderInv
  <2> QED BY <1>1, <1>2, <1>3, <2>6, <2>8, <2>9
<1>5. CASE reader' = reader
  <2>1. AssembledInv'
    BY <1>1, <1>2, <1>5 DEF AssembledInv, Going
  <2>2. ShownInv'
    BY <1>1, <1>2, <1>5 DEF ShownInv
  <2>3. ReaderInv'
    BY <1>1, <1>2, <1>5 DEF ReaderInv, Ev
  <2> QED BY <1>1, <1>2, <1>3, <2>1, <2>2, <2>3
<1>6. CASE reader = "send" /\ reader' = "scan"
  <2>1. AssembledInv'
    BY <1>1, <1>2, <1>6 DEF AssembledInv, Going
  <2>2. ToSet(streamed') = Took(pos)'
    BY <1>1, <1>2, <1>6 DEF ShownInv
  <2>3. ShownInv'
    BY <1>6, <2>2 DEF ShownInv
  <2>4. ReaderInv'
    BY <1>2, <1>6 DEF ReaderInv
  <2> QED BY <1>1, <1>2, <1>3, <2>1, <2>3, <2>4
<1>7. CASE reader = "send error" /\ reader' = "closed"
  BY <1>1, <1>2, <1>3, <1>7 DEF AssembledInv, Going, ShownInv, ReaderInv
<1> QED BY <1>4, <1>5, <1>6, <1>7

LEMMA LastKept ==
    ASSUME MessagesIInv, UNCHANGED <<reply, streaming, cut, pos, response, streamed, last>>
    PROVE  LastInv'
BY CallerKeeps DEF MessagesIInv, LastInv

LEMMA RequestStep ==
    ASSUME MessagesIInv, Request \/ RequestFails PROVE MessagesIInv'
<1>1. /\ UNCHANGED <<reply, streaming, cut, pos, response, streamed, last, choice, replayed>>
      /\ caller = "request"
  BY DEF Request, RequestFails, server
<1>2. reader = "not started" /\ result = "none"
  BY <1>1 DEF MessagesIInv, AnswerInv
<1>3. /\ reader' = reader \/ (streaming /\ reader' = "scan")
      /\ caller' \in {"receive", "decode", "returned"}
      /\ caller' = "decode" => ~streaming
      /\ caller' = "returned" => result' = "request"
      /\ caller' # "returned" => result' = result
  BY DEF Request, RequestFails
<1>4. AnswerInv'
  BY <1>1, <1>2, <1>3 DEF AnswerInv
<1> QED BY <1>1, <1>2, <1>3, <1>4, GoroutineKept, LastKept DEF MessagesIInv

LEMMA DecodedWhole == Whole(Decoded)
<1>1. Decoded.stop = reply.stop /\ DOMAIN Decoded.blocks = DOMAIN reply.blocks
  BY DEF Decoded
<1>2. ASSUME NEW b \in DOMAIN reply.blocks
      PROVE  /\ Decoded.blocks[b].kind = reply.blocks[b].kind
             /\ (IF Decoded.blocks[b].kind = "tool_use" THEN Decoded.blocks[b].input
                                                        ELSE Decoded.blocks[b].data) = Says(b)
  BY DEF Decoded, Says
<1>3. reply.blocks = <<>> => Decoded.blocks = <<>>
  <2> SUFFICES ASSUME reply.blocks = <<>> PROVE Decoded.blocks = <<>>
    OBVIOUS
  <2>1. DOMAIN Decoded.blocks = 1..0
    BY <1>1, NothingYet
  <2>2. Decoded.blocks = [i \in DOMAIN Decoded.blocks |-> Decoded.blocks[i]]
    BY DEF Decoded
  <2> QED BY <2>1, <2>2
<1> QED BY <1>1, <1>2, <1>3 DEF Whole

LEMMA DecodeStep ==
    ASSUME MessagesIInv, Decode PROVE MessagesIInv'
<1>1. /\ UNCHANGED <<reply, streaming, cut, pos, response, streamed, reader, choice, replayed, result>>
      /\ caller = "decode" /\ caller' = "process" /\ last' = Decoded
  BY DEF Decode, server
<1>2. ~streaming /\ result = "none"
  BY <1>1 DEF MessagesIInv, AnswerInv
<1>3. PICK d : d = Decoded
  OBVIOUS
<1>4. Whole(d)'
  BY <1>1, <1>3, DecodedWhole, CallerKeeps
<1>5. LastInv'
  BY <1>1, <1>2, <1>3, <1>4 DEF LastInv, Whole
<1>6. AnswerInv'
  BY <1>1, <1>2 DEF AnswerInv
<1> QED BY <1>1, <1>5, <1>6, GoroutineKept DEF MessagesIInv

LEMMA DecodeFailsStep ==
    ASSUME MessagesIInv, DecodeFails PROVE MessagesIInv'
<1>1. /\ UNCHANGED <<reply, streaming, cut, pos, response, streamed, reader, last, choice, replayed>>
      /\ caller' = "returned" /\ result' = "decode"
  BY DEF DecodeFails, Fail, server
<1>2. AnswerInv'
  BY <1>1 DEF AnswerInv
<1> QED BY <1>1, <1>2, GoroutineKept, LastKept DEF MessagesIInv

LEMMA ReceiveMessageStep ==
    ASSUME RepliesAreReplies, MessagesIInv, ReceiveMessage PROVE MessagesIInv'
<1>1. /\ UNCHANGED <<reply, streaming, cut, pos, response, streamed, caller, choice, replayed, result>>
      /\ caller = "receive" /\ reader = "send" /\ reader' = "scan" /\ last' = response
  BY DEF ReceiveMessage, server
<1>2. Whole(response) /\ Display \subseteq ToSet(streamed)
  BY <1>1, WholeFromStream
<1>3. PICK m : m = response
  OBVIOUS
<1>4. Whole(m)' /\ last' = m
  BY <1>1, <1>2, <1>3, CallerKeeps
<1>5. Display' \subseteq ToSet(streamed)'
  BY <1>1, <1>2, CallerKeeps
<1>6. LastInv'
  BY <1>4, <1>5 DEF LastInv, Whole
<1>7. AnswerInv'
  BY <1>1 DEF MessagesIInv, AnswerInv
<1> QED BY <1>1, <1>6, <1>7, GoroutineKept DEF MessagesIInv

LEMMA ReceiveErrorStep ==
    ASSUME MessagesIInv, ReceiveError PROVE MessagesIInv'
<1>1. /\ UNCHANGED <<reply, streaming, cut, pos, response, streamed, last, choice, replayed>>
      /\ caller' = "returned" /\ result' = "stream"
      /\ reader = "send error" /\ reader' = "closed"
  BY DEF ReceiveError, Fail, server
<1>2. AnswerInv'
  BY <1>1 DEF AnswerInv
<1> QED BY <1>1, <1>2, GoroutineKept, LastKept DEF MessagesIInv

LEMMA ReceiveEndsStep ==
    ASSUME MessagesIInv, ReceiveEnds PROVE MessagesIInv'
<1>1. /\ UNCHANGED <<reply, streaming, cut, pos, response, streamed, reader, last, choice, replayed, result>>
      /\ caller = "receive" /\ caller' = "process"
  BY DEF ReceiveEnds, server
<1>2. AnswerInv'
  BY <1>1 DEF MessagesIInv, AnswerInv
<1> QED BY <1>1, <1>2, GoroutineKept, LastKept DEF MessagesIInv

LEMMA ProcessStep ==
    ASSUME MessagesIInv, Process \/ ProcessEmpty PROVE MessagesIInv'
<1>1. /\ UNCHANGED <<reply, streaming, cut, pos, response, streamed, reader, last, replayed>>
      /\ caller' = "returned"
  BY DEF Process, ProcessEmpty, server
<1>2. AnswerInv'
  <2>1. CASE Process
    <3>1. /\ Usable(last) /\ result' = "nil"
          /\ choice' = IF last.blocks = <<>> THEN Refusal ELSE ChoiceOf(last)
      BY <2>1 DEF Process
    <3> QED BY <1>1, <3>1 DEF AnswerInv
  <2>2. CASE ProcessEmpty
    <3>1. result' = "empty"
      BY <2>2 DEF ProcessEmpty
    <3> QED BY <1>1, <3>1 DEF AnswerInv
  <2> QED BY <2>1, <2>2
<1> QED BY <1>1, <1>2, GoroutineKept, LastKept DEF MessagesIInv

LEMMA NextRequestStep ==
    ASSUME MessagesIInv, NextRequest PROVE MessagesIInv'
<1>1. /\ UNCHANGED <<reply, streaming, cut, pos, response, streamed, reader, last, choice, result>>
      /\ caller = "returned" /\ caller' = "replied" /\ result = "nil"
      /\ replayed' = HandleAIMessage(AssistantMessage(choice))
  BY DEF NextRequest, server
<1>2. /\ Usable(last)
      /\ choice = IF last.blocks = <<>> THEN Refusal ELSE ChoiceOf(last)
  BY <1>1 DEF MessagesIInv, AnswerInv
<1>3. AnswerInv'
  BY <1>1, <1>2 DEF AnswerInv
<1> QED BY <1>1, <1>3, GoroutineKept, LastKept DEF MessagesIInv

LEMMA StutterStep ==
    ASSUME MessagesIInv, UNCHANGED <<reply, streaming, cut, pos, response, streamed, reader, caller, last,
                             result, choice, replayed>>
    PROVE  MessagesIInv'
<1>1. AnswerInv'
  BY DEF MessagesIInv, AnswerInv
<1> QED BY <1>1, GoroutineKept, LastKept DEF MessagesIInv

LEMMA InitMessagesIInv == RepliesAreReplies /\ MessagesInit => MessagesIInv
<1> SUFFICES ASSUME RepliesAreReplies, MessagesInit PROVE MessagesIInv
  OBVIOUS
<1>1. /\ reply \in Replies /\ streaming \in BOOLEAN /\ cut \in 0..Len(reply.events)
      /\ pos = 0 /\ reader = "not started" /\ response = EmptyResponse /\ streamed = <<>>
      /\ caller = "request" /\ last = Nil /\ result = "none"
  BY DEF MessagesInit
<1>2. TypeInv
  <2>1. Len(reply.events) \in Nat
    BY <1>1, EventFacts
  <2>2. pos \in 0..cut
    BY <1>1, <2>1, FromZero
  <2>3. <<>> \in Seq(AssembledType) /\ streamed \in Seq(PartIds)
    BY <1>1, <2>1, NothingYet
  <2>4. response \in ResponseType
    BY <1>1, <2>3, ResponseIs DEF EmptyResponse
  <2> QED BY <1>1, <2>2, <2>3, <2>4 DEF TypeInv
<1>3. ReaderInv /\ AssembledInv /\ ShownInv
  BY <1>1 DEF ReaderInv, AssembledInv, Going, ShownInv
<1>4. StreamedInv
  <2>1. DOMAIN streamed = {} /\ ToSet(streamed) = {}
    <3>1. Len(reply.events) \in Nat
      BY <1>1, EventFacts
    <3> QED BY <1>1, <3>1, NothingYet
  <2> QED BY <2>1 DEF StreamedInv
<1>5. LastInv /\ AnswerInv
  BY <1>1 DEF LastInv, AnswerInv
<1> QED BY <1>2, <1>3, <1>4, <1>5 DEF MessagesIInv

LEMMA StepMessagesIInv == RepliesAreReplies /\ MessagesIInv /\ [MessagesNext]_messagesVars => MessagesIInv'
<1> SUFFICES ASSUME RepliesAreReplies, MessagesIInv, [MessagesNext]_messagesVars PROVE MessagesIInv'
  OBVIOUS
<1>1. CASE ReaderStep
  BY <1>1, IgnoredStep, ContentBlockStartStep, ContentBlockDeltaStep, SignatureDeltaStep,
     StreamingFuncStep, ContentBlockStopStep, MessageDeltaStep, MessageStopStep, ScanEndsStep
  DEF ReaderStep
<1>2. CASE CallerStep
  BY <1>2, RequestStep, DecodeStep, DecodeFailsStep, ReceiveMessageStep, ReceiveErrorStep,
     ReceiveEndsStep, ProcessStep DEF CallerStep
<1>3. CASE NextRequest
  BY <1>3, NextRequestStep
<1>4. CASE Cancel
  BY <1>4, StutterStep DEF Cancel, server
<1>5. CASE Ended \/ UNCHANGED messagesVars
  BY <1>5, StutterStep DEF Ended, messagesVars, server
<1> QED BY <1>1, <1>2, <1>3, <1>4, <1>5 DEF MessagesNext

THEOREM MessagesInvariant == ASSUME RepliesAreReplies PROVE MessagesSpec => []MessagesIInv
<1>1. MessagesInit => MessagesIInv
  BY InitMessagesIInv
<1>2. MessagesIInv /\ [MessagesNext]_messagesVars => MessagesIInv'
  BY StepMessagesIInv
<1> QED BY <1>1, <1>2, PTL DEF MessagesSpec

------------------------------------------------------------------------------
\* The positions of a sequence in order.

LEMMA OrderOfMore ==
    ASSUME NEW k \in Nat, NEW U, U \subseteq 1..k, k \in U,
           NEW f \in [1..Cardinality(U \ {k}) -> U \ {k}],
           \A i, j \in 1..Cardinality(U \ {k}) : i < j => f[i] < f[j]
    PROVE  \E g \in [1..Cardinality(U) -> U] :
               \A i, j \in 1..Cardinality(U) : i < j => g[i] < g[j]
<1> DEFINE V == U \ {k}
           c == Cardinality(V)
           g == [i \in 1..Cardinality(U) |-> IF i = Cardinality(U) THEN k ELSE f[i]]
<1>1. IsFiniteSet(U)
  BY UpToFacts, FS_Subset
<1>2. IsFiniteSet(V) /\ c = Cardinality(U) - 1 /\ Cardinality(U) \in Nat /\ c \in Nat
  BY <1>1, FS_RemoveElement, FS_CardinalityType
<1>3. Cardinality(U) = c + 1
  BY <1>2
<1>4. \A i \in 1..c : f[i] \in V /\ f[i] < k
  <2>1. \A x \in V : x < k
    OBVIOUS
  <2>2. \A i \in 1..c : f[i] \in V
    OBVIOUS
  <2> QED BY <2>1, <2>2
<1> HIDE DEF c
<1>5. \A i \in 1..(c + 1) : i = c + 1 \/ i \in 1..c
  BY <1>2
<1>6. \A i \in 1..c : i # c + 1 /\ i \in 1..(c + 1)
  BY <1>2
<1>7. g \in [1..Cardinality(U) -> U]
  BY <1>3, <1>4, <1>5
<1>8. ASSUME NEW i \in 1..(c + 1), NEW j \in 1..(c + 1), i < j PROVE g[i] < g[j]
  <2>1. i \in 1..c
    BY <1>2, <1>8
  <2>2. g[i] = f[i]
    BY <1>3, <1>6, <2>1
  <2>3. CASE j = c + 1
    <3>1. g[j] = k
      BY <1>3, <2>3
    <3> QED BY <1>4, <2>1, <2>2, <3>1
  <2>4. CASE j \in 1..c
    <3>1. g[j] = f[j]
      BY <1>3, <1>6, <2>4
    <3> QED BY <1>8, <2>1, <2>2, <2>4, <3>1 DEF c
  <2> QED BY <1>5, <2>3, <2>4
<1> QED BY <1>3, <1>7, <1>8

LEMMA OrderExists ==
    ASSUME NEW n \in Nat, NEW I, I \subseteq 1..n
    PROVE  \E f \in [1..Cardinality(I) -> I] :
               \A i, j \in 1..Cardinality(I) : i < j => f[i] < f[j]
<1> DEFINE Orders(U) == \E f \in [1..Cardinality(U) -> U] :
                           \A i, j \in 1..Cardinality(U) : i < j => f[i] < f[j]
           Bad(W) == \E k \in 0..n : W = 1..k /\ \E U \in SUBSET W : ~Orders(U)
           T == {W \in SUBSET (1..n) : Bad(W)}
<1>1. IsWellFoundedOn(StrictSubsetOrdering(1..n), SUBSET (1..n))
  BY UpToFacts, FS_StrictSubsetOrderingWellFounded, FS_FiniteSubsetsOfFinite
<1>2. ASSUME T # {} PROVE FALSE
  <2>1. PICK W \in T : \A V \in T : ~ (<<V, W>> \in StrictSubsetOrdering(1..n))
    <3> HIDE DEF T
    <3>1. T \subseteq SUBSET (1..n)
      BY DEF T
    <3> QED BY <1>1, <1>2, <3>1, WFMin
  <2>2. PICK k \in 0..n : W = 1..k /\ \E U \in SUBSET W : ~Orders(U)
    BY <2>1
  <2>3. PICK U \in SUBSET (1..k) : ~Orders(U)
    BY <2>2
  <2> HIDE DEF Orders
  <2>4. CASE k = 0
    <3>1. U = {}
      BY <2>3, <2>4
    <3>2. Cardinality(U) = 0
      BY <3>1, FS_EmptySet
    <3>3. [x \in {} |-> x] \in [1..Cardinality(U) -> U]
          /\ \A i : i \notin 1..Cardinality(U)
      BY <3>1, <3>2
    <3>4. Orders(U)
      BY <3>3 DEF Orders
    <3> QED BY <2>3, <3>4
  <2>5. CASE k # 0
    <3> DEFINE V == 1..(k - 1)
    <3>1. k - 1 \in 0..n /\ V \subseteq 1..k /\ k \in 1..k /\ k \notin V /\ 1..k \subseteq 1..n
          /\ 1..k = V \cup {k} /\ k \in Nat
      BY <2>2, <2>5
    <3>2. <<V, W>> \in StrictSubsetOrdering(1..n)
      BY <2>2, <3>1 DEF StrictSubsetOrdering
    <3>3. V \notin T
      BY <2>1, <3>2
    <3>4. \A X \in SUBSET V : Orders(X)
      BY <3>1, <3>3
    <3>5. CASE k \notin U
      <4>1. U \in SUBSET V
        BY <2>3, <3>1, <3>5
      <4> QED BY <2>3, <3>4, <4>1
    <3>6. CASE k \in U
      <4>1. U \ {k} \in SUBSET V
        BY <2>3, <3>1
      <4>2. Orders(U \ {k})
        BY <3>4, <4>1
      <4>3. Orders(U)
        BY <2>3, <3>1, <3>6, <4>2, OrderOfMore DEF Orders
      <4> QED BY <2>3, <4>3
    <3> QED BY <3>5, <3>6
  <2> QED BY <2>4, <2>5
<1>3. 1..n \notin T
  BY <1>2
<1>4. n \in 0..n /\ 1..n \in SUBSET (1..n)
  OBVIOUS
<1>5. Orders(I)
  <2> HIDE DEF Orders
  <2> QED BY <1>3, <1>4
<1> QED BY <1>5

LEMMA OrderFacts ==
    ASSUME NEW n \in Nat, NEW I, I \subseteq 1..n
    PROVE  /\ Cardinality(I) \in Nat /\ (Cardinality(I) = 0 <=> I = {})
           /\ \A k \in 1..Cardinality(I) : Order(I)[k] \in I
<1>1. IsFiniteSet(I)
  BY UpToFacts, FS_Subset
<1>2. Cardinality(I) \in Nat /\ (Cardinality(I) = 0 <=> I = {})
  BY <1>1, FS_CardinalityType, FS_EmptySet
<1>3. Order(I) \in [1..Cardinality(I) -> I]
  BY OrderExists DEF Order
<1> QED BY <1>2, <1>3

------------------------------------------------------------------------------
\* What the answer, and the turn replayed, say.

\* The answer says what the message does.
LEMMA SeenExplained ==
    Seen(<<[kind |-> "text", says |-> <<Explanation>>, signed |-> FALSE]>>)
        = <<<<"text", <<Explanation>>>>>>
BY DEF Seen

LEMMA AnswerSays ==
    ASSUME RepliesAreReplies, MessagesIInv, result = "nil"
    PROVE  /\ choice.stop = reply.stop
           /\ Seen(choice.parts) = Blocks
           /\ reply.blocks = <<>> => choice = Refusal
           /\ choice.parts = <<>> => choice = Refusal
           /\ DOMAIN choice.parts = DOMAIN reply.blocks
<1>1. /\ Usable(last) /\ choice = IF last.blocks = <<>> THEN Refusal ELSE ChoiceOf(last)
      /\ last # Nil /\ Whole(last) /\ reply \in Replies
  BY DEF MessagesIInv, AnswerInv, LastInv, Usable, TypeInv
<1>2. /\ last.stop = reply.stop /\ DOMAIN last.blocks = DOMAIN reply.blocks
      /\ \A b \in DOMAIN reply.blocks :
           /\ last.blocks[b].kind = reply.blocks[b].kind
           /\ (IF last.blocks[b].kind = "tool_use" THEN last.blocks[b].input
                                                   ELSE last.blocks[b].data) = Says(b)
      /\ reply.blocks = <<>> => last.blocks = <<>>
  BY <1>1 DEF Whole
<1>3. DOMAIN Blocks = DOMAIN reply.blocks
      /\ \A b \in DOMAIN reply.blocks : Blocks[b] = <<PartKind(reply.blocks[b].kind), Says(b)>>
  BY DEF Blocks
<1>4. CASE last.blocks = <<>>
  <2>1. choice = Refusal /\ last.stop = "refusal"
    BY <1>1, <1>4 DEF Usable
  <2>2. choice.parts = <<>> /\ choice.stop = reply.stop
    BY <1>2, <2>1 DEF Refusal
  <2>3. DOMAIN Seen(choice.parts) = DOMAIN choice.parts
    BY DEF Seen
  <2>4. DOMAIN reply.blocks = {} /\ DOMAIN choice.parts = {}
    BY <1>2, <1>4, <2>2, NothingYet
  <2>5. Seen(choice.parts) = Blocks
    BY <1>3, <2>4 DEF Seen, Blocks
  <2> QED BY <2>1, <2>2, <2>4, <2>5
<1>5. CASE last.blocks # <<>>
  <2>1. choice = ChoiceOf(last)
    BY <1>1, <1>5
  <2>2. choice.parts = [i \in DOMAIN last.blocks |-> PartOf(last.blocks[i])]
        /\ choice.stop = last.stop
    BY <2>1 DEF ChoiceOf
  <2>3. DOMAIN choice.parts = DOMAIN reply.blocks
    BY <1>2, <2>2
  <2>4. ASSUME NEW b \in DOMAIN reply.blocks
        PROVE  /\ choice.parts[b].kind = PartKind(reply.blocks[b].kind)
               /\ choice.parts[b].says = Says(b)
    <3>1. choice.parts[b] = PartOf(last.blocks[b])
      BY <1>2, <2>2
    <3> QED BY <1>2, <3>1 DEF PartOf
  <2>5. Seen(choice.parts) = Blocks
    BY <2>3, <2>4 DEF Seen, Blocks
  <2>6. reply.blocks # <<>>
    BY <1>2, <1>5
  <2>7. choice.parts # <<>>
    <3>1. reply.blocks \in Seq(Block)
      BY <1>1, BlockFacts
    <3>2. DOMAIN reply.blocks # {}
      BY <2>6, <3>1, EmptyIs
    <3> QED BY <2>3, <3>2, NothingYet
  <2> QED BY <1>2, <2>2, <2>3, <2>5, <2>6, <2>7
<1> QED BY <1>4, <1>5

\* The turn replayed is the answer's parts that are not an empty text, in order.
LEMMA TurnSays ==
    ASSUME NEW parts, NEW n \in Nat, DOMAIN parts = 1..n, NEW shows, shows = Seen(parts),
           NEW said,
           \A i : i \in said <=>
                i \in DOMAIN shows /\ (shows[i][1] # "text" \/ shows[i][2] # <<>>)
    PROVE  Seen(HandleAIMessage(parts)) =
               IF said # {} THEN At(shows, said) ELSE <<<<"text", <<Explanation>>>>>>
<1> DEFINE kept == At(parts, said)
<1>1. DOMAIN shows = 1..n /\ \A i \in 1..n : shows[i] = <<parts[i].kind, parts[i].says>>
  BY DEF Seen
<1>2. said = {i \in DOMAIN parts : parts[i].kind # "text" \/ parts[i].says # <<>>}
  BY <1>1
<1>3. said \subseteq 1..n
  BY <1>1
<1>4. /\ Cardinality(said) \in Nat /\ (Cardinality(said) = 0 <=> said = {})
      /\ \A k \in 1..Cardinality(said) : Order(said)[k] \in said
  BY <1>3, OrderFacts
<1>5. HandleAIMessage(parts) = IF kept # <<>> THEN kept
         ELSE <<[kind |-> "text", says |-> <<Explanation>>, signed |-> FALSE]>>
  BY <1>2 DEF HandleAIMessage
<1>6. DOMAIN kept = 1..Cardinality(said)
      /\ \A k \in 1..Cardinality(said) : kept[k] = parts[Order(said)[k]]
  BY DEF At
<1>7. CASE said = {}
  <2>1. Cardinality(said) = 0
    BY <1>4, <1>7
  <2>2. kept = <<>>
    <3>1. kept = [k \in 1..0 |-> parts[Order(said)[k]]]
      BY <2>1 DEF At
    <3> QED BY <3>1
  <2>3. HandleAIMessage(parts) = <<[kind |-> "text", says |-> <<Explanation>>, signed |-> FALSE]>>
    BY <1>5, <2>2
  <2> QED BY <1>7, <2>3, SeenExplained
<1>8. CASE said # {}
  <2>1. 1 \in 1..Cardinality(said)
    <3>1. PICK c \in Nat : c = Cardinality(said) /\ c # 0
      BY <1>4, <1>8
    <3>2. 1 \in 1..c
      BY ONLY <3>1
    <3> QED BY <3>1, <3>2
  <2>2. kept # <<>>
    BY <1>6, <2>1, NothingYet
  <2>3. HandleAIMessage(parts) = kept
    BY <1>5, <2>2
  <2>4. Seen(kept) = At(shows, said)
    <3>1. Seen(kept) = [k \in 1..Cardinality(said) |-> <<kept[k].kind, kept[k].says>>]
      BY <1>6 DEF Seen
    <3>2. At(shows, said) = [k \in 1..Cardinality(said) |-> shows[Order(said)[k]]]
      BY DEF At
    <3>3. ASSUME NEW k \in 1..Cardinality(said)
          PROVE  shows[Order(said)[k]] = <<kept[k].kind, kept[k].says>>
      <4>1. PICK o : o = Order(said)[k]
        OBVIOUS
      <4>2. o \in 1..n
        BY <1>3, <1>4, <4>1
      <4>3. kept[k] = parts[o]
        BY <1>6, <4>1
      <4> HIDE DEF kept
      <4> QED BY <1>1, <4>1, <4>2, <4>3
    <3> HIDE DEF kept
    <3> QED BY <3>1, <3>2, <3>3
  <2> QED BY <1>8, <2>3, <2>4
<1> QED BY <1>7, <1>8

LEMMA ReplaySays ==
    ASSUME RepliesAreReplies, MessagesIInv, caller = "replied"
    PROVE  ReplayKeepsTheTurn
<1>1. result = "nil" /\ replayed = HandleAIMessage(AssistantMessage(choice)) /\ reply \in Replies
  BY DEF MessagesIInv, AnswerInv, TypeInv
<1>2. /\ Seen(choice.parts) = Blocks /\ DOMAIN choice.parts = DOMAIN reply.blocks
      /\ choice.parts = <<>> => choice = Refusal
  BY <1>1, AnswerSays
<1>3. PICK n \in Nat : DOMAIN reply.blocks = 1..n
  BY <1>1, BlockFacts
<1> DEFINE said == {i \in DOMAIN Blocks : Blocks[i][1] # "text" \/ Blocks[i][2] # <<>>}
<1>4. CASE choice.parts # <<>>
  <2>1. AssistantMessage(choice) = choice.parts
    BY <1>4 DEF AssistantMessage
  <2>2. Seen(replayed) = IF said # {} THEN At(Blocks, said) ELSE <<<<"text", <<Explanation>>>>>>
    <3>1. PICK shows, these : /\ shows = Seen(choice.parts)
                              /\ \A i : i \in these <=>
                                   i \in DOMAIN shows /\ (shows[i][1] # "text" \/ shows[i][2] # <<>>)
      <4>1. \A i : i \in {j \in DOMAIN Seen(choice.parts) :
                            Seen(choice.parts)[j][1] # "text" \/ Seen(choice.parts)[j][2] # <<>>}
                  <=> /\ i \in DOMAIN Seen(choice.parts)
                      /\ (Seen(choice.parts)[i][1] # "text" \/ Seen(choice.parts)[i][2] # <<>>)
        OBVIOUS
      <4> QED BY <4>1
    <3>2. Seen(HandleAIMessage(choice.parts)) =
             IF these # {} THEN At(shows, these) ELSE <<<<"text", <<Explanation>>>>>>
      <4>1. DOMAIN choice.parts = 1..n
        BY <1>2, <1>3
      <4> QED BY ONLY <1>3, <3>1, <4>1, TurnSays
    <3>3. these = said /\ shows = Blocks
      BY <1>2, <3>1
    <3> QED BY <1>1, <2>1, <3>2, <3>3
  <2> QED BY <2>2 DEF ReplayKeepsTheTurn
<1>5. CASE choice.parts = <<>>
  <2> DEFINE part == [kind |-> "text", says |-> <<Explanation>>, signed |-> FALSE]
  <2>1. choice = Refusal
    BY <1>2, <1>5
  <2>2. choice.content = <<Explanation>> /\ choice.content # <<>>
    BY <2>1 DEF Refusal
  <2>3. AssistantMessage(choice) = <<part>>
    BY <1>5, <2>2 DEF AssistantMessage
  <2>4. Seen(<<part>>) = <<<<"text", <<Explanation>>>>>>
    BY SeenExplained
  <2>5. PICK shows : shows = Seen(<<part>>)
    OBVIOUS
  <2>6. PICK one : one = {1}
    OBVIOUS
  <2>7. \A i : i \in one <=>
             i \in DOMAIN shows /\ (shows[i][1] # "text" \/ shows[i][2] # <<>>)
    BY <2>4, <2>5, <2>6
  <2>8. DOMAIN <<part>> = 1..1 /\ 1 \in Nat
    OBVIOUS
  <2>9. Seen(replayed) = At(shows, one)
    <3>1. PICK parts : parts = <<part>>
      OBVIOUS
    <3>2. DOMAIN parts = 1..1 /\ shows = Seen(parts)
      BY <2>5, <2>8, <3>1
    <3>3. Seen(HandleAIMessage(parts)) =
             IF one # {} THEN At(shows, one) ELSE <<<<"text", <<Explanation>>>>>>
      BY ONLY <2>7, <2>8, <3>2, TurnSays
    <3> QED BY <1>1, <2>3, <2>6, <3>1, <3>3
  <2>10. At(shows, one) = <<<<"text", <<Explanation>>>>>>
    <3>1. Cardinality(one) = 1
      BY <2>6, FS_Singleton
    <3>2. Order(one)[1] = 1
      <4>1. one \subseteq 1..1 /\ 1 \in Nat /\ 1 \in 1..1
        BY <2>6
      <4>2. \A k \in 1..Cardinality(one) : Order(one)[k] \in one
        BY ONLY <4>1, OrderFacts
      <4>3. Order(one)[1] \in one
        BY <3>1, <4>1, <4>2
      <4> QED BY <2>6, <4>3
    <3>3. At(shows, one) = [k \in 1..1 |-> shows[Order(one)[k]]]
      BY <3>1 DEF At
    <3> QED BY <2>4, <2>5, <3>2, <3>3
  <2>11. said = {}
    <3>1. DOMAIN Blocks = {}
      BY <1>2, <1>5, NothingYet DEF Seen
    <3> QED BY <3>1
  <2> QED BY <2>9, <2>10, <2>11 DEF ReplayKeepsTheTurn
<1> QED BY <1>4, <1>5

------------------------------------------------------------------------------
THEOREM WholeAnswer == ASSUME RepliesAreReplies PROVE MessagesSpec => []WholeOrError
<1>1. RepliesAreReplies /\ MessagesIInv => WholeOrError
  BY AnswerSays DEF WholeOrError
<1>2. MessagesSpec => []MessagesIInv
  BY MessagesInvariant
<1>3. MessagesIInv => WholeOrError
  BY <1>1
<1> QED BY <1>2, <1>3, PTL

THEOREM AnswerShown == ASSUME RepliesAreReplies PROVE MessagesSpec => []StreamedIsAnswered
<1>1. MessagesIInv => StreamedIsAnswered
  <2> SUFFICES ASSUME MessagesIInv PROVE StreamedIsAnswered
    OBVIOUS
  <2>1. StreamedInv
    BY DEF MessagesIInv
  <2>2. streaming /\ result = "nil" => Display \subseteq ToSet(streamed)
    BY DEF MessagesIInv, LastInv, AnswerInv, Usable
  <2> QED BY <2>1, <2>2 DEF StreamedIsAnswered, StreamedInv
<1>2. MessagesSpec => []MessagesIInv
  BY MessagesInvariant
<1> QED BY <1>1, <1>2, PTL

THEOREM TurnReplayed == ASSUME RepliesAreReplies PROVE MessagesSpec => []ReplayKeepsTheTurn
<1>1. MessagesIInv => ReplayKeepsTheTurn
  BY ReplaySays DEF ReplayKeepsTheTurn
<1>2. MessagesSpec => []MessagesIInv
  BY MessagesInvariant
<1> QED BY <1>1, <1>2, PTL
==============================================================================
