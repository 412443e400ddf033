---------------------------- MODULE ParserProofs ----------------------------
(***************************************************************************)
(* Proofs about the proxy server's parsers, for every datagram, every      *)
(* stream of a client and every limit: the walk through a DNS answer never *)
(* reads outside of it and finds the address its layout gives, and a       *)
(* request is split at its own empty line.                                 *)
(*                                                                         *)
(* The address needs most of it.  FlattenSeq, which joins labels into      *)
(* names and records into messages, is a recursive function; what it joins *)
(* is found by induction on the number of parts (SetInduction), then the   *)
(* layouts of names, records, questions and messages follow, and then the  *)
(* inductive invariant WalkInv, that the walk is always at an offset of    *)
(* the layout with nothing of use behind it.                               *)
(***************************************************************************)
EXTENDS Parsers, FiniteSetTheorems, TLAPS

(***************************************************************************)
(* The walk through a DNS answer stays inside of it.                       *)
(***************************************************************************)

\* A word of the datagram is a natural number, when its octets are there.
LEMMA WordIsNat ==
    ASSUME packet \in Seq(Octet), NEW i \in Nat, i + 2 <= Len(packet)
    PROVE  Word(i) \in Nat
<1>1. packet[i + 1] \in Octet /\ packet[i + 2] \in Octet
  <2>1. i + 1 \in 1..Len(packet) /\ i + 2 \in 1..Len(packet)
    OBVIOUS
  <2> QED BY <2>1
<1> DEFINE high == packet[i + 1]
           low == packet[i + 2]
<1> HIDE DEF high, low
<1>2. high \in Nat /\ low \in Nat
  <2>1. \A octet \in Octet : octet \in Nat
    BY DEF Octet
  <2> QED BY <1>1, <2>1 DEF high, low
<1>3. 256 * high + low \in Nat
  BY <1>2
<1> QED BY <1>3 DEF Word, high, low

DnsInv == DnsTypeOK /\ ReadsInBounds

\* None of the steps that give up, or that only count, moves the walk.
LEMMA WalkStays ==
    ASSUME DnsInv,
           \/ RejectHeader \/ RejectName \/ RejectQuestion \/ RejectRecord
           \/ NextQuestion \/ QuestionsEnd \/ NextAnswer \/ AnswersEnd
    PROVE  DnsInv'
BY DEF DnsInv, DnsTypeOK, ReadsInBounds, RejectHeader, RejectName, RejectQuestion,
       RejectRecord, NextQuestion, QuestionsEnd, NextAnswer, AnswersEnd, GiveUp

\* The other steps read, and move, no further than they have tested.
LEMMA WalkMoves ==
    ASSUME DnsInv,
           \/ ParseHeader \/ SkipName \/ SkipLabel \/ SkipQuestion
           \/ TakeAddress \/ SkipRecord
    PROVE  DnsInv'
<1> USE DEF DnsInv, DnsTypeOK, ReadsInBounds
<1>1. CASE ParseHeader
  <2>1. Len(packet) \in Nat /\ Len(packet) >= 12
    BY <1>1 DEF ParseHeader, HeaderFits
  <2>2. Word(4) \in Nat /\ Word(6) \in Nat
    BY <2>1, WordIsNat
  <2> QED BY <1>1, <2>1, <2>2 DEF ParseHeader
<1>2. ASSUME InName PROVE packet[offset + 1] \in Octet
  <2>1. offset + 1 \in 1..Len(packet)
    BY <1>2 DEF InName
  <2> QED BY <2>1
<1>3. CASE SkipName
  BY <1>2, <1>3 DEF SkipName, InName, NameEnds
<1>4. CASE SkipLabel
  <2> DEFINE label == packet[offset + 1]
  <2>1. label \in 1..63 /\ offset' = offset + 1 + label
    BY <1>4 DEF SkipLabel
  <2> HIDE DEF label
  <2>2. offset' \in Nat
    BY <2>1
  <2>3. /\ offset < Len(packet) /\ offset' <= Len(packet) /\ reach' = offset + 1
        /\ UNCHANGED <<packet, at, questions, answers, answer>>
    BY <1>4 DEF SkipLabel, InName
  <2> QED BY <2>2, <2>3
<1>5. CASE SkipQuestion
  BY <1>5 DEF SkipQuestion
<1>6. ASSUME RecordFits PROVE Word(offset + 8) \in Nat
  BY <1>6, WordIsNat DEF RecordFits, FixedFits
<1>7. CASE TakeAddress
  BY <1>7 DEF TakeAddress, RecordFits, FixedFits, IsAddress
<1>8. CASE SkipRecord
  BY <1>6, <1>8 DEF SkipRecord, RecordFits, FixedFits
<1> QED BY <1>1, <1>3, <1>4, <1>5, <1>7, <1>8

\* Whatever a datagram holds, no read of parse_aaaa_response and no address it
\* finds lies outside of it, and its walk never leaves it.
THEOREM WalkInBounds == DnsSpec => []ReadsInBounds
<1>1. DnsInit => DnsInv
  BY DEF DnsInit, DnsFresh, DnsInv, DnsTypeOK, ReadsInBounds
<1>2. DnsInv /\ [DnsNext]_dnsVars => DnsInv'
  <2> SUFFICES ASSUME DnsInv, [DnsNext]_dnsVars
               PROVE  DnsInv'
    OBVIOUS
  <2>1. CASE UNCHANGED dnsVars
    BY <2>1 DEF dnsVars, DnsInv, DnsTypeOK, ReadsInBounds
  <2>2. CASE DnsNext
    BY <2>2, WalkStays, WalkMoves DEF DnsNext
  <2> QED BY <2>1, <2>2
<1>3. DnsInv => ReadsInBounds
  BY DEF DnsInv
<1> QED BY <1>1, <1>2, <1>3, PTL DEF DnsSpec

(***************************************************************************)
(* Induction, from the finiteness of what is below a number, and the       *)
(* joining of parts, which FlattenSeq defines by a recursive function.     *)
(***************************************************************************)

\* A set with 0 and, with every number, the next one has all numbers: otherwise
\* adding 1 would map its part up to a missing number into less of it.
LEMMA SetInduction ==
    ASSUME NEW S, 0 \in S, \A n \in Nat : n \in S => n + 1 \in S
    PROVE  Nat \subseteq S
<1> SUFFICES ASSUME NEW n \in Nat, n \notin S PROVE FALSE
  OBVIOUS
<1> DEFINE A == {i \in 0..n : i \in S}
           B == A \ {0}
           f == [i \in A |-> i + 1]
<1>1. f \in [A -> B]
  OBVIOUS
<1>2. A \in SUBSET (0..n) /\ 0 \in A
  OBVIOUS
<1>3. IsFiniteSet(A)
  <2>1. IsFiniteSet(0..n)
    BY FS_Interval
  <2> HIDE DEF A
  <2> QED BY <1>2, <2>1, FS_Subset
<1>4. /\ IsFiniteSet(B) /\ Cardinality(B) = Cardinality(A) - 1
      /\ Cardinality(A) \in Nat
  <2> HIDE DEF A
  <2> QED BY <1>2, <1>3, FS_RemoveElement, FS_CardinalityType
<1>5. PICK x, y \in A : x # y /\ f[x] = f[y]
  <2> HIDE DEF A, B, f
  <2> QED BY <1>1, <1>3, <1>4, FS_PigeonHole
<1> QED BY <1>5

\* The function of FlattenSeq, up to k parts.
Link(parts, f, i) == IF i = 1 THEN parts[i] ELSE f[i - 1] \o parts[i]
Chain(parts, k, f) == f = [i \in 1..k |-> Link(parts, f, i)]

\* There is such a function ...
LEMMA ChainExists ==
    ASSUME NEW parts
    PROVE  \A k \in Nat : \E f : Chain(parts, k + 1, f)
<1> DEFINE S == {k \in Nat : \E f : Chain(parts, k + 1, f)}
<1>1. 0 \in S
  <2> DEFINE f == [i \in 1..1 |-> parts[i]]
  <2>1. Chain(parts, 0 + 1, f)
    BY DEF Chain, Link
  <2> HIDE DEF f
  <2> QED BY <2>1
<1>2. ASSUME NEW k \in Nat, k \in S PROVE k + 1 \in S
  <2>1. PICK f : Chain(parts, k + 1, f)
    BY <1>2
  <2> DEFINE more == f[k + 1] \o parts[k + 2]
             g == [i \in 1..(k + 2) |-> IF i <= k + 1 THEN f[i] ELSE more]
  <2> HIDE DEF more
  <2>2. Chain(parts, k + 2, g)
    <3>1. ASSUME NEW i \in 1..(k + 2)
          PROVE  g[i] = Link(parts, g, i)
      <4>1. CASE i <= k + 1
        <5>1. f[i] = Link(parts, f, i)
          BY <2>1, <4>1 DEF Chain
        <5>2. g[i] = f[i] /\ (i # 1 => g[i - 1] = f[i - 1])
          BY <4>1
        <5> HIDE DEF g
        <5> QED BY <5>1, <5>2 DEF Link
      <4>2. CASE i = k + 2
        <5>1. g[k + 2] = more /\ g[k + 1] = f[k + 1]
          OBVIOUS
        <5>2. i # 1 /\ i - 1 = k + 1
          BY <4>2
        <5> HIDE DEF g
        <5> QED BY <4>2, <5>1, <5>2 DEF Link, more
      <4>3. i <= k + 1 \/ i = k + 2
        OBVIOUS
      <4> HIDE DEF g
      <4> QED BY <4>1, <4>2, <4>3
    <3>2. g = [i \in 1..(k + 2) |-> g[i]]
      OBVIOUS
    <3> HIDE DEF g
    <3> QED BY <3>1, <3>2 DEF Chain
  <2> HIDE DEF g
  <2>3. (k + 1) + 1 = k + 2
    OBVIOUS
  <2> QED BY <2>2, <2>3
<1> HIDE DEF S
<1>3. Nat \subseteq S
  BY <1>1, <1>2, SetInduction
<1> QED BY <1>3 DEF S

\* ... and two of them agree where both are defined.
LEMMA ChainUnique ==
    ASSUME NEW parts, NEW k \in Nat, NEW l \in Nat, k <= l,
           NEW f, NEW g, Chain(parts, k, f), Chain(parts, l, g)
    PROVE  \A i \in 1..k : f[i] = g[i]
<1> DEFINE S == {i \in Nat : i + 1 <= k => f[i + 1] = g[i + 1]}
<1>1. 0 \in S
  <2>1. 1 <= k => f[1] = parts[1] /\ g[1] = parts[1]
    BY DEF Chain, Link
  <2> QED BY <2>1
<1>2. ASSUME NEW i \in Nat, i \in S PROVE i + 1 \in S
  <2>1. SUFFICES ASSUME i + 2 <= k PROVE f[i + 2] = g[i + 2]
    BY i + 1 + 1 = i + 2
  <2>2. f[i + 1] = g[i + 1]
    BY <1>2, <2>1
  <2>3. i + 2 \in 1..k /\ i + 2 \in 1..l /\ i + 2 # 1 /\ (i + 2) - 1 = i + 1
    BY <2>1
  <2>4. f[i + 2] = Link(parts, f, i + 2) /\ g[i + 2] = Link(parts, g, i + 2)
    BY <2>3 DEF Chain
  <2> QED BY <2>2, <2>3, <2>4 DEF Link
<1>3. Nat \subseteq S
  <2> HIDE DEF S
  <2> QED BY <1>1, <1>2, SetInduction
<1>4. ASSUME NEW i \in 1..k PROVE f[i] = g[i]
  <2>1. i - 1 \in Nat /\ (i - 1) + 1 = i
    OBVIOUS
  <2> QED BY <1>3, <2>1
<1> QED BY <1>4

\* What is joined is the value of the function for the last part.
LEMMA JoinedByChain ==
    ASSUME NEW T, NEW parts \in Seq(T), NEW k \in 1..Len(parts)
    PROVE  \E f : Chain(parts, k, f) /\ Joined(parts, k) = f[k]
<1> DEFINE s == SubSeq(parts, 1, k)
           flatten[i \in 1..Len(s)] == IF i = 1 THEN s[i] ELSE flatten[i - 1] \o s[i]
<1>1. Len(s) = k /\ \A i \in 1..k : s[i] = parts[i]
  OBVIOUS
<1>2. PICK f : Chain(s, k, f)
  BY ChainExists, k - 1 \in Nat, (k - 1) + 1 = k
<1> HIDE DEF s
<1>3. f = [i \in 1..Len(s) |-> IF i = 1 THEN s[i] ELSE f[i - 1] \o s[i]]
  BY <1>1, <1>2 DEF Chain, Link
<1>4. flatten = [i \in 1..Len(s) |-> IF i = 1 THEN s[i] ELSE flatten[i - 1] \o s[i]]
  BY <1>3
<1>5. Joined(parts, k) = flatten[k]
  BY <1>1 DEF Joined, FlattenSeq, s
<1> HIDE DEF flatten
<1>6. Chain(parts, k, flatten)
  BY <1>1, <1>4 DEF Chain, Link
<1> QED BY <1>5, <1>6

\* One sequence is the beginning of another.
Begins(short, long) ==
    /\ Len(short) <= Len(long)
    /\ \A i \in 1..Len(short) : long[i] = short[i]

IsConcat(s, t, st) == st = s \o t

\* The first sequence of a concatenation is in front of it, the other behind.
LEMMA ConcatFacts ==
    ASSUME NEW T, NEW s \in Seq(T), NEW t \in Seq(T), NEW st, IsConcat(s, t, st)
    PROVE  /\ st \in Seq(T)
           /\ Len(s) \in Nat /\ Len(t) \in Nat
           /\ Len(st) = Len(s) + Len(t)
           /\ Begins(s, st)
           /\ \A i \in 1..Len(t) : st[Len(s) + i] = t[i]
BY DEF Begins, IsConcat

\* Nothing joined is nothing, and each part comes behind those before it.
LEMMA JoinedStep ==
    ASSUME NEW T, NEW parts \in Seq(Seq(T)), NEW k \in 0..(Len(parts) - 1)
    PROVE  Joined(parts, 0) = <<>> /\ Joined(parts, k + 1) = Joined(parts, k) \o parts[k + 1]
<1>1. Joined(parts, 0) = <<>>
  BY DEF Joined, FlattenSeq
<1>2. PICK g : Chain(parts, k + 1, g) /\ Joined(parts, k + 1) = g[k + 1]
  BY JoinedByChain, k + 1 \in 1..Len(parts)
<1>3. parts[k + 1] \in Seq(T)
  OBVIOUS
<1>4. CASE k = 0
  <2>1. g[1] = parts[1]
    BY <1>2, <1>4 DEF Chain, Link
  <2>2. <<>> \o parts[1] = parts[1]
    BY <1>3, <1>4
  <2> QED BY <1>1, <1>2, <1>4, <2>1, <2>2
<1>5. CASE k # 0
  <2>1. PICK f : Chain(parts, k, f) /\ Joined(parts, k) = f[k]
    BY <1>5, JoinedByChain, k \in 1..Len(parts)
  <2>2. f[k] = g[k]
    <3>1. k \in Nat /\ k + 1 \in Nat /\ k <= k + 1 /\ k \in 1..k
      BY <1>5
    <3>2. Chain(parts, k, f) /\ Chain(parts, k + 1, g)
      BY <1>2, <2>1
    <3>3. \A i \in 1..k : f[i] = g[i]
      BY <3>1, <3>2, ChainUnique
    <3> QED BY <3>1, <3>3
  <2>3. g[k + 1] = Link(parts, g, k + 1)
    <3>1. k + 1 \in 1..(k + 1)
      OBVIOUS
    <3> QED BY <1>2, <3>1 DEF Chain
  <2>4. k + 1 # 1 /\ (k + 1) - 1 = k
    BY <1>5
  <2>5. g[k + 1] = g[k] \o parts[k + 1]
    BY <2>3, <2>4 DEF Link
  <2> QED BY <1>1, <1>2, <2>1, <2>2, <2>5
<1> QED BY <1>1, <1>4, <1>5

\* Joining sequences gives a sequence.
LEMMA JoinedIsSeq ==
    ASSUME NEW T, NEW parts \in Seq(Seq(T))
    PROVE  \A k \in 0..Len(parts) : Joined(parts, k) \in Seq(T)
<1> DEFINE S == {k \in Nat : k <= Len(parts) => Joined(parts, k) \in Seq(T)}
<1>1. 0 \in S
  <2>1. Joined(parts, 0) = <<>>
    BY DEF Joined, FlattenSeq
  <2>2. <<>> \in Seq(T)
    OBVIOUS
  <2> QED BY <2>1, <2>2
<1>2. ASSUME NEW k \in Nat, k \in S PROVE k + 1 \in S
  <2> SUFFICES ASSUME k + 1 <= Len(parts) PROVE Joined(parts, k + 1) \in Seq(T)
    OBVIOUS
  <2>1. Joined(parts, k) \in Seq(T) /\ parts[k + 1] \in Seq(T)
    BY <1>2
  <2>2. Joined(parts, k + 1) = Joined(parts, k) \o parts[k + 1]
    BY JoinedStep
  <2> QED BY <2>1, <2>2, ConcatFacts DEF IsConcat
<1>3. Nat \subseteq S
  <2> HIDE DEF S
  <2> QED BY <1>1, <1>2, SetInduction
<1> QED BY <1>3

\* What was joined stays in front of what is joined to it.
LEMMA JoinedBegins ==
    ASSUME NEW T, NEW parts \in Seq(Seq(T)), NEW j \in 0..Len(parts)
    PROVE  \A k \in j..Len(parts) : Begins(Joined(parts, j), Joined(parts, k))
<1> DEFINE S == {d \in Nat : j + d <= Len(parts) =>
                               Begins(Joined(parts, j), Joined(parts, j + d))}
<1>1. 0 \in S
  <2>1. Joined(parts, j) \in Seq(T)
    BY JoinedIsSeq
  <2> HIDE DEF Begins
  <2>2. Begins(Joined(parts, j), Joined(parts, j))
    BY <2>1 DEF Begins
  <2> QED BY <2>2
<1>2. ASSUME NEW d \in Nat, d \in S PROVE d + 1 \in S
  <2> DEFINE k == j + d
  <2> SUFFICES ASSUME k + 1 <= Len(parts)
               PROVE  Begins(Joined(parts, j), Joined(parts, k + 1))
    BY j + (d + 1) = k + 1
  <2>1. k \in 0..(Len(parts) - 1) /\ k \in 0..Len(parts)
    OBVIOUS
  <2>2. Begins(Joined(parts, j), Joined(parts, k))
    BY <1>2, <2>1
  <2> HIDE DEF k
  <2>3. /\ Joined(parts, j) \in Seq(T) /\ Joined(parts, k) \in Seq(T)
        /\ parts[k + 1] \in Seq(T)
    BY <2>1, JoinedIsSeq
  <2>4. Joined(parts, k + 1) = Joined(parts, k) \o parts[k + 1]
    BY <2>1, JoinedStep
  <2>5. Begins(Joined(parts, k), Joined(parts, k + 1))
    BY <2>3, <2>4, ConcatFacts DEF IsConcat
  <2>6. Len(Joined(parts, j)) \in Nat /\ Len(Joined(parts, k)) \in Nat
    BY <2>3
  <2> QED BY <2>2, <2>5, <2>6 DEF Begins
<1>3. Nat \subseteq S
  <2> HIDE DEF S
  <2> QED BY <1>1, <1>2, SetInduction
<1>4. ASSUME NEW k \in j..Len(parts) PROVE Begins(Joined(parts, j), Joined(parts, k))
  <2>1. k - j \in Nat /\ j + (k - j) = k /\ k <= Len(parts)
    OBVIOUS
  <2> QED BY <1>3, <2>1
<1> QED BY <1>4

\* Where a part of what is joined is.
LEMMA PartOf ==
    ASSUME NEW T, NEW parts \in Seq(Seq(T)), NEW k \in 0..(Len(parts) - 1)
    PROVE  /\ Len(Joined(parts, k)) \in Nat
           /\ Len(Joined(parts, k + 1)) = Len(Joined(parts, k)) + Len(parts[k + 1])
           /\ Len(Joined(parts, k + 1)) <= Len(FlattenSeq(parts))
           /\ \A i \in 1..Len(parts[k + 1]) :
                FlattenSeq(parts)[Len(Joined(parts, k)) + i] = parts[k + 1][i]
<1>1. SubSeq(parts, 1, Len(parts)) = parts
  OBVIOUS
<1>2. FlattenSeq(parts) = Joined(parts, Len(parts))
  BY <1>1 DEF Joined
<1>3. /\ k \in 0..Len(parts) /\ k + 1 \in 0..Len(parts)
      /\ Len(parts) \in (k + 1)..Len(parts) /\ Len(parts) \in 0..Len(parts)
  OBVIOUS
<1>4. /\ Joined(parts, k) \in Seq(T) /\ Joined(parts, k + 1) \in Seq(T)
      /\ Joined(parts, Len(parts)) \in Seq(T) /\ parts[k + 1] \in Seq(T)
  BY <1>3, JoinedIsSeq
<1>5. Joined(parts, k + 1) = Joined(parts, k) \o parts[k + 1]
  BY <1>3, JoinedStep
<1>6. Begins(Joined(parts, k + 1), Joined(parts, Len(parts)))
  BY <1>3, JoinedBegins
<1>7. /\ Len(Joined(parts, k + 1)) = Len(Joined(parts, k)) + Len(parts[k + 1])
      /\ \A i \in 1..Len(parts[k + 1]) :
           Joined(parts, k + 1)[Len(Joined(parts, k)) + i] = parts[k + 1][i]
  BY <1>4, <1>5, ConcatFacts DEF IsConcat
<1>8. /\ Len(Joined(parts, k)) \in Nat /\ Len(Joined(parts, k + 1)) \in Nat
      /\ Len(parts[k + 1]) \in Nat
  BY <1>4
<1>9. \A i \in 1..Len(parts[k + 1]) :
        Len(Joined(parts, k)) + i \in 1..Len(Joined(parts, k + 1))
  BY <1>7, <1>8
<1> QED BY <1>2, <1>4, <1>6, <1>7, <1>8, <1>9 DEF Begins

\* All parts joined, and none.
LEMMA JoinedEnds ==
    ASSUME NEW T, NEW parts \in Seq(Seq(T))
    PROVE  /\ FlattenSeq(parts) = Joined(parts, Len(parts))
           /\ FlattenSeq(parts) \in Seq(T)
           /\ Joined(parts, 0) = <<>>
           /\ \A k \in 0..Len(parts) : Len(Joined(parts, k)) \in Nat
<1>1. SubSeq(parts, 1, Len(parts)) = parts
  OBVIOUS
<1>2. FlattenSeq(parts) = Joined(parts, Len(parts))
  BY <1>1 DEF Joined
<1>3. Joined(parts, 0) = <<>>
  BY DEF Joined, FlattenSeq
<1>4. \A k \in 0..Len(parts) : Joined(parts, k) \in Seq(T)
  BY JoinedIsSeq
<1> QED BY <1>2, <1>3, <1>4

(***************************************************************************)
(* The layout of a message: where everything is in its octets.             *)
(***************************************************************************)

\* Two octets that stand for a number, the higher one first, and the number
\* that is read at an offset.
IsWord(w, n) == w \in Seq(Octet) /\ Len(w) = 2 /\ 256 * w[1] + w[2] = n

WordAt(s, i) == 256 * s[i + 1] + s[i + 2]

\* to_be_bytes is undone by the reading of a word.
LEMMA WordIsWord ==
    ASSUME NEW n \in U16
    PROVE  IsWord(WordOctets(n), n)
<1>1. n \in Int /\ 0 <= n /\ n <= 65535
  BY DEF U16
<1> DEFINE high == n \div 256
           low == n % 256
<1>2. high \in Octet
  BY <1>1, SMT DEF Octet
<1>3. low \in Octet /\ 256 * high + low = n
  BY <1>1, SMT DEF Octet
<1> HIDE DEF high, low
<1>4. WordOctets(n) = <<high, low>>
  BY DEF WordOctets, high, low
<1>5. /\ WordOctets(n) \in Seq(Octet)
      /\ Len(WordOctets(n)) = 2
      /\ 256 * WordOctets(n)[1] + WordOctets(n)[2] = n
  BY <1>2, <1>3, <1>4
<1> QED BY <1>5, Zenon DEF IsWord

\* A word that is joined to a sequence is read behind it.
LEMMA WordBehind ==
    ASSUME NEW s, s \in Seq(Octet), NEW n, NEW w, IsWord(w, n),
           NEW st, IsConcat(s, w, st)
    PROVE  /\ st \in Seq(Octet)
           /\ Len(s) \in Nat /\ Len(st) = Len(s) + 2
           /\ Begins(s, st)
           /\ WordAt(st, Len(s)) = n
<1>1. w \in Seq(Octet)
  BY DEF IsWord
<1>2. /\ st \in Seq(Octet) /\ Len(s) \in Nat /\ Len(st) = Len(s) + Len(w)
      /\ Begins(s, st) /\ \A i \in 1..Len(w) : st[Len(s) + i] = w[i]
  BY <1>1, ConcatFacts
<1>3. Len(w) = 2 /\ 256 * w[1] + w[2] = n
  BY DEF IsWord
<1>4. 1 \in 1..Len(w) /\ 2 \in 1..Len(w)
  BY <1>3
<1>5. st[Len(s) + 1] = w[1] /\ st[Len(s) + 2] = w[2]
  BY <1>2, <1>4, Zenon
<1>6. WordAt(st, Len(s)) = 256 * w[1] + w[2]
  BY <1>5, Zenon DEF WordAt
<1>7. WordAt(st, Len(s)) = n
  BY <1>3, <1>6, Zenon
<1>8. Len(st) = Len(s) + 2
  BY <1>2, <1>3
<1> QED BY <1>2, <1>7, <1>8, Zenon

\* The beginning of a beginning.
LEMMA BeginsTransitive ==
    ASSUME NEW r, NEW s, NEW t, Len(r) \in Nat, Len(s) \in Nat, Len(t) \in Nat,
           Begins(r, s), Begins(s, t)
    PROVE  Begins(r, t)
BY DEF Begins

\* A word of a beginning is a word of the whole.
LEMMA WordBegins ==
    ASSUME NEW s, NEW t, Len(s) \in Nat, Begins(s, t), NEW i \in Nat, i + 2 <= Len(s)
    PROVE  WordAt(t, i) = WordAt(s, i)
<1>1. i + 1 \in 1..Len(s) /\ i + 2 \in 1..Len(s)
  OBVIOUS
<1>2. t[i + 1] = s[i + 1] /\ t[i + 2] = s[i + 2]
  BY <1>1 DEF Begins
<1> QED BY <1>2 DEF WordAt

\* A function on 1..n is a sequence of n.
LEMMA FunctionIsSeq ==
    ASSUME NEW S, NEW n \in Nat, NEW f \in [1..n -> S]
    PROVE  f \in Seq(S) /\ Len(f) = n
OBVIOUS

\* A label and its length.
LEMMA LabelsLayout ==
    ASSUME NEW labels \in Seq(Seq(Octet)),
           \A i \in 1..Len(labels) : IsLabel(labels[i])
    PROVE  /\ Labels(labels) \in Seq(Seq(Octet))
           /\ Len(Labels(labels)) = Len(labels)
           /\ \A i \in 1..Len(labels) :
                /\ Len(labels[i]) \in 1..63
                /\ Len(Labels(labels)[i]) = 1 + Len(labels[i])
                /\ Labels(labels)[i][1] = Len(labels[i])
<1>1. ASSUME NEW i \in 1..Len(labels)
      PROVE  /\ Len(labels[i]) \in 1..63
             /\ <<Len(labels[i])>> \o labels[i] \in Seq(Octet)
             /\ Len(<<Len(labels[i])>> \o labels[i]) = 1 + Len(labels[i])
             /\ (<<Len(labels[i])>> \o labels[i])[1] = Len(labels[i])
  <2> DEFINE label == labels[i]
  <2>1. label \in Seq(Octet) /\ Len(label) \in 1..63
    BY DEF IsLabel, U8, Octet
  <2> HIDE DEF label
  <2>2. <<Len(label)>> \in Seq(Octet) /\ Len(<<Len(label)>>) = 1 /\ <<Len(label)>>[1] = Len(label)
    BY <2>1 DEF Octet
  <2> DEFINE whole == <<Len(label)>> \o label
  <2>3. whole \in Seq(Octet) /\ Len(whole) = 1 + Len(label) /\ whole[1] = Len(label)
    <3> HIDE DEF whole
    <3> DEFINE first == <<Len(label)>>
    <3>1. Len(first) = 1 /\ first[1] = Len(label)
      BY <2>2
    <3>2. IsConcat(first, label, whole) /\ first \in Seq(Octet) /\ label \in Seq(Octet)
      BY <2>1, <2>2 DEF whole, IsConcat
    <3> HIDE DEF first
    <3>3. /\ whole \in Seq(Octet) /\ Len(whole) = Len(first) + Len(label)
          /\ Begins(first, whole)
      BY <3>2, ConcatFacts
    <3>4. 1 \in 1..Len(first)
      BY <3>1
    <3> QED BY <3>1, <3>3, <3>4 DEF Begins
  <2> HIDE DEF whole
  <2> QED BY <2>1, <2>3 DEF whole, label
<1>2. Labels(labels) = [i \in 1..Len(labels) |-> <<Len(labels[i])>> \o labels[i]]
  BY DEF Labels
<1>3. \A i \in 1..Len(labels) : Labels(labels)[i] = <<Len(labels[i])>> \o labels[i]
  BY <1>2
<1>4. Labels(labels) \in [1..Len(labels) -> Seq(Octet)]
  BY <1>1, <1>2
<1>5. Labels(labels) \in Seq(Seq(Octet)) /\ Len(Labels(labels)) = Len(labels)
  <2> DEFINE all == Labels(labels)
  <2> HIDE DEF all
  <2>1. all \in [1..Len(labels) -> Seq(Octet)] /\ Len(labels) \in Nat
    BY <1>4 DEF all
  <2>2. all \in Seq(Seq(Octet)) /\ Len(all) = Len(labels)
    BY <2>1, FunctionIsSeq
  <2> QED BY <2>2 DEF all
<1> QED BY <1>1, <1>3, <1>5

\* A name, label by label.
LabelAt(labels, j) == Len(Joined(Labels(labels), j))

NameLaidOut(labels, ending, name) ==
    /\ name \in Seq(Octet)
    /\ LabelAt(labels, 0) = 0
    /\ \A j \in 0..Len(labels) : LabelAt(labels, j) \in Nat /\ LabelAt(labels, j) < Len(name)
    /\ \A j \in 0..(Len(labels) - 1) :
         /\ Len(labels[j + 1]) \in 1..63
         /\ name[LabelAt(labels, j) + 1] = Len(labels[j + 1])
         /\ LabelAt(labels, j + 1) = LabelAt(labels, j) + 1 + Len(labels[j + 1])
    /\ name[LabelAt(labels, Len(labels)) + 1] = ending[1]
    /\ LabelAt(labels, Len(labels)) + Len(ending) = Len(name)

\* Every name is laid out so.
LEMMA NameLayout ==
    ASSUME NEW labels \in Seq(Seq(Octet)),
           \A i \in 1..Len(labels) : IsLabel(labels[i]),
           NEW ending, IsEnding(ending),
           NEW name, IsConcat(FlattenSeq(Labels(labels)), ending, name)
    PROVE  NameLaidOut(labels, ending, name)
<1> DEFINE parts == Labels(labels)
           all == FlattenSeq(parts)
           n == Len(labels)
<1>1. parts \in Seq(Seq(Octet)) /\ Len(parts) = n /\ n \in Nat
  BY LabelsLayout
<1>2. \A i \in 1..n : /\ Len(labels[i]) \in 1..63
                      /\ Len(parts[i]) = 1 + Len(labels[i])
                      /\ parts[i][1] = Len(labels[i])
  BY LabelsLayout
<1> HIDE DEF parts
<1>3. /\ all = Joined(parts, n) /\ all \in Seq(Octet) /\ Joined(parts, 0) = <<>>
      /\ \A k \in 0..n : Len(Joined(parts, k)) \in Nat
  BY <1>1, JoinedEnds
<1>4. \A k \in 0..(n - 1) :
        /\ Len(Joined(parts, k)) \in Nat
        /\ Len(Joined(parts, k + 1)) = Len(Joined(parts, k)) + Len(parts[k + 1])
        /\ Len(Joined(parts, k + 1)) <= Len(all)
        /\ \A i \in 1..Len(parts[k + 1]) : all[Len(Joined(parts, k)) + i] = parts[k + 1][i]
  <2> HIDE DEF n
  <2> SUFFICES ASSUME NEW k \in 0..(n - 1)
               PROVE  /\ Len(Joined(parts, k)) \in Nat
                      /\ Len(Joined(parts, k + 1)) = Len(Joined(parts, k)) + Len(parts[k + 1])
                      /\ Len(Joined(parts, k + 1)) <= Len(all)
                      /\ \A i \in 1..Len(parts[k + 1]) :
                           all[Len(Joined(parts, k)) + i] = parts[k + 1][i]
    OBVIOUS
  <2>1. k \in 0..(Len(parts) - 1)
    BY <1>1
  <2> QED BY <1>1, <2>1, PartOf
<1> HIDE DEF all
<1>5. /\ ending \in Seq(Octet) /\ Len(ending) \in {1, 2}
  BY DEF IsEnding, U8, Octet
<1>6. /\ name \in Seq(Octet) /\ Len(name) = Len(all) + Len(ending) /\ Begins(all, name)
      /\ \A i \in 1..Len(ending) : name[Len(all) + i] = ending[i]
  <2>1. IsConcat(all, ending, name) /\ all \in Seq(Octet) /\ ending \in Seq(Octet)
    BY <1>3, <1>5 DEF all, parts, IsConcat
  <2> QED BY <2>1, ConcatFacts
<1>7. \A k \in 0..n : LabelAt(labels, k) = Len(Joined(parts, k))
  BY DEF LabelAt, parts
<1>8. LabelAt(labels, 0) = 0
  BY <1>1, <1>3, <1>7
<1>9. LabelAt(labels, n) = Len(all) /\ Len(all) \in Nat
  BY <1>1, <1>3, <1>7
<1> HIDE DEF n
<1>10. \A j \in 0..n : LabelAt(labels, j) \in Nat /\ LabelAt(labels, j) < Len(name)
  <2> SUFFICES ASSUME NEW j \in 0..n
               PROVE  LabelAt(labels, j) \in Nat /\ LabelAt(labels, j) < Len(name)
    OBVIOUS
  <2>1. LabelAt(labels, j) \in Nat
    <3>1. LabelAt(labels, j) = Len(Joined(parts, j))
      BY <1>7
    <3>2. Len(Joined(parts, j)) \in Nat
      BY <1>3
    <3> QED BY <3>1, <3>2
  <2>2. /\ Len(name) = Len(all) + Len(ending)
        /\ Len(all) \in Nat /\ Len(ending) \in Nat /\ Len(ending) > 0
    <3> DEFINE l == Len(ending)
    <3>0. l \in {1, 2}
      BY <1>5
    <3> HIDE DEF l
    <3>3. l \in Nat /\ l > 0
      BY <3>0
    <3>1. Len(ending) \in Nat /\ Len(ending) > 0
      BY <3>3 DEF l
    <3>2. Len(name) = Len(all) + Len(ending)
      BY <1>6
    <3> QED BY <1>9, <3>1, <3>2
  <2>3. CASE j = n
    <3>1. LabelAt(labels, j) = Len(all)
      BY <1>9, <2>3
    <3> QED BY <2>1, <2>2, <3>1
  <2>4. CASE j # n
    <3>1. j \in 0..(n - 1) /\ j + 1 \in 0..n /\ j + 1 \in 1..n
      BY <1>1, <2>4
    <3>2. Len(parts[j + 1]) \in Nat
      BY <1>2, <3>1
    <3>3. LabelAt(labels, j) + Len(parts[j + 1]) <= Len(all)
      BY <1>4, <1>7, <3>1
    <3> DEFINE here == LabelAt(labels, j)
               part == Len(parts[j + 1])
    <3> HIDE DEF here, part
    <3>6. here \in Nat /\ part \in Nat /\ here + part <= Len(all)
      BY <2>1, <3>2, <3>3 DEF here, part
    <3>7. here < Len(name)
      BY <2>2, <3>6
    <3> QED BY <2>1, <3>7 DEF here
  <2> QED BY <2>3, <2>4
<1>11. ASSUME NEW j \in 0..(n - 1)
       PROVE  /\ Len(labels[j + 1]) \in 1..63
              /\ name[LabelAt(labels, j) + 1] = Len(labels[j + 1])
              /\ LabelAt(labels, j + 1) = LabelAt(labels, j) + 1 + Len(labels[j + 1])
  <2> DEFINE part == parts[j + 1]
             here == LabelAt(labels, j)
             next == LabelAt(labels, j + 1)
             label == labels[j + 1]
  <2>1. j + 1 \in 1..n /\ j \in 0..n /\ j + 1 \in 0..n
    BY <1>1
  <2>2. /\ Len(label) \in 1..63 /\ Len(part) = 1 + Len(label) /\ part[1] = Len(label)
    BY <1>2, <2>1
  <2>3. here = Len(Joined(parts, j)) /\ next = Len(Joined(parts, j + 1))
    BY <1>7, <2>1
  <2>4. /\ here \in Nat
        /\ next = here + Len(part)
        /\ next <= Len(all)
        /\ \A i \in 1..Len(part) : all[here + i] = part[i]
    BY <1>4, <2>3
  <2> HIDE DEF part, here, next, label
  <2>5. 1 \in 1..Len(part) /\ here + 1 \in 1..Len(all)
    BY <1>9, <2>2, <2>4
  <2>6. name[here + 1] = all[here + 1]
    BY <1>6, <2>5 DEF Begins
  <2>7. name[here + 1] = Len(label)
    BY <2>2, <2>4, <2>5, <2>6
  <2>8. next = here + 1 + Len(label)
    <3>1. Len(label) \in Nat /\ Len(part) = 1 + Len(label) /\ next = here + Len(part)
          /\ here \in Nat
      BY <2>2, <2>4
    <3> QED BY <3>1
  <2> QED BY <2>2, <2>7, <2>8 DEF part, here, next, label
<1>12. name[LabelAt(labels, n) + 1] = ending[1] /\ LabelAt(labels, n) + Len(ending) = Len(name)
  BY <1>5, <1>6, <1>9
<1> QED BY <1>6, <1>8, <1>10, <1>11, <1>12 DEF NameLaidOut, n

\* A record behind its name: the type, the class, the length and the data.
RecordLaidOut(name, type, class, data, whole) ==
    /\ whole \in Seq(Octet)
    /\ Len(whole) = Len(name) + 10 + Len(data)
    /\ Begins(name, whole)
    /\ WordAt(whole, Len(name)) = type
    /\ WordAt(whole, Len(name) + 2) = class
    /\ WordAt(whole, Len(name) + 8) = Len(data)

\* Some n octets.
IsOctets(s, n) == s \in Seq(Octet) /\ Len(s) = n

\* The six pieces of a record, one joined to the other.
LEMMA FieldsLayout ==
    ASSUME NEW name, name \in Seq(Octet), NEW type, NEW class,
           NEW data, data \in Seq(Octet),
           NEW w1, IsWord(w1, type), NEW w2, IsWord(w2, class),
           NEW lifetime, IsOctets(lifetime, 4),
           NEW w4, IsWord(w4, Len(data)),
           NEW p1, NEW p2, NEW p3, NEW p4, NEW whole,
           IsConcat(name, w1, p1), IsConcat(p1, w2, p2),
           IsConcat(p2, lifetime, p3), IsConcat(p3, w4, p4),
           IsConcat(p4, data, whole)
    PROVE  RecordLaidOut(name, type, class, data, whole)
<1>1. /\ p1 \in Seq(Octet) /\ Len(name) \in Nat /\ Len(p1) = Len(name) + 2
      /\ Begins(name, p1) /\ WordAt(p1, Len(name)) = type
  BY WordBehind
<1>2. /\ p2 \in Seq(Octet) /\ Len(p1) \in Nat /\ Len(p2) = Len(p1) + 2
      /\ Begins(p1, p2) /\ WordAt(p2, Len(p1)) = class
  BY <1>1, WordBehind
<1>3. p3 \in Seq(Octet) /\ Len(p2) \in Nat /\ Len(p3) = Len(p2) + 4 /\ Begins(p2, p3)
  <2>1. lifetime \in Seq(Octet)
    BY DEF IsOctets
  <2>2. p3 \in Seq(Octet) /\ Len(p2) \in Nat /\ Len(p3) = Len(p2) + Len(lifetime) /\ Begins(p2, p3)
    BY <1>2, <2>1, ConcatFacts
  <2>3. Len(lifetime) = 4
    BY DEF IsOctets
  <2> QED BY <2>2, <2>3, Zenon
<1>4. /\ p4 \in Seq(Octet) /\ Len(p3) \in Nat /\ Len(p4) = Len(p3) + 2
      /\ Begins(p3, p4) /\ WordAt(p4, Len(p3)) = Len(data)
  BY <1>3, WordBehind
<1>5. /\ whole \in Seq(Octet) /\ Len(p4) \in Nat /\ Len(whole) = Len(p4) + Len(data)
      /\ Begins(p4, whole) /\ Len(data) \in Nat
  BY <1>4, ConcatFacts
<1> DEFINE e == Len(name)
<1> HIDE DEF e
<1>6. /\ e \in Nat /\ Len(p1) = e + 2 /\ Len(p2) = e + 4 /\ Len(p3) = e + 8
      /\ Len(p4) = e + 10 /\ Len(whole) = e + 10 + Len(data)
  BY <1>1, <1>2, <1>3, <1>4, <1>5 DEF e
<1>7. Len(whole) \in Nat
  BY <1>5
<1>8. /\ Begins(p3, whole) /\ Begins(p2, whole) /\ Begins(p1, whole) /\ Begins(name, whole)
  <2>1. /\ Len(p1) \in Nat /\ Len(p2) \in Nat /\ Len(p3) \in Nat /\ Len(p4) \in Nat
        /\ Len(name) \in Nat
    BY <1>1, <1>2, <1>3, <1>4, <1>5
  <2>2. Begins(p3, whole)
    BY <1>4, <1>5, <1>7, <2>1, BeginsTransitive
  <2>3. Begins(p2, whole)
    BY <1>3, <1>7, <2>1, <2>2, BeginsTransitive
  <2>4. Begins(p1, whole)
    BY <1>2, <1>7, <2>1, <2>3, BeginsTransitive
  <2>5. Begins(name, whole)
    BY <1>1, <1>7, <2>1, <2>4, BeginsTransitive
  <2> QED BY <2>2, <2>3, <2>4, <2>5
<1>9. WordAt(whole, e) = type
  <2>1. Len(p1) \in Nat /\ e + 2 <= Len(p1) /\ e \in Nat
    BY <1>6
  <2> QED BY <2>1, <1>1, <1>8, WordBegins DEF e
<1>10. WordAt(whole, e + 2) = class
  <2>1. Len(p2) \in Nat /\ (e + 2) + 2 <= Len(p2) /\ e + 2 \in Nat
    BY <1>6
  <2>2. WordAt(whole, e + 2) = WordAt(p2, e + 2)
    BY <2>1, <1>8, WordBegins
  <2>3. Len(p1) = e + 2
    BY <1>6
  <2> QED BY <2>2, <2>3, <1>2, Zenon
<1>11. WordAt(whole, e + 8) = Len(data)
  <2>1. Len(p4) \in Nat /\ (e + 8) + 2 <= Len(p4) /\ e + 8 \in Nat
    BY <1>6
  <2>2. WordAt(whole, e + 8) = WordAt(p4, e + 8)
    BY <2>1, <1>5, WordBegins
  <2>3. Len(p3) = e + 8
    BY <1>6
  <2> QED BY <2>2, <2>3, <1>4, Zenon
<1> QED BY <1>5, <1>6, <1>8, <1>9, <1>10, <1>11 DEF RecordLaidOut, e

\* The octets written are the octets read.
LEMMA OctetIsU8 == U8 = Octet
BY DEF U8, Octet

\* A record: its name, and what follows.
LEMMA RecordLayout ==
    ASSUME NEW record, IsRecord(record)
    PROVE  /\ NameLaidOut(record.labels, record.ending, Name(record))
           /\ RecordLaidOut(Name(record), record.type, record.class, record.data,
                            RecordOctets(record))
<1> DEFINE name == Name(record)
           w1 == WordOctets(record.type)
           w2 == WordOctets(record.class)
           lifetime == <<0, 0, 14, 16>>
           w4 == WordOctets(Len(record.data))
           p1 == name \o w1
           p2 == p1 \o w2
           p3 == p2 \o lifetime
           p4 == p3 \o w4
           whole == p4 \o record.data
<1>1. /\ record.labels \in Seq(Seq(Octet))
      /\ \A i \in 1..Len(record.labels) : IsLabel(record.labels[i])
      /\ IsEnding(record.ending)
      /\ record.data \in Seq(Octet)
  BY OctetIsU8, Zenon DEF IsRecord
<1>2. IsWord(w1, record.type) /\ IsWord(w2, record.class) /\ IsWord(w4, Len(record.data))
  <2>1. record.type \in U16 /\ record.class \in U16 /\ Len(record.data) \in U16
    BY Zenon DEF IsRecord
  <2> QED BY <2>1, WordIsWord, Zenon
<1>3. IsOctets(lifetime, 4)
  BY DEF IsOctets, Octet
<1>4. NameLaidOut(record.labels, record.ending, name)
  <2>1. IsConcat(FlattenSeq(Labels(record.labels)), record.ending, name)
    BY Zenon DEF Name, IsConcat
  <2> QED BY <1>1, <2>1, NameLayout, Zenon
<1>5. name \in Seq(Octet)
  BY <1>4, Zenon DEF NameLaidOut
<1>6. /\ IsConcat(name, w1, p1) /\ IsConcat(p1, w2, p2) /\ IsConcat(p2, lifetime, p3)
      /\ IsConcat(p3, w4, p4) /\ IsConcat(p4, record.data, whole)
  BY Zenon DEF IsConcat
<1>7. RecordOctets(record) = whole
  BY Zenon DEF RecordOctets
<1> HIDE DEF name, w1, w2, lifetime, w4, p1, p2, p3, p4, whole
<1>8. RecordLaidOut(name, record.type, record.class, record.data, whole)
  BY <1>1, <1>2, <1>3, <1>5, <1>6, FieldsLayout, Zenon
<1> QED BY <1>4, <1>7, <1>8, Zenon DEF name

\* The question: the name that was asked, and four octets.
LEMMA QuestionLayout ==
    ASSUME NEW domain \in Seq(Seq(Octet)), CanAsk(domain)
    PROVE  /\ NameLaidOut(domain, <<0>>, QuestionName(domain))
           /\ Question(domain) \in Seq(Octet)
           /\ Len(Question(domain)) = Len(QuestionName(domain)) + 4
           /\ Begins(QuestionName(domain), Question(domain))
<1> DEFINE name == QuestionName(domain)
           p1 == name \o WordOctets(28)
           whole == p1 \o WordOctets(1)
<1>1. IsEnding(<<0>>)
  BY DEF IsEnding, U8
<1>2. NameLaidOut(domain, <<0>>, name)
  <2>1. IsConcat(FlattenSeq(Labels(domain)), <<0>>, name)
    BY Zenon DEF QuestionName, IsConcat
  <2>2. \A i \in 1..Len(domain) : IsLabel(domain[i])
    BY Zenon DEF CanAsk
  <2> QED BY <1>1, <2>1, <2>2, NameLayout, Zenon
<1>3. name \in Seq(Octet)
  BY <1>2, Zenon DEF NameLaidOut
<1>4. IsWord(WordOctets(28), 28) /\ IsWord(WordOctets(1), 1)
  <2>1. 28 \in U16 /\ 1 \in U16
    BY DEF U16
  <2> QED BY <2>1, WordIsWord, Zenon
<1>5. IsConcat(name, WordOctets(28), p1) /\ IsConcat(p1, WordOctets(1), whole)
  BY Zenon DEF IsConcat
<1>6. Question(domain) = whole
  BY Zenon DEF Question
<1> HIDE DEF name, p1, whole
<1>7. /\ p1 \in Seq(Octet) /\ Len(name) \in Nat /\ Len(p1) = Len(name) + 2 /\ Begins(name, p1)
  BY <1>3, <1>4, <1>5, WordBehind
<1>8. /\ whole \in Seq(Octet) /\ Len(p1) \in Nat /\ Len(whole) = Len(p1) + 2 /\ Begins(p1, whole)
  BY <1>4, <1>5, <1>7, WordBehind, Zenon
<1>9. Len(whole) = Len(name) + 4 /\ Len(whole) \in Nat
  <2>2. \A a \in Nat : (a + 2) + 2 = a + 4 /\ a + 4 \in Nat
    OBVIOUS
  <2> QED BY <1>7, <1>8, <2>2, Zenon
<1>10. Begins(name, whole)
  BY <1>7, <1>8, <1>9, BeginsTransitive, Zenon
<1> QED BY <1>2, <1>6, <1>8, <1>9, <1>10, Zenon DEF name

\* The header, and what follows it.
HeaderLaidOut(id, questionCount, count, tail, whole) ==
    /\ whole \in Seq(Octet)
    /\ Len(whole) = 12 + Len(tail)
    /\ WordAt(whole, 0) = id
    /\ WordAt(whole, 4) = questionCount
    /\ WordAt(whole, 6) = count
    /\ \A i \in 1..Len(tail) : whole[12 + i] = tail[i]

\* The pieces of a header, one joined to the other.
LEMMA HeaderLayout ==
    ASSUME NEW id, NEW flags, NEW questionCount, NEW count,
           NEW p1, IsWord(p1, id), NEW w2, IsWord(w2, flags),
           NEW w3, IsWord(w3, questionCount), NEW w4, IsWord(w4, count),
           NEW rest, IsOctets(rest, 4), NEW tail, tail \in Seq(Octet),
           NEW p2, NEW p3, NEW p4, NEW p5, NEW whole,
           IsConcat(p1, w2, p2), IsConcat(p2, w3, p3), IsConcat(p3, w4, p4),
           IsConcat(p4, rest, p5), IsConcat(p5, tail, whole)
    PROVE  HeaderLaidOut(id, questionCount, count, tail, whole)
<1>1. p1 \in Seq(Octet)
  BY DEF IsWord
<1>2. Len(p1) = 2 /\ WordAt(p1, 0) = id
  <2>1. Len(p1) = 2 /\ 256 * p1[1] + p1[2] = id
    BY Zenon DEF IsWord
  <2>2. 0 + 1 = 1 /\ 0 + 2 = 2
    OBVIOUS
  <2> QED BY <2>1, <2>2, Zenon DEF WordAt
<1>3. p2 \in Seq(Octet) /\ Len(p2) = Len(p1) + 2 /\ Begins(p1, p2)
  BY <1>1, WordBehind
<1>4. /\ p3 \in Seq(Octet) /\ Len(p3) = Len(p2) + 2 /\ Begins(p2, p3)
      /\ WordAt(p3, Len(p2)) = questionCount
  BY <1>3, WordBehind
<1>5. /\ p4 \in Seq(Octet) /\ Len(p4) = Len(p3) + 2 /\ Begins(p3, p4)
      /\ WordAt(p4, Len(p3)) = count
  BY <1>4, WordBehind
<1>6. p5 \in Seq(Octet) /\ Len(p5) = Len(p4) + 4 /\ Begins(p4, p5)
  <2>1. rest \in Seq(Octet)
    BY DEF IsOctets
  <2>2. p5 \in Seq(Octet) /\ Len(p5) = Len(p4) + Len(rest) /\ Begins(p4, p5)
    BY <1>5, <2>1, ConcatFacts
  <2>3. Len(rest) = 4
    BY DEF IsOctets
  <2> QED BY <2>2, <2>3, Zenon
<1>7. /\ whole \in Seq(Octet) /\ Len(tail) \in Nat /\ Len(whole) \in Nat
      /\ Len(whole) = Len(p5) + Len(tail) /\ Begins(p5, whole)
      /\ \A i \in 1..Len(tail) : whole[Len(p5) + i] = tail[i]
  <2>1. /\ whole \in Seq(Octet) /\ Len(tail) \in Nat
        /\ Len(whole) = Len(p5) + Len(tail) /\ Begins(p5, whole)
        /\ \A i \in 1..Len(tail) : whole[Len(p5) + i] = tail[i]
    BY <1>6, ConcatFacts
  <2>2. Len(whole) \in Nat
    BY <2>1
  <2> QED BY <2>1, <2>2, Zenon
<1>8. Len(p1) = 2 /\ Len(p2) = 4 /\ Len(p3) = 6 /\ Len(p4) = 8 /\ Len(p5) = 12
  <2>1. 2 + 2 = 4 /\ 4 + 2 = 6 /\ 6 + 2 = 8 /\ 8 + 4 = 12
    OBVIOUS
  <2> QED BY <2>1, <1>2, <1>3, <1>4, <1>5, <1>6, Zenon
<1>9. Begins(p4, whole) /\ Begins(p3, whole) /\ Begins(p2, whole) /\ Begins(p1, whole)
  <2>1. /\ Len(p1) \in Nat /\ Len(p2) \in Nat /\ Len(p3) \in Nat /\ Len(p4) \in Nat
        /\ Len(p5) \in Nat
    BY <1>8
  <2>2. Begins(p4, whole)
    BY <1>6, <1>7, <2>1, BeginsTransitive
  <2>3. Begins(p3, whole)
    BY <1>5, <1>7, <2>1, <2>2, BeginsTransitive
  <2>4. Begins(p2, whole)
    BY <1>4, <1>7, <2>1, <2>3, BeginsTransitive
  <2>5. Begins(p1, whole)
    BY <1>3, <1>7, <2>1, <2>4, BeginsTransitive
  <2> QED BY <2>2, <2>3, <2>4, <2>5
<1>10. WordAt(whole, 0) = id
  <2>1. Len(p1) \in Nat /\ 0 \in Nat /\ 0 + 2 <= Len(p1)
    BY <1>8
  <2>2. WordAt(whole, 0) = WordAt(p1, 0)
    BY <1>9, <2>1, WordBegins
  <2> QED BY <1>2, <2>2, Zenon
<1>11. WordAt(whole, 4) = questionCount
  <2>1. Len(p3) \in Nat /\ 4 \in Nat /\ 4 + 2 <= Len(p3)
    BY <1>8
  <2>2. WordAt(whole, 4) = WordAt(p3, 4)
    BY <1>9, <2>1, WordBegins
  <2> QED BY <1>4, <1>8, <2>2, Zenon
<1>12. WordAt(whole, 6) = count
  <2>1. Len(p4) \in Nat /\ 6 \in Nat /\ 6 + 2 <= Len(p4)
    BY <1>8
  <2>2. WordAt(whole, 6) = WordAt(p4, 6)
    BY <1>9, <2>1, WordBegins
  <2> QED BY <1>5, <1>8, <2>2, Zenon
<1> QED BY <1>7, <1>8, <1>10, <1>11, <1>12, Zenon DEF HeaderLaidOut

\* What is echoed of the question.
Echoed(message) == IF message.echo THEN Question(message.domain) ELSE <<>>

\* The header, and the question where it is echoed.
LEMMA PreambleLayout ==
    ASSUME NEW message, IsMessage(message), CanAsk(message.domain)
    PROVE  /\ HeaderLaidOut(message.id, IF message.echo THEN 1 ELSE 0, message.count,
                            Echoed(message), Preamble(message))
           /\ Echoed(message) \in Seq(Octet)
<1> DEFINE n == IF message.echo THEN 1 ELSE 0
           p1 == WordOctets(message.id)
           w2 == WordOctets(Flags)
           w3 == WordOctets(n)
           w4 == WordOctets(message.count)
           rest == <<0, 0, 0, 0>>
           p2 == p1 \o w2
           p3 == p2 \o w3
           p4 == p3 \o w4
           p5 == p4 \o rest
           tail == Echoed(message)
           whole == p5 \o tail
<1>1. /\ message.id \in U16 /\ message.count \in U16
      /\ message.domain \in Seq(Seq(Octet))
  BY OctetIsU8, Zenon DEF IsMessage
<1>2. tail \in Seq(Octet)
  <2>1. Question(message.domain) \in Seq(Octet)
    BY <1>1, QuestionLayout, Zenon
  <2>2. <<>> \in Seq(Octet)
    OBVIOUS
  <2> QED BY <2>1, <2>2, Zenon DEF Echoed
<1>3. n \in U16 /\ Flags \in U16
  BY DEF U16, Flags
<1>4. /\ IsWord(p1, message.id) /\ IsWord(w2, Flags) /\ IsWord(w3, n)
      /\ IsWord(w4, message.count)
  <2> HIDE DEF n
  <2> QED BY <1>1, <1>3, WordIsWord, Zenon
<1>5. IsOctets(rest, 4)
  BY DEF IsOctets, Octet
<1>6. /\ IsConcat(p1, w2, p2) /\ IsConcat(p2, w3, p3) /\ IsConcat(p3, w4, p4)
      /\ IsConcat(p4, rest, p5) /\ IsConcat(p5, tail, whole)
  <2> HIDE DEF p1, w2, w3, w4, rest, tail
  <2> QED BY Zenon DEF IsConcat
<1>7. Preamble(message) = whole
  BY Zenon DEF Preamble, Echoed
<1> HIDE DEF p1, w2, w3, w4, rest, p2, p3, p4, p5, tail, whole
<1>8. HeaderLaidOut(message.id, n, message.count, tail, whole)
  <2> HIDE DEF n
  <2> QED BY <1>2, <1>4, <1>5, <1>6, HeaderLayout
<1> QED BY <1>2, <1>7, <1>8, Zenon DEF tail

\* A part lies in a sequence behind its first `base` octets.
Within(s, base, part) ==
    /\ base \in Nat
    /\ Len(part) \in Nat
    /\ Len(s) \in Nat
    /\ base + Len(part) <= Len(s)
    /\ \A i \in 1..Len(part) : s[base + i] = part[i]

\* What begins a part lies there too.
LEMMA WithinBegins ==
    ASSUME NEW s, NEW base, NEW part, Within(s, base, part),
           NEW first, Len(first) \in Nat, Begins(first, part)
    PROVE  Within(s, base, first)
<1>1. Len(first) <= Len(part) /\ \A i \in 1..Len(first) : part[i] = first[i]
  BY DEF Begins
<1>2. \A i \in 1..Len(first) : s[base + i] = first[i]
  <2>1. \A i \in 1..Len(first) : i \in 1..Len(part)
    BY <1>1 DEF Within
  <2> QED BY <1>1, <2>1 DEF Within
<1>3. base + Len(first) <= Len(s)
  BY <1>1 DEF Within
<1> QED BY <1>2, <1>3 DEF Within

\* A word of a part is read where the part lies.
LEMMA WithinWord ==
    ASSUME NEW s, NEW base, NEW part, Within(s, base, part),
           NEW i \in Nat, i + 2 <= Len(part)
    PROVE  WordAt(s, base + i) = WordAt(part, i)
<1>1. i + 1 \in 1..Len(part) /\ i + 2 \in 1..Len(part)
  BY DEF Within
<1>2. s[base + (i + 1)] = part[i + 1] /\ s[base + (i + 2)] = part[i + 2]
  BY <1>1 DEF Within
<1>3. base + (i + 1) = (base + i) + 1 /\ base + (i + 2) = (base + i) + 2
  BY DEF Within
<1> QED BY <1>2, <1>3, Zenon DEF WordAt

\* What follows the name of the record behind the first i.
FixedAt(message, i) == EndOfRecord(message, i) + Len(Name(message.records[i + 1]))

\* The record behind the first i, where it is in a message.
RecordIn(message, i, octets) ==
    LET record == message.records[i + 1]
        fixed == FixedAt(message, i)
    IN /\ NameLaidOut(record.labels, record.ending, Name(record))
       /\ Within(octets, EndOfRecord(message, i), Name(record))
       /\ fixed \in Nat
       /\ Len(record.data) \in Nat
       /\ EndOfRecord(message, i + 1) = fixed + 10 + Len(record.data)
       /\ EndOfRecord(message, i + 1) <= Len(octets)
       /\ WordAt(octets, fixed) = record.type
       /\ WordAt(octets, fixed + 2) = record.class
       /\ WordAt(octets, fixed + 8) = Len(record.data)

\* Where a record was laid out, it is found.
LEMMA RecordFound ==
    ASSUME NEW message, NEW i, NEW octets, IsRecord(message.records[i + 1]),
           Within(octets, EndOfRecord(message, i), RecordOctets(message.records[i + 1])),
           EndOfRecord(message, i + 1) =
              EndOfRecord(message, i) + Len(RecordOctets(message.records[i + 1]))
    PROVE  RecordIn(message, i, octets)
<1> DEFINE record == message.records[i + 1]
           name == Name(record)
           whole == RecordOctets(record)
           data == record.data
           e == EndOfRecord(message, i)
           f == EndOfRecord(message, i + 1)
           fixed == FixedAt(message, i)
<1>1. /\ NameLaidOut(record.labels, record.ending, name)
      /\ RecordLaidOut(name, record.type, record.class, data, whole)
  BY RecordLayout
<1>2. Len(name) \in Nat
  <2>1. name \in Seq(Octet)
    BY <1>1, Zenon DEF NameLaidOut
  <2> HIDE DEF name
  <2> QED BY <2>1
<1>3. Len(data) \in Nat
  <2>1. data \in Seq(U8)
    BY Zenon DEF IsRecord
  <2> HIDE DEF data
  <2> QED BY <2>1
<1>4. Within(octets, e, whole) /\ f = e + Len(whole) /\ fixed = e + Len(name)
  BY Zenon DEF FixedAt
<1>5. /\ Len(whole) = Len(name) + 10 + Len(data)
      /\ Begins(name, whole)
      /\ WordAt(whole, Len(name)) = record.type
      /\ WordAt(whole, Len(name) + 2) = record.class
      /\ WordAt(whole, Len(name) + 8) = Len(data)
  BY <1>1, Zenon DEF RecordLaidOut
<1> DEFINE type == record.type
           class == record.class
<1>6. WordAt(whole, Len(name)) = type /\ WordAt(whole, Len(name) + 2) = class
  BY <1>5, Zenon
<1> HIDE DEF name, whole, data, e, f, fixed, record, type, class
<1>7. Within(octets, e, name)
  BY <1>2, <1>4, <1>5, WithinBegins
<1>8. e \in Nat /\ Len(octets) \in Nat /\ f <= Len(octets)
  BY <1>4 DEF Within
<1>9. fixed \in Nat /\ f = fixed + 10 + Len(data)
  <2> DEFINE n == Len(name)
             d == Len(data)
             w == Len(whole)
  <2>1. n \in Nat /\ d \in Nat /\ w = n + 10 + d /\ f = e + w /\ fixed = e + n /\ e \in Nat
    BY <1>2, <1>3, <1>4, <1>5, <1>8, Zenon
  <2> HIDE DEF n, d, w
  <2>2. fixed \in Nat /\ f = fixed + 10 + d
    BY <2>1
  <2> QED BY <2>2, Zenon DEF d
<1>10. WordAt(octets, fixed) = type
  <2>1. Len(name) + 2 <= Len(whole)
    BY <1>2, <1>3, <1>5
  <2>2. WordAt(octets, e + Len(name)) = WordAt(whole, Len(name))
    BY <1>2, <1>4, <2>1, WithinWord
  <2> QED BY <1>4, <1>6, <2>2, Zenon
<1>11. WordAt(octets, fixed + 2) = class
  <2>1. (Len(name) + 2) + 2 <= Len(whole) /\ Len(name) + 2 \in Nat
    BY <1>2, <1>3, <1>5
  <2>2. WordAt(octets, e + (Len(name) + 2)) = WordAt(whole, Len(name) + 2)
    BY <1>4, <2>1, WithinWord
  <2>3. e + (Len(name) + 2) = fixed + 2
    BY <1>2, <1>4, <1>8
  <2> QED BY <1>6, <2>2, <2>3, Zenon
<1>12. WordAt(octets, fixed + 8) = Len(data)
  <2>1. (Len(name) + 8) + 2 <= Len(whole) /\ Len(name) + 8 \in Nat
    BY <1>2, <1>3, <1>5
  <2>2. WordAt(octets, e + (Len(name) + 8)) = WordAt(whole, Len(name) + 8)
    BY <1>4, <2>1, WithinWord
  <2>3. e + (Len(name) + 8) = fixed + 8
    BY <1>2, <1>4, <1>8
  <2> QED BY <1>5, <2>2, <2>3, Zenon
<1>13. NameLaidOut(record.labels, record.ending, name)
  BY <1>1, Zenon DEF record, name
<1> QED BY <1>3, <1>7, <1>8, <1>9, <1>10, <1>11, <1>12, <1>13, Zenon
        DEF RecordIn, record, name, data, e, f, fixed, type, class

\* Where everything in a message is.
MessageLaidOut(message, octets) ==
    /\ octets \in Seq(Octet)
    /\ WordAt(octets, 0) = message.id
    /\ WordAt(octets, 4) = IF message.echo THEN 1 ELSE 0
    /\ WordAt(octets, 6) = message.count
    /\ EndOfRecord(message, 0) >= 12
    /\ ~message.echo => EndOfRecord(message, 0) = 12
    /\ message.echo =>
         /\ NameLaidOut(message.domain, <<0>>, QuestionName(message.domain))
         /\ Within(octets, 12, QuestionName(message.domain))
         /\ EndOfRecord(message, 0) = 12 + Len(QuestionName(message.domain)) + 4
    /\ EndOfRecord(message, Len(message.records)) = Len(octets)
    /\ \A i \in 0..Len(message.records) : EndOfRecord(message, i) \in Nat
    /\ \A i \in 0..Len(message.records) : \A k \in i..Len(message.records) :
         EndOfRecord(message, i) <= EndOfRecord(message, k)
    /\ \A i \in 0..(Len(message.records) - 1) : RecordIn(message, i, octets)

\* Every message is laid out so.
LEMMA MessageLayout ==
    ASSUME NEW message, IsMessage(message), CanAsk(message.domain)
    PROVE  MessageLaidOut(message, Octets(message))
<1> DEFINE n == Len(message.records)
           parts == Records(message)
           all == FlattenSeq(parts)
           front == Preamble(message)
           octets == Octets(message)
           echoed == Echoed(message)
           E(i) == EndOfRecord(message, i)
<1>1. n \in Nat /\ \A i \in 1..n : IsRecord(message.records[i])
  BY Zenon DEF IsMessage
<1>2. \A i \in 1..n : RecordOctets(message.records[i]) \in Seq(Octet)
  BY <1>1, RecordLayout, Zenon DEF RecordLaidOut
<1>3. parts = [i \in 1..n |-> RecordOctets(message.records[i])]
  BY Zenon DEF Records
<1>4. parts \in [1..n -> Seq(Octet)] /\ \A i \in 1..n : parts[i] = RecordOctets(message.records[i])
  <2> HIDE DEF parts, n
  <2> QED BY <1>2, <1>3
<1>5. parts \in Seq(Seq(Octet)) /\ Len(parts) = n
  <2> HIDE DEF parts, n
  <2> QED BY <1>1, <1>4, FunctionIsSeq
<1> HIDE DEF parts
<1>6. /\ all = Joined(parts, n) /\ all \in Seq(Octet) /\ Joined(parts, 0) = <<>>
      /\ \A k \in 0..n : Len(Joined(parts, k)) \in Nat
  <2> HIDE DEF n
  <2> QED BY <1>5, JoinedEnds
<1>7. /\ HeaderLaidOut(message.id, IF message.echo THEN 1 ELSE 0, message.count, echoed, front)
      /\ echoed \in Seq(Octet)
  BY PreambleLayout, Zenon
<1>8. /\ front \in Seq(Octet)
      /\ Len(front) = 12 + Len(echoed)
      /\ WordAt(front, 0) = message.id
      /\ WordAt(front, 4) = IF message.echo THEN 1 ELSE 0
      /\ WordAt(front, 6) = message.count
      /\ \A i \in 1..Len(echoed) : front[12 + i] = echoed[i]
  BY <1>7, Zenon DEF HeaderLaidOut
<1>9. IsConcat(front, all, octets)
  BY Zenon DEF Octets, IsConcat, parts
<1>10. \A i \in 0..n : E(i) = Len(front) + Len(Joined(parts, i))
  BY Zenon DEF EndOfRecord, parts
<1> HIDE DEF all, front, octets, echoed, E, n
<1>11. /\ octets \in Seq(Octet) /\ Len(front) \in Nat /\ Len(all) \in Nat
       /\ Len(octets) = Len(front) + Len(all)
       /\ Begins(front, octets)
       /\ \A i \in 1..Len(all) : octets[Len(front) + i] = all[i]
  <2>1. front \in Seq(Octet) /\ all \in Seq(Octet)
    BY <1>6, <1>8, Zenon
  <2> QED BY <1>9, <2>1, ConcatFacts
<1>12. Len(octets) \in Nat /\ Len(echoed) \in Nat
  BY <1>7, <1>11
<1>13. /\ WordAt(octets, 0) = message.id
       /\ WordAt(octets, 4) = IF message.echo THEN 1 ELSE 0
       /\ WordAt(octets, 6) = message.count
  <2>1. /\ 0 \in Nat /\ 0 + 2 <= Len(front) /\ 4 \in Nat /\ 4 + 2 <= Len(front)
        /\ 6 \in Nat /\ 6 + 2 <= Len(front)
    BY <1>8, <1>11, <1>12
  <2>2. /\ WordAt(octets, 0) = WordAt(front, 0) /\ WordAt(octets, 4) = WordAt(front, 4)
        /\ WordAt(octets, 6) = WordAt(front, 6)
    BY <1>11, <2>1, WordBegins
  <2> QED BY <1>8, <2>2, Zenon
<1>14. E(0) = Len(front) /\ E(n) = Len(octets) /\ \A i \in 0..n : E(i) \in Nat
  <2>1. 0 \in 0..n /\ n \in 0..n
    BY <1>1
  <2>2. Len(<<>>) = 0
    OBVIOUS
  <2>3. E(0) = Len(front) + 0 /\ E(n) = Len(front) + Len(all)
    BY <1>6, <1>10, <2>1, <2>2, Zenon
  <2>4. Len(front) + 0 = Len(front)
    BY <1>11
  <2>5. ASSUME NEW i \in 0..n PROVE E(i) \in Nat
    <3>1. Len(Joined(parts, i)) \in Nat
      BY <1>6
    <3> QED BY <1>10, <1>11, <3>1
  <2> QED BY <1>11, <2>3, <2>4, <2>5, Zenon
<1>15. \A i \in 0..n : \A k \in i..n : E(i) <= E(k)
  <2> SUFFICES ASSUME NEW i \in 0..n, NEW k \in i..n PROVE E(i) <= E(k)
    OBVIOUS
  <2>1. Begins(Joined(parts, i), Joined(parts, k))
    BY <1>5, JoinedBegins
  <2>2. Len(Joined(parts, i)) <= Len(Joined(parts, k))
    BY <2>1 DEF Begins
  <2>3. i \in 0..n /\ k \in 0..n
    BY <1>1
  <2> QED BY <1>6, <1>10, <1>11, <2>2, <2>3
<1>16. ASSUME NEW i \in 0..(n - 1) PROVE RecordIn(message, i, octets)
  <2> DEFINE part == parts[i + 1]
             base == Len(Joined(parts, i))
  <2>1. i + 1 \in 1..n /\ i \in 0..n /\ i + 1 \in 0..n /\ i \in 0..(Len(parts) - 1)
    BY <1>1, <1>5
  <2>2. /\ base \in Nat
        /\ Len(Joined(parts, i + 1)) = base + Len(part)
        /\ Len(Joined(parts, i + 1)) <= Len(all)
        /\ \A q \in 1..Len(part) : all[base + q] = part[q]
    BY <1>5, <2>1, PartOf DEF all
  <2>3. part \in Seq(Octet)
    BY <1>5, <2>1
  <2>4. part = RecordOctets(message.records[i + 1]) /\ IsRecord(message.records[i + 1])
    BY <1>1, <1>4, <2>1, Zenon
  <2>5. E(i) = Len(front) + base /\ E(i + 1) = Len(front) + Len(Joined(parts, i + 1))
    BY <1>10, <2>1, Zenon
  <2> HIDE DEF part, base
  <2>6. Len(part) \in Nat
    BY <2>3
  <2>7. E(i) \in Nat /\ E(i + 1) = E(i) + Len(part)
    <3>1. E(i + 1) = Len(front) + (base + Len(part))
      BY <2>2, <2>5, Zenon
    <3>2. Len(front) \in Nat /\ base \in Nat
      BY <1>11, <2>2
    <3>3. Len(front) + (base + Len(part)) = (Len(front) + base) + Len(part)
      BY <2>6, <3>2
    <3>4. Len(front) + base \in Nat
      BY <3>2
    <3> QED BY <2>5, <3>1, <3>3, <3>4, Zenon
  <2>8. E(i) + Len(part) <= Len(octets)
    BY <1>11, <2>2, <2>5, <2>6
  <2>9. \A q \in 1..Len(part) : octets[E(i) + q] = part[q]
    <3> SUFFICES ASSUME NEW q \in 1..Len(part) PROVE octets[E(i) + q] = part[q]
      OBVIOUS
    <3>1. base + q \in 1..Len(all)
      BY <1>11, <2>2, <2>6
    <3>2. octets[Len(front) + (base + q)] = all[base + q]
      BY <1>11, <3>1
    <3>3. Len(front) + (base + q) = E(i) + q
      BY <1>11, <2>2, <2>5, <2>6
    <3> QED BY <2>2, <3>2, <3>3, Zenon
  <2>10. Within(octets, E(i), part)
    BY <1>12, <2>6, <2>7, <2>8, <2>9, Zenon DEF Within
  <2> QED BY <2>4, <2>7, <2>10, RecordFound, Zenon DEF E
<1>17. E(0) >= 12
  BY <1>8, <1>12, <1>14
<1>18. ASSUME ~message.echo PROVE E(0) = 12
  <2>1. Len(echoed) = 0
    <3>1. echoed = <<>>
      BY <1>18, Zenon DEF echoed, Echoed
    <3> QED BY <3>1
  <2> QED BY <1>8, <1>14, <2>1
<1>19. ASSUME message.echo
       PROVE  /\ NameLaidOut(message.domain, <<0>>, QuestionName(message.domain))
              /\ Within(octets, 12, QuestionName(message.domain))
              /\ E(0) = 12 + Len(QuestionName(message.domain)) + 4
  <2> DEFINE name == QuestionName(message.domain)
  <2>1. echoed = Question(message.domain)
    BY <1>19, Zenon DEF echoed, Echoed
  <2>2. message.domain \in Seq(Seq(Octet))
    BY OctetIsU8, Zenon DEF IsMessage
  <2>3. /\ NameLaidOut(message.domain, <<0>>, name)
        /\ Len(echoed) = Len(name) + 4
        /\ Begins(name, echoed)
    BY <2>1, <2>2, QuestionLayout, Zenon
  <2>4. name \in Seq(Octet)
    BY <2>3, Zenon DEF NameLaidOut
  <2> HIDE DEF name
  <2>5. Len(name) \in Nat
    BY <2>4
  <2>6. \A i \in 1..Len(echoed) : octets[12 + i] = echoed[i]
    <3> SUFFICES ASSUME NEW i \in 1..Len(echoed) PROVE octets[12 + i] = echoed[i]
      OBVIOUS
    <3>1. 12 + i \in 1..Len(front)
      BY <1>8, <1>12
    <3>2. octets[12 + i] = front[12 + i]
      BY <1>11, <3>1 DEF Begins
    <3> QED BY <1>8, <3>2, Zenon
  <2>7. 12 \in Nat /\ 12 + Len(echoed) <= Len(octets)
    BY <1>8, <1>11, <1>12
  <2>8. Within(octets, 12, echoed)
    BY <1>12, <2>6, <2>7, Zenon DEF Within
  <2>9. Within(octets, 12, name)
    BY <2>3, <2>5, <2>8, WithinBegins
  <2>10. E(0) = 12 + Len(name) + 4
    BY <1>8, <1>12, <1>14, <2>3, <2>5
  <2> QED BY <2>3, <2>9, <2>10, Zenon DEF name
<1> QED BY <1>11, <1>13, <1>14, <1>15, <1>16, <1>17, <1>18, <1>19, Zenon
        DEF MessageLaidOut, octets, n, E

\* The octets of a name, label by label: what is read at the offset o of the
\* label behind the first j.
NameRead(s, base, labels, ending, name, j, o) ==
    /\ o \in Nat
    /\ o < base + Len(name)
    /\ base + Len(name) \in Nat
    /\ j < Len(labels) =>
         /\ s[o + 1] \in 1..63
         /\ base + LabelAt(labels, j + 1) = o + 1 + s[o + 1]
         /\ o + 1 + s[o + 1] < base + Len(name)
    /\ j = Len(labels) =>
         s[o + 1] = ending[1] /\ o + Len(ending) = base + Len(name)

\* It is what the layout says.
LEMMA NameReads ==
    ASSUME NEW s, NEW base, NEW labels, NEW ending, NEW name, Len(labels) \in Nat,
           NameLaidOut(labels, ending, name), IsEnding(ending), Within(s, base, name),
           NEW j \in 0..Len(labels), NEW o, o = base + LabelAt(labels, j)
    PROVE  NameRead(s, base, labels, ending, name, j, o)
<1> DEFINE n == Len(labels)
           l == LabelAt(labels, j)
<1>1. n \in Nat /\ l \in Nat /\ l < Len(name)
  BY DEF NameLaidOut
<1>2. base \in Nat /\ Len(name) \in Nat
  BY DEF Within
<1>3. o = base + l
  OBVIOUS
<1>4. s[base + (l + 1)] = name[l + 1]
  <2>1. l + 1 \in 1..Len(name)
    BY <1>1, <1>2
  <2> HIDE DEF l
  <2> QED BY <2>1 DEF Within
<1>5. base + (l + 1) = o + 1
  <2> HIDE DEF l
  <2> QED BY <1>1, <1>2, <1>3
<1>6. s[o + 1] = name[l + 1]
  BY <1>4, <1>5, Zenon
<1>7. ASSUME j < n
      PROVE  /\ s[o + 1] \in 1..63
             /\ base + LabelAt(labels, j + 1) = o + 1 + s[o + 1]
             /\ o + 1 + s[o + 1] < base + Len(name)
  <2> DEFINE label == Len(labels[j + 1])
             next == LabelAt(labels, j + 1)
  <2>1. j \in 0..(n - 1) /\ j + 1 \in 0..n
    BY <1>1, <1>7
  <2>2. label \in 1..63 /\ name[l + 1] = label /\ next = l + 1 + label
    BY <2>1, Zenon DEF NameLaidOut
  <2>3. next < Len(name)
    BY <2>1, Zenon DEF NameLaidOut
  <2>4. s[o + 1] = label
    BY <1>6, <2>2, Zenon
  <2> HIDE DEF l, n, label, next
  <2>5. base + next = o + 1 + label /\ o + 1 + label < base + Len(name)
    <3>1. label \in Nat /\ next \in Nat
      BY <1>1, <2>2
    <3>2. base \in Nat /\ l \in Nat /\ Len(name) \in Nat /\ o = base + l
      BY <1>1, <1>2, <1>3, Zenon
    <3>3. next = l + 1 + label /\ next < Len(name)
      BY <2>2, <2>3, Zenon
    <3>4. base + next = o + 1 + label
      BY <3>1, <3>2, <3>3
    <3>5. base + next < base + Len(name)
      BY <3>1, <3>2, <3>3
    <3> QED BY <3>4, <3>5
  <2> QED BY <2>2, <2>4, <2>5, Zenon DEF next
<1>8. ASSUME j = n
      PROVE  s[o + 1] = ending[1] /\ o + Len(ending) = base + Len(name)
  <2> DEFINE e == Len(ending)
  <2>1. name[l + 1] = ending[1] /\ l + e = Len(name)
    BY <1>8, Zenon DEF NameLaidOut
  <2>2. e \in {1, 2}
    BY Zenon DEF IsEnding
  <2>3. s[o + 1] = ending[1]
    BY <1>6, <2>1, Zenon
  <2> HIDE DEF l, n, e
  <2>4. o + e = base + Len(name)
    BY <1>1, <1>2, <1>3, <2>1, <2>2
  <2> QED BY <2>3, <2>4, Zenon DEF e
<1>9. o \in Nat /\ o < base + Len(name) /\ base + Len(name) \in Nat
  <2> HIDE DEF l, n
  <2> QED BY <1>1, <1>2, <1>3
<1> QED BY <1>7, <1>8, <1>9, Zenon DEF NameRead

\* The walk through a name of which some has arrived: it goes from label to
\* label to the end of the name, or stops at an end of no meaning or at the
\* end of the datagram.
LEMMA NameWalked ==
    ASSUME NEW s, NEW base, NEW labels, NEW ending, NEW name, Len(labels) \in Nat,
           NameLaidOut(labels, ending, name), IsEnding(ending), Within(s, base, name),
           NEW j \in 0..Len(labels), offset = base + LabelAt(labels, j),
           Begins(packet, s), Len(packet) \in Nat
    PROVE  /\ SkipLabel =>
                j + 1 \in 0..Len(labels) /\ offset' = base + LabelAt(labels, j + 1)
           /\ SkipName =>
                /\ offset' = base + Len(name)
                /\ offset' <= Len(packet)
                /\ ending[1] \notin 64..191
           /\ RejectName => ending[1] \in 64..191 \/ base + Len(name) > Len(packet)
<1> DEFINE n == Len(labels)
           octet == packet[offset + 1]
           e == Len(ending)
           last == base + Len(name)
<1>1. /\ offset \in Nat /\ offset < last /\ last \in Nat
      /\ j < n => /\ s[offset + 1] \in 1..63
                  /\ base + LabelAt(labels, j + 1) = offset + 1 + s[offset + 1]
                  /\ offset + 1 + s[offset + 1] < last
      /\ j = n => s[offset + 1] = ending[1] /\ offset + e = last
  <2>1. NameRead(s, base, labels, ending, name, j, offset)
    BY NameReads, Zenon
  <2> QED BY <2>1, Zenon DEF NameRead
<1>2. ASSUME offset < Len(packet)
      PROVE  /\ j < n => /\ octet \in 1..63
                         /\ base + LabelAt(labels, j + 1) = offset + 1 + octet
                         /\ offset + 1 + octet < last
             /\ j = n => octet = ending[1] /\ offset + e = last
  <2>1. offset + 1 \in 1..Len(packet)
    BY <1>1, <1>2
  <2>2. octet = s[offset + 1]
    BY <2>1 DEF Begins
  <2> QED BY <1>1, <2>2, Zenon
<1>3. j < n \/ j = n
  OBVIOUS
<1>4. /\ e \in {1, 2}
      /\ ending[1] \notin 1..63
      /\ e = 2 <=> ending[1] >= 192
  BY Zenon DEF IsEnding
<1>5. ending[1] \in 0..255
  <2>1. ending \in Seq(U8)
    BY Zenon DEF IsEnding
  <2>2. 1 \in 1..Len(ending)
    <3> HIDE DEF e
    <3>1. 1 \in 1..e
      BY <1>4
    <3> QED BY <3>1, Zenon DEF e
  <2>3. ending[1] \in U8
    BY <2>1, <2>2
  <2> QED BY <2>3, Zenon DEF U8
<1> DEFINE x == ending[1]
<1>6. x \in 0..255 /\ x \notin 1..63 /\ (e = 2 <=> x >= 192) /\ e \in {1, 2}
  BY <1>4, <1>5, Zenon
<1> DEFINE next == LabelAt(labels, j + 1)
<1>7. ASSUME offset < Len(packet)
      PROVE  /\ j < n => octet \in 1..63 /\ base + next = offset + 1 + octet
                         /\ offset + 1 + octet < last
             /\ j = n => octet = x /\ offset + e = last
  BY <1>2, <1>7, Zenon
<1> HIDE DEF n, octet, e, last, x, next
<1>8. ASSUME SkipLabel
      PROVE  j + 1 \in 0..n /\ offset' = base + next
  <2>1. offset < Len(packet) /\ octet \in 1..63 /\ offset' = offset + 1 + octet
    BY <1>8 DEF SkipLabel, InName, octet
  <2>2. j < n
    BY <1>3, <1>6, <1>7, <2>1
  <2>3. j + 1 \in 0..n
    BY <2>2 DEF n
  <2> QED BY <1>7, <2>1, <2>2, <2>3, Zenon
<1>9. ASSUME SkipName
      PROVE  offset' = last /\ offset' <= Len(packet) /\ x \notin 64..191
  <2>1. /\ offset < Len(packet) /\ offset' <= Len(packet)
        /\ \/ octet = 0 /\ offset' = offset + 1
           \/ octet >= 192 /\ offset' = offset + 2
    BY <1>9 DEF SkipName, InName, octet
  <2>2. ~(j < n)
    <3> SUFFICES ASSUME j < n PROVE FALSE
      OBVIOUS
    <3>1. octet \in 1..63
      BY <1>7, <2>1, Zenon
    <3> QED BY <2>1, <3>1
  <2>3. octet = x /\ offset + e = last
    BY <1>3, <1>7, <2>1, <2>2, Zenon
  <2>4. offset' = last /\ x \notin 64..191
    BY <1>6, <2>1, <2>3
  <2> QED BY <2>1, <2>4
<1>10. ASSUME RejectName, x \notin 64..191
       PROVE  last > Len(packet)
  <2>1. CASE ~(offset < Len(packet))
    BY <1>1, <2>1
  <2>2. CASE offset < Len(packet)
    <3>1. \/ octet \in 64..191
          \/ octet >= 192 /\ offset + 2 > Len(packet)
          \/ octet < 64 /\ offset + 1 + octet > Len(packet)
      BY <1>10, <2>2 DEF RejectName, NameBroken, octet
    <3>2. CASE j < n
      <4>1. octet \in 1..63 /\ offset + 1 + octet < last
        BY <1>7, <2>2, <3>2, Zenon
      <4>2. offset + 1 + octet > Len(packet)
        BY <3>1, <4>1
      <4>3. last \in Nat /\ offset \in Nat
        BY <1>1, Zenon
      <4>4. octet \in Nat
        BY <4>1
      <4>5. offset + 1 + octet \in Nat
        BY <4>3, <4>4
      <4> QED BY <4>1, <4>2, <4>3, <4>5
    <3>3. CASE j = n
      <4>1. octet = x /\ offset + e = last
        BY <1>7, <2>2, <3>3
      <4>2. CASE x >= 192
        <5>1. e = 2
          BY <1>6, <4>2
        <5> QED BY <1>1, <1>6, <3>1, <4>1, <4>2, <5>1
      <4>3. CASE ~(x >= 192)
        <5>1. e = 1 /\ x = 0
          BY <1>6, <1>10, <4>3
        <5> QED BY <1>1, <3>1, <4>1, <5>1
      <4> QED BY <4>2, <4>3
    <3> QED BY <1>3, <3>2, <3>3
  <2> QED BY <2>1, <2>2
<1> QED BY <1>8, <1>9, <1>10 DEF n, last, x, next

(***************************************************************************)
(* The walk, and where it is in the message.                               *)
(***************************************************************************)

HoldsAddress(record) == record.type = 28 /\ record.class = 1 /\ Len(record.data) = 16

\* The first i records are behind: they arrived and hold nothing of use.
Passed(message, size, i) ==
    /\ i \in 0..Len(message.records)
    /\ EndOfRecord(message, i) <= size
    /\ \A j \in 1..i :
         WellFormed(message.records[j]) /\ ~HoldsAddress(message.records[j])

\* What there is to walk through.
Arrived(message, size) ==
    /\ IsMessage(message)
    /\ CanAsk(message.domain)
    /\ size \in 0..Len(Octets(message))
    /\ packet = SubSeq(Octets(message), 1, size)

\* The offset, by where the walk is: at the question or behind it, at a label
\* of its name, behind its name.
InQuestion(message, size) ==
    \/ questions = 1 /\ message.echo /\ offset = 12
    \/ questions = 0 /\ Passed(message, size, 0) /\ offset = EndOfRecord(message, 0)

InQuestionName(message) ==
    /\ questions = 0
    /\ message.echo
    /\ \E j \in 0..Len(message.domain) : offset = 12 + LabelAt(message.domain, j)

InQuestionTail(message) ==
    /\ questions = 0
    /\ message.echo
    /\ offset = 12 + Len(QuestionName(message.domain))

\* At a record, at a label of its name, behind its name.
InAnswer(message, size) ==
    \E i \in 0..Len(message.records) :
        /\ Passed(message, size, i)
        /\ i + answers = message.count
        /\ offset = EndOfRecord(message, i)

NameAt(message, i, j) ==
    EndOfRecord(message, i) + LabelAt(message.records[i + 1].labels, j)

\* The count may promise a record that there is not.
InAnswerName(message, size) ==
    \E i \in 0..Len(message.records) :
        /\ Passed(message, size, i)
        /\ i + 1 + answers = message.count
        /\ \/ i = Len(message.records) /\ offset = EndOfRecord(message, i)
           \/ /\ i < Len(message.records)
              /\ \E j \in 0..Len(message.records[i + 1].labels) :
                    offset = NameAt(message, i, j)

InAnswerFixed(message, size) ==
    \E i \in 0..Len(message.records) :
        /\ Passed(message, size, i)
        /\ i + 1 + answers = message.count
        /\ i < Len(message.records)
        /\ WellFormed(message.records[i + 1])
        /\ offset = FixedAt(message, i)

\* What AnswerRight says of one message.
AnswerIs(message, size) ==
    answer = IF message.id = QueryId THEN FirstAddress(message, size) ELSE 0

\* The walk is where the layout has something.
Placed(message, size) ==
    /\ at \notin {"Header", "Done"} => message.id = QueryId
    /\ at \in {"Question", "QuestionName", "QuestionTail"} => answers = message.count
    /\ at # "Done" => answer = 0
    /\ at = "Question" => InQuestion(message, size)
    /\ at = "QuestionName" => InQuestionName(message)
    /\ at = "QuestionTail" => InQuestionTail(message)
    /\ at = "Answer" => InAnswer(message, size)
    /\ at = "AnswerName" => InAnswerName(message, size)
    /\ at = "AnswerFixed" => InAnswerFixed(message, size)
    /\ at = "Done" => AnswerIs(message, size)

\* The inductive invariant.
WalkInv == DnsInv /\ \A s \in sent : Arrived(s.message, s.size) /\ Placed(s.message, s.size)

\* What arrived is the beginning of what was laid out.
LEMMA ArrivedFacts ==
    ASSUME NEW message, NEW size, Arrived(message, size)
    PROVE  /\ MessageLaidOut(message, Octets(message))
           /\ Begins(packet, Octets(message))
           /\ Len(packet) = size
           /\ size \in Nat
           /\ size <= Len(Octets(message))
<1> DEFINE octets == Octets(message)
<1>1. MessageLaidOut(message, octets)
  BY MessageLayout, Zenon DEF Arrived
<1>2. octets \in Seq(Octet)
  BY <1>1, Zenon DEF MessageLaidOut
<1>3. size \in 0..Len(octets) /\ packet = SubSeq(octets, 1, size)
  BY Zenon DEF Arrived
<1> HIDE DEF octets
<1>4. Len(octets) \in Nat
  BY <1>2
<1>5. Len(packet) = size /\ \A i \in 1..size : packet[i] = octets[i]
  BY <1>2, <1>3, <1>4
<1>6. size \in Nat /\ size <= Len(octets)
  BY <1>3, <1>4
<1>7. Begins(packet, octets)
  BY <1>5, <1>6 DEF Begins
<1> QED BY <1>1, <1>5, <1>6, <1>7 DEF octets

\* A word that arrived.
LEMMA WordArrived ==
    ASSUME NEW octets, Begins(packet, octets), Len(packet) \in Nat,
           NEW i, i \in Nat, i + 2 <= Len(packet)
    PROVE  Word(i) = WordAt(octets, i)
<1>1. WordAt(octets, i) = WordAt(packet, i)
  BY WordBegins
<1> QED BY <1>1, Zenon DEF Word, WordAt

(***************************************************************************)
(* The reference, where the walk ends.                                     *)
(***************************************************************************)

\* When no record is usable.
LEMMA NoAddress ==
    ASSUME NEW message, NEW size,
           \A k \in 1..Len(message.records) : k <= message.count => ~Usable(message, k, size)
    PROVE  FirstAddress(message, size) = 0
<1> DEFINE usable == {i \in 1..Len(message.records) :
                        i <= message.count /\ Usable(message, i, size)}
<1>1. usable = {}
  OBVIOUS
<1> QED BY <1>1, Zenon DEF FirstAddress

\* When one is usable, and none before it.
LEMMA AddressFound ==
    ASSUME NEW message, NEW size, Len(message.records) \in Nat,
           NEW i \in 1..Len(message.records), i <= message.count, Usable(message, i, size),
           \A k \in 1..Len(message.records) : Usable(message, k, size) => i <= k
    PROVE  FirstAddress(message, size) = EndOfRecord(message, i) - 16
<1> DEFINE usable == {k \in 1..Len(message.records) :
                        k <= message.count /\ Usable(message, k, size)}
<1>1. i \in usable /\ \A k \in usable : i <= k
  OBVIOUS
<1>2. \A k \in usable : k \in Nat
  OBVIOUS
<1>3. FirstAddress(message, size) =
         IF usable = {} THEN 0 ELSE EndOfRecord(message, Min(usable)) - 16
  BY Zenon DEF FirstAddress
<1> HIDE DEF usable
<1>4. Min(usable) = i
  <2>1. Min(usable) \in usable /\ \A k \in usable : Min(usable) <= k
    BY <1>1, Zenon DEF Min
  <2>2. Min(usable) <= i /\ i <= Min(usable)
    BY <1>1, <2>1, Zenon
  <2> DEFINE m == Min(usable)
  <2>3. m \in Nat /\ i \in Nat /\ m <= i /\ i <= m
    BY <1>1, <1>2, <2>1, <2>2, Zenon
  <2> HIDE DEF m
  <2>4. m = i
    BY <2>3
  <2> QED BY <2>4, Zenon DEF m
<1> QED BY <1>1, <1>3, <1>4, Zenon

\* The walk is right to give up where there is no record left, or the next one
\* did not arrive or has a name of no meaning.
LEMMA NothingBehind ==
    ASSUME NEW message, NEW size, NEW octets, MessageLaidOut(message, octets),
           Len(message.records) \in Nat, message.count \in Nat, size \in Nat,
           NEW i, Passed(message, size, i),
           \/ i = message.count
           \/ i = Len(message.records)
           \/ i < Len(message.records) /\ EndOfRecord(message, i + 1) > size
           \/ i < Len(message.records) /\ ~WellFormed(message.records[i + 1])
    PROVE  FirstAddress(message, size) = 0
<1> DEFINE n == Len(message.records)
<1>1. /\ i \in 0..n
      /\ \A j \in 1..i : ~HoldsAddress(message.records[j])
  BY Zenon DEF Passed
<1> SUFFICES ASSUME NEW k \in 1..n, k <= message.count, Usable(message, k, size)
             PROVE  FALSE
  BY NoAddress, Zenon
<1>2. /\ HoldsAddress(message.records[k])
      /\ EndOfRecord(message, k) <= size
      /\ \A j \in 1..k : WellFormed(message.records[j])
  BY Zenon DEF Usable, HoldsAddress
<1>3. k \notin 1..i
  BY <1>1, <1>2, Zenon
<1>4. /\ \A a \in 0..n : EndOfRecord(message, a) \in Nat
      /\ \A a \in 0..n : \A b \in a..n : EndOfRecord(message, a) <= EndOfRecord(message, b)
  BY Zenon DEF MessageLaidOut
<1>5. n \in Nat /\ k > i
  BY <1>1, <1>3
<1>6. i + 1 \in 1..k /\ i + 1 \in 0..n /\ k \in (i + 1)..n /\ k \in 0..n
  BY <1>1, <1>5
<1>7. WellFormed(message.records[i + 1])
  BY <1>2, <1>6, Zenon
<1>8. EndOfRecord(message, i + 1) <= EndOfRecord(message, k)
  BY <1>4, <1>6, Zenon
<1> DEFINE here == EndOfRecord(message, i + 1)
           there == EndOfRecord(message, k)
<1>9. here \in Nat /\ there \in Nat /\ here <= there /\ there <= size
  BY <1>2, <1>4, <1>6, <1>8, Zenon
<1>10. here > size \/ ~(here > size)
  OBVIOUS
<1> HIDE DEF here, there
<1>11. ~(here > size)
  BY <1>9
<1>12. i # message.count /\ i # n
  BY <1>1, <1>5
<1> QED BY <1>7, <1>11, <1>12, Zenon DEF here

\* Nor is there an address when not even the question arrived.
LEMMA NothingArrived ==
    ASSUME NEW message, NEW size, NEW octets, MessageLaidOut(message, octets),
           Len(message.records) \in Nat, size \in Nat, EndOfRecord(message, 0) > size
    PROVE  FirstAddress(message, size) = 0
<1> DEFINE n == Len(message.records)
<1> SUFFICES ASSUME NEW k \in 1..n, Usable(message, k, size)
             PROVE  FALSE
  BY NoAddress, Zenon
<1>1. 0 \in 0..n /\ k \in 0..n /\ k \in 0..n
  OBVIOUS
<1>2. EndOfRecord(message, 0) <= EndOfRecord(message, k)
  BY <1>1, Zenon DEF MessageLaidOut
<1>3. EndOfRecord(message, 0) \in Nat /\ EndOfRecord(message, k) \in Nat
  BY <1>1, Zenon DEF MessageLaidOut
<1>4. EndOfRecord(message, k) <= size
  BY Zenon DEF Usable
<1> DEFINE here == EndOfRecord(message, 0)
           there == EndOfRecord(message, k)
<1>5. here \in Nat /\ there \in Nat /\ here <= there /\ there <= size /\ here > size
  BY <1>2, <1>3, <1>4, Zenon
<1> HIDE DEF here, there
<1> QED BY <1>5

(***************************************************************************)
(* The steps of the walk keep it placed.                                   *)
(***************************************************************************)

\* The facts of a message that arrived, for the steps.
Facts(message, size, octets) ==
    /\ MessageLaidOut(message, octets)
    /\ Begins(packet, octets)
    /\ Len(packet) = size
    /\ size \in Nat
    /\ size <= Len(octets)
    /\ Len(message.records) \in Nat
    /\ message.count \in Nat
    /\ \A i \in 0..(Len(message.records) - 1) :
         /\ Len(message.records[i + 1].labels) \in Nat
         /\ IsEnding(message.records[i + 1].ending)
    /\ Len(message.domain) \in Nat

\* A message that arrived has them.
LEMMA FactsHold ==
    ASSUME NEW message, NEW size, Arrived(message, size)
    PROVE  Facts(message, size, Octets(message))
<1>1. IsMessage(message)
  BY Zenon DEF Arrived
<1> DEFINE n == Len(message.records)
           domain == message.domain
<1>2. message.count \in U16 /\ n \in Nat /\ \A i \in 1..n : IsRecord(message.records[i])
  BY <1>1, Zenon DEF IsMessage
<1>3. message.count \in Nat
  <2>1. \A m \in U16 : m \in Nat
    BY DEF U16
  <2> QED BY <1>2, <2>1, Zenon
<1>4. Len(domain) \in Nat
  <2>1. domain \in Seq(Seq(U8))
    BY <1>1, Zenon DEF IsMessage
  <2> HIDE DEF domain
  <2> QED BY <2>1
<1>5. ASSUME NEW i \in 0..(n - 1)
      PROVE  /\ Len(message.records[i + 1].labels) \in Nat
             /\ IsEnding(message.records[i + 1].ending)
  <2>1. i + 1 \in 1..n
    BY <1>2
  <2> DEFINE record == message.records[i + 1]
             labels == record.labels
  <2>2. labels \in Seq(Seq(U8)) /\ IsEnding(record.ending)
    BY <1>2, <2>1, Zenon DEF IsRecord
  <2>3. Len(labels) \in Nat
    <3> HIDE DEF labels
    <3> QED BY <2>2
  <2> QED BY <2>2, <2>3
<1>6. /\ MessageLaidOut(message, Octets(message)) /\ Begins(packet, Octets(message))
      /\ Len(packet) = size /\ size \in Nat /\ size <= Len(Octets(message))
  BY ArrivedFacts
<1> QED BY <1>2, <1>3, <1>4, <1>5, <1>6, Zenon DEF Facts

\* Giving up is right when there is nothing to be found.
LEMMA GiveUpPlaced ==
    ASSUME NEW message, NEW size, at \notin {"Header", "Done"}, Placed(message, size),
           GiveUp, FirstAddress(message, size) = 0
    PROVE  Placed(message, size)'
<1>1. at' = "Done" /\ answer' = 0 /\ message.id = QueryId
  BY DEF Placed, GiveUp
<1>2. AnswerIs(message, size)'
  BY <1>1, Zenon DEF AnswerIs
<1> QED BY <1>1, <1>2 DEF Placed

\* From the header to the questions, or away with an answer to another query.
LEMMA HeaderPlaced ==
    ASSUME NEW message, NEW size, NEW octets, Facts(message, size, octets),
           Placed(message, size), ParseHeader \/ RejectHeader
    PROVE  Placed(message, size)'
<1>1. /\ MessageLaidOut(message, octets) /\ Begins(packet, octets) /\ Len(packet) = size
      /\ size \in Nat /\ Len(message.records) \in Nat
  BY Zenon DEF Facts
<1>2. ASSUME Len(packet) >= 12
      PROVE  /\ Word(0) = message.id
             /\ Word(4) = IF message.echo THEN 1 ELSE 0
             /\ Word(6) = message.count
  <2>1. /\ 0 \in Nat /\ 0 + 2 <= Len(packet) /\ 4 \in Nat /\ 4 + 2 <= Len(packet)
        /\ 6 \in Nat /\ 6 + 2 <= Len(packet) /\ Len(packet) \in Nat
    BY <1>1, <1>2
  <2>2. /\ Word(0) = WordAt(octets, 0) /\ Word(4) = WordAt(octets, 4)
        /\ Word(6) = WordAt(octets, 6)
    BY <1>1, <2>1, WordArrived
  <2> QED BY <1>1, <2>2, Zenon DEF MessageLaidOut
<1>3. EndOfRecord(message, 0) \in Nat /\ EndOfRecord(message, 0) >= 12
  <2>1. 0 \in 0..Len(message.records)
    BY <1>1
  <2> QED BY <1>1, <2>1, Zenon DEF MessageLaidOut
<1>4. CASE ParseHeader
  <2>1. /\ Len(packet) >= 12 /\ Word(0) = QueryId
        /\ questions' = Word(4) /\ answers' = Word(6)
        /\ offset' = 12 /\ at' = "Question" /\ answer' = answer /\ at = "Header"
    BY <1>4 DEF ParseHeader, HeaderFits
  <2>2. message.id = QueryId /\ answers' = message.count
    BY <1>2, <2>1, Zenon
  <2>3. InQuestion(message, size)'
    <3>1. CASE message.echo
      <4>1. questions' = 1
        BY <1>2, <2>1, <3>1, Zenon
      <4> QED BY <2>1, <3>1, <4>1, Zenon DEF InQuestion
    <3>2. CASE ~message.echo
      <4>1. questions' = 0
        BY <1>2, <2>1, <3>2, Zenon
      <4>2. EndOfRecord(message, 0) = 12
        BY <1>1, <3>2, Zenon DEF MessageLaidOut
      <4>3. 0 \in 0..Len(message.records) /\ EndOfRecord(message, 0) <= size
        BY <1>1, <2>1, <4>2
      <4>4. \A j \in 1..0 : FALSE
        OBVIOUS
      <4>5. Passed(message, size, 0)
        BY <4>3, <4>4, Zenon DEF Passed
      <4> QED BY <2>1, <4>1, <4>2, <4>5, Zenon DEF InQuestion
    <3> QED BY <3>1, <3>2
  <2>4. answer' = 0
    BY <2>1 DEF Placed
  <2> QED BY <2>1, <2>2, <2>3, <2>4 DEF Placed
<1>5. CASE RejectHeader
  <2>1. at = "Header" /\ ~HeaderFits /\ at' = "Done" /\ answer' = answer
    BY <1>5 DEF RejectHeader, GiveUp
  <2>2. answer' = 0
    BY <2>1 DEF Placed
  <2>3. message.id = QueryId => FirstAddress(message, size) = 0
    <3> SUFFICES ASSUME message.id = QueryId PROVE FirstAddress(message, size) = 0
      OBVIOUS
    <3>1. ~(Len(packet) >= 12)
      BY <1>2, <2>1, Zenon DEF HeaderFits
    <3>2. EndOfRecord(message, 0) > size
      BY <1>1, <1>3, <3>1
    <3> QED BY <1>1, <3>2, NothingArrived
  <2>4. AnswerIs(message, size)'
    BY <2>2, <2>3, Zenon DEF AnswerIs
  <2> QED BY <2>1, <2>2, <2>4 DEF Placed
<1> QED BY <1>4, <1>5

\* Into the question, or on to the answers.
LEMMA QuestionPlaced ==
    ASSUME NEW message, NEW size, NEW octets, Facts(message, size, octets), DnsTypeOK,
           Placed(message, size), NextQuestion \/ QuestionsEnd
    PROVE  Placed(message, size)'
<1>1. at = "Question"
  BY DEF NextQuestion, QuestionsEnd
<1>2. /\ InQuestion(message, size) /\ message.id = QueryId /\ answer = 0
      /\ answers = message.count
  BY <1>1 DEF Placed
<1>3. CASE NextQuestion
  <2>1. /\ questions > 0 /\ questions' = questions - 1 /\ at' = "QuestionName"
        /\ offset' = offset /\ answers' = answers /\ answer' = answer
    BY <1>3 DEF NextQuestion
  <2>2. questions = 1 /\ message.echo /\ offset = 12
    <3>1. ~(questions = 0)
      BY <2>1
    <3> QED BY <1>2, <3>1, Zenon DEF InQuestion
  <2>3. /\ Len(message.domain) \in Nat
        /\ NameLaidOut(message.domain, <<0>>, QuestionName(message.domain))
    BY <2>2, Zenon DEF Facts, MessageLaidOut
  <2>4. LabelAt(message.domain, 0) = 0
    BY <2>3, Zenon DEF NameLaidOut
  <2>5. 0 \in 0..Len(message.domain) /\ 12 + 0 = 12 /\ 1 - 1 = 0
    BY <2>3
  <2>6. \E j \in 0..Len(message.domain) : offset' = 12 + LabelAt(message.domain, j)
    BY <2>1, <2>2, <2>4, <2>5, Zenon
  <2>7. questions' = 0
    BY <2>1, <2>2, <2>5, Zenon
  <2>8. InQuestionName(message)'
    BY <2>2, <2>6, <2>7, Zenon DEF InQuestionName
  <2> QED BY <1>2, <2>1, <2>8 DEF Placed
<1>4. CASE QuestionsEnd
  <2>1. /\ questions = 0 /\ at' = "Answer"
        /\ offset' = offset /\ answers' = answers /\ answer' = answer
    BY <1>4 DEF QuestionsEnd
  <2>2. Passed(message, size, 0) /\ offset = EndOfRecord(message, 0)
    <3>1. ~(questions = 1)
      BY <2>1
    <3> QED BY <1>2, <3>1, Zenon DEF InQuestion
  <2>3. 0 + message.count = message.count
    <3>1. message.count \in Nat
      BY Zenon DEF Facts
    <3>2. \A n \in Nat : 0 + n = n
      OBVIOUS
    <3> QED BY <3>1, <3>2, Zenon
  <2>4. 0 \in 0..Len(message.records)
    BY <2>2, Zenon DEF Passed
  <2>5. InAnswer(message, size)'
    BY <1>2, <2>1, <2>2, <2>3, <2>4, Zenon DEF InAnswer
  <2> QED BY <1>2, <2>1, <2>5 DEF Placed
<1> QED BY <1>3, <1>4

\* Through the name of the question.
LEMMA QuestionNamePlaced ==
    ASSUME NEW message, NEW size, NEW octets, Facts(message, size, octets),
           Placed(message, size), at = "QuestionName", SkipName \/ SkipLabel \/ RejectName
    PROVE  Placed(message, size)'
<1> DEFINE domain == message.domain
           name == QuestionName(domain)
<1>1. /\ questions = 0 /\ message.echo /\ message.id = QueryId /\ answer = 0
      /\ answers = message.count
  BY DEF Placed, InQuestionName
<1>2. PICK j \in 0..Len(domain) : offset = 12 + LabelAt(domain, j)
  BY DEF Placed, InQuestionName
<1>3. /\ MessageLaidOut(message, octets) /\ Begins(packet, octets)
      /\ Len(packet) = size /\ size \in Nat /\ Len(message.records) \in Nat
      /\ Len(domain) \in Nat
  BY Zenon DEF Facts
<1>4. /\ NameLaidOut(domain, <<0>>, name)
      /\ Within(octets, 12, name)
      /\ EndOfRecord(message, 0) = 12 + Len(name) + 4
  BY <1>1, <1>3, Zenon DEF MessageLaidOut
<1> DEFINE root == <<0>>
<1>5. IsEnding(root) /\ root[1] \notin 64..191
  BY DEF IsEnding, U8
<1>6. NameLaidOut(domain, root, name) /\ Len(packet) \in Nat
  BY <1>3, <1>4, Zenon
<1> HIDE DEF domain, name, root
<1>7. /\ SkipLabel => j + 1 \in 0..Len(domain) /\ offset' = 12 + LabelAt(domain, j + 1)
      /\ SkipName => /\ offset' = 12 + Len(name)
                     /\ offset' <= Len(packet)
                     /\ root[1] \notin 64..191
      /\ RejectName => root[1] \in 64..191 \/ 12 + Len(name) > Len(packet)
  BY <1>2, <1>3, <1>4, <1>5, <1>6, NameWalked
<1>8. CASE SkipLabel
  <2>1. /\ at' = at /\ questions' = questions /\ answers' = answers /\ answer' = answer
    BY <1>8 DEF SkipLabel
  <2>2. InQuestionName(message)'
    BY <1>1, <1>7, <1>8, <2>1, Zenon DEF InQuestionName, domain
  <2> QED BY <1>1, <2>1, <2>2 DEF Placed
<1>9. CASE SkipName
  <2>1. /\ at' = "QuestionTail" /\ questions' = questions /\ answers' = answers
        /\ answer' = answer
    BY <1>9 DEF SkipName, NameEnds
  <2>2. InQuestionTail(message)'
    BY <1>1, <1>7, <1>9, <2>1, Zenon DEF InQuestionTail, domain, name
  <2> QED BY <1>1, <2>1, <2>2 DEF Placed
<1>10. CASE RejectName
  <2>1. 12 + Len(name) > Len(packet)
    BY <1>5, <1>7, <1>10, Zenon
  <2>2. Len(name) \in Nat
    BY <1>4 DEF Within
  <2>3. EndOfRecord(message, 0) > size
    <3> DEFINE e == EndOfRecord(message, 0)
    <3>1. e = 12 + Len(name) + 4
      BY <1>4
    <3> HIDE DEF e
    <3>2. e > size
      BY <1>3, <2>1, <2>2, <3>1
    <3> QED BY <3>2 DEF e
  <2>4. FirstAddress(message, size) = 0
    BY <1>3, <2>3, NothingArrived
  <2>5. GiveUp /\ at \notin {"Header", "Done"}
    BY <1>10 DEF RejectName
  <2> QED BY <2>4, <2>5, GiveUpPlaced
<1> QED BY <1>8, <1>9, <1>10

\* To the first answer.
LEMMA QuestionTailPlaced ==
    ASSUME NEW message, NEW size, NEW octets, Facts(message, size, octets),
           Placed(message, size), SkipQuestion \/ RejectQuestion
    PROVE  Placed(message, size)'
<1>1. at = "QuestionTail"
  BY DEF SkipQuestion, RejectQuestion
<1>2. /\ questions = 0 /\ message.echo /\ message.id = QueryId /\ answer = 0
      /\ answers = message.count
      /\ offset = 12 + Len(QuestionName(message.domain))
  BY <1>1 DEF Placed, InQuestionTail
<1>3. /\ MessageLaidOut(message, octets)
      /\ Len(packet) = size /\ size \in Nat /\ Len(message.records) \in Nat
  BY Zenon DEF Facts
<1>4. EndOfRecord(message, 0) = offset + 4
  BY <1>2, <1>3, Zenon DEF MessageLaidOut
<1>5. CASE SkipQuestion
  <2>1. /\ offset + 4 <= Len(packet) /\ offset' = offset + 4 /\ at' = "Question"
        /\ questions' = questions /\ answers' = answers /\ answer' = answer
    BY <1>5 DEF SkipQuestion
  <2>2. 0 \in 0..Len(message.records) /\ \A j \in 1..0 : FALSE
    BY <1>3
  <2>3. Passed(message, size, 0)
    BY <1>3, <1>4, <2>1, <2>2, Zenon DEF Passed
  <2>4. InQuestion(message, size)'
    BY <1>2, <1>4, <2>1, <2>3, Zenon DEF InQuestion
  <2> QED BY <1>2, <2>1, <2>4 DEF Placed
<1>6. CASE RejectQuestion
  <2>1. offset + 4 > Len(packet) /\ GiveUp
    BY <1>6 DEF RejectQuestion
  <2>2. EndOfRecord(message, 0) > size
    BY <1>3, <1>4, <2>1, Zenon
  <2>3. FirstAddress(message, size) = 0
    BY <1>3, <2>2, NothingArrived
  <2>4. at \notin {"Header", "Done"}
    BY <1>1
  <2> QED BY <2>1, <2>3, <2>4, GiveUpPlaced
<1> QED BY <1>5, <1>6

\* Into the next record, or to the end.
LEMMA AnswerPlaced ==
    ASSUME NEW message, NEW size, NEW octets, Facts(message, size, octets), DnsTypeOK,
           Placed(message, size), NextAnswer \/ AnswersEnd
    PROVE  Placed(message, size)'
<1> DEFINE n == Len(message.records)
           count == message.count
<1>1. at = "Answer"
  BY DEF NextAnswer, AnswersEnd
<1>2. message.id = QueryId /\ answer = 0 /\ answers \in Nat
  BY <1>1 DEF Placed, DnsTypeOK
<1>3. PICK i \in 0..n : /\ Passed(message, size, i)
                        /\ i + answers = count
                        /\ offset = EndOfRecord(message, i)
  BY <1>1 DEF Placed, InAnswer
<1>4. /\ MessageLaidOut(message, octets) /\ size \in Nat /\ n \in Nat /\ count \in Nat
      /\ \A k \in 0..(n - 1) : Len(message.records[k + 1].labels) \in Nat
  BY Zenon DEF Facts
<1>5. CASE NextAnswer
  <2>1. /\ answers > 0 /\ answers' = answers - 1 /\ at' = "AnswerName"
        /\ offset' = offset /\ answer' = answer
    BY <1>5 DEF NextAnswer
  <2>2. i + 1 + answers' = count
    <3> HIDE DEF count
    <3> QED BY <1>2, <1>3, <2>1
  <2>3. CASE i = n
    <3>1. InAnswerName(message, size)'
      BY <1>3, <2>1, <2>2, <2>3, Zenon DEF InAnswerName
    <3> QED BY <1>2, <2>1, <3>1 DEF Placed
  <2>4. CASE i # n
    <3>1. i \in 0..(n - 1) /\ i < n
      BY <1>4, <2>4
    <3> DEFINE labels == message.records[i + 1].labels
               e == EndOfRecord(message, i)
    <3>2. LabelAt(labels, 0) = 0
      BY <1>4, <3>1, Zenon DEF MessageLaidOut, RecordIn, NameLaidOut
    <3>3. e \in Nat
      BY <1>4, Zenon DEF MessageLaidOut
    <3>4. 0 \in 0..Len(labels)
      <4>1. Len(labels) \in Nat
        BY <1>4, <3>1, Zenon
      <4> HIDE DEF labels
      <4> QED BY <4>1
    <3>5. e + 0 = e
      <4> HIDE DEF e
      <4> QED BY <3>3
    <3>6. offset' = NameAt(message, i, 0)
      BY <1>3, <2>1, <3>2, <3>5, Zenon DEF NameAt
    <3>7. InAnswerName(message, size)'
      BY <1>3, <2>2, <3>1, <3>4, <3>6, Zenon DEF InAnswerName
    <3> QED BY <1>2, <2>1, <3>7 DEF Placed
  <2> QED BY <2>3, <2>4
<1>6. CASE AnswersEnd
  <2>1. answers = 0 /\ GiveUp
    BY <1>6 DEF AnswersEnd
  <2>2. i = count
    <3> HIDE DEF count
    <3> QED BY <1>3, <2>1
  <2>3. FirstAddress(message, size) = 0
    BY <1>3, <1>4, <2>2, NothingBehind, Zenon
  <2>4. at \notin {"Header", "Done"}
    BY <1>1
  <2> QED BY <2>1, <2>3, <2>4, GiveUpPlaced
<1> QED BY <1>5, <1>6

\* Through the name of a record, if there is a record.
LEMMA AnswerNamePlaced ==
    ASSUME NEW message, NEW size, NEW octets, Facts(message, size, octets),
           Placed(message, size), at = "AnswerName", SkipName \/ SkipLabel \/ RejectName
    PROVE  Placed(message, size)'
<1> DEFINE n == Len(message.records)
           count == message.count
<1>1. message.id = QueryId /\ answer = 0
  BY DEF Placed
<1>2. PICK i \in 0..n :
        /\ Passed(message, size, i)
        /\ i + 1 + answers = count
        /\ \/ i = n /\ offset = EndOfRecord(message, i)
           \/ /\ i < n
              /\ \E j \in 0..Len(message.records[i + 1].labels) :
                    offset = NameAt(message, i, j)
  BY DEF Placed, InAnswerName
<1>3. /\ MessageLaidOut(message, octets) /\ Begins(packet, octets)
      /\ Len(packet) = size /\ size \in Nat /\ n \in Nat /\ count \in Nat
      /\ size <= Len(octets)
      /\ \A k \in 0..(n - 1) : /\ Len(message.records[k + 1].labels) \in Nat
                               /\ IsEnding(message.records[k + 1].ending)
  BY Zenon DEF Facts
<1>4. CASE RejectName /\ FirstAddress(message, size) = 0
  <2>1. GiveUp /\ at \notin {"Header", "Done"}
    BY <1>4 DEF RejectName
  <2> QED BY <1>4, <2>1, GiveUpPlaced
<1>5. CASE i = n
  <2>1. offset = Len(octets)
    <3>1. offset = EndOfRecord(message, n)
      BY <1>2, <1>5
    <3> QED BY <1>3, <3>1, Zenon DEF MessageLaidOut
  <2>2. ~InName
    <3>1. Len(octets) \in Nat
      <4>1. octets \in Seq(Octet)
        BY <1>3, Zenon DEF MessageLaidOut
      <4> QED BY <4>1
    <3>2. ~(offset < Len(packet))
      BY <1>3, <2>1, <3>1
    <3> QED BY <3>2, Zenon DEF InName
  <2>3. RejectName
    BY <2>2, Zenon DEF SkipName, SkipLabel
  <2>4. FirstAddress(message, size) = 0
    BY <1>2, <1>3, <1>5, NothingBehind, Zenon
  <2> QED BY <1>4, <2>3, <2>4
<1>6. CASE i # n
  <2> DEFINE record == message.records[i + 1]
             labels == record.labels
             ending == record.ending
             name == Name(record)
             e == EndOfRecord(message, i)
             fixed == FixedAt(message, i)
             next == EndOfRecord(message, i + 1)
  <2>1. i \in 0..(n - 1) /\ i < n
    BY <1>3, <1>6
  <2>2. /\ Len(labels) \in Nat
        /\ IsEnding(ending)
        /\ NameLaidOut(labels, ending, name)
        /\ Within(octets, e, name)
        /\ fixed \in Nat
        /\ Len(record.data) \in Nat
        /\ next = fixed + 10 + Len(record.data)
    BY <1>3, <2>1, Zenon DEF MessageLaidOut, RecordIn
  <2>3. PICK j \in 0..Len(labels) : offset = e + LabelAt(labels, j)
    BY <1>2, <1>6, Zenon DEF NameAt
  <2>4. fixed = e + Len(name)
    BY Zenon DEF FixedAt
  <2>5. Len(packet) \in Nat
    BY <1>3, Zenon
  <2>6. WellFormed(record) <=> ending[1] \notin 64..191
    BY Zenon DEF WellFormed
  <2>7. \A k \in 0..Len(labels) : NameAt(message, i, k) = e + LabelAt(labels, k)
    BY Zenon DEF NameAt
  <2>8. /\ SkipLabel => j + 1 \in 0..Len(labels) /\ offset' = e + LabelAt(labels, j + 1)
        /\ SkipName => /\ offset' = e + Len(name)
                       /\ offset' <= Len(packet)
                       /\ ending[1] \notin 64..191
        /\ RejectName => ending[1] \in 64..191 \/ e + Len(name) > Len(packet)
    <3> HIDE DEF labels, ending, name, e, record
    <3> QED BY <1>3, <2>2, <2>3, <2>5, NameWalked
  <2>9. CASE SkipLabel
    <3>1. /\ at' = at /\ answers' = answers /\ answer' = answer
      BY <2>9 DEF SkipLabel
    <3>2. j + 1 \in 0..Len(labels) /\ offset' = NameAt(message, i, j + 1)
      BY <2>7, <2>8, <2>9, Zenon
    <3>3. InAnswerName(message, size)'
      BY <1>2, <2>1, <3>1, <3>2, Zenon DEF InAnswerName
    <3> QED BY <1>1, <3>1, <3>3 DEF Placed
  <2>10. CASE SkipName
    <3>1. /\ at' = "AnswerFixed" /\ answers' = answers /\ answer' = answer
      BY <2>10 DEF SkipName, NameEnds
    <3>2. offset' = fixed /\ WellFormed(record)
      BY <2>4, <2>6, <2>8, <2>10, Zenon
    <3>3. InAnswerFixed(message, size)'
      BY <1>2, <2>1, <3>1, <3>2, Zenon DEF InAnswerFixed
    <3> QED BY <1>1, <3>1, <3>3 DEF Placed
  <2>11. CASE RejectName
    <3>1. ~WellFormed(record) \/ fixed > Len(packet)
      BY <2>4, <2>6, <2>8, <2>11, Zenon
    <3>2. ~WellFormed(record) \/ next > size
      <4> DEFINE d == Len(record.data)
      <4>1. /\ d \in Nat /\ fixed \in Nat /\ next = fixed + 10 + d /\ size \in Nat
            /\ Len(packet) = size
        BY <1>3, <2>2, Zenon
      <4> HIDE DEF d, fixed, next
      <4>2. fixed > Len(packet) => next > size
        BY <4>1
      <4> QED BY <3>1, <4>2, Zenon
    <3>3. FirstAddress(message, size) = 0
      BY <1>2, <1>3, <2>1, <3>2, NothingBehind, Zenon
    <3> QED BY <1>4, <2>11, <3>3
  <2> QED BY <2>9, <2>10, <2>11
<1> QED BY <1>5, <1>6

\* The address is taken where the layout has the first one.
LEMMA AnswerFixedPlaced ==
    ASSUME NEW message, NEW size, NEW octets, Facts(message, size, octets), DnsTypeOK,
           Placed(message, size), TakeAddress \/ SkipRecord \/ RejectRecord
    PROVE  Placed(message, size)'
<1> DEFINE n == Len(message.records)
           count == message.count
<1>1. at = "AnswerFixed"
  BY DEF TakeAddress, SkipRecord, RejectRecord
<1>2. message.id = QueryId /\ answer = 0 /\ answers \in Nat
  BY <1>1 DEF Placed, DnsTypeOK
<1>3. PICK i \in 0..n : /\ Passed(message, size, i)
                        /\ i + 1 + answers = count
                        /\ i < n
                        /\ WellFormed(message.records[i + 1])
                        /\ offset = FixedAt(message, i)
  BY <1>1 DEF Placed, InAnswerFixed
<1>4. /\ MessageLaidOut(message, octets) /\ Begins(packet, octets)
      /\ Len(packet) = size /\ size \in Nat /\ n \in Nat /\ count \in Nat
  BY Zenon DEF Facts
<1>5. i \in 0..(n - 1) /\ i + 1 \in 1..n /\ i + 1 \in 0..n
  BY <1>3, <1>4
<1> DEFINE record == message.records[i + 1]
           d == Len(record.data)
           next == EndOfRecord(message, i + 1)
<1>6. /\ offset \in Nat /\ d \in Nat
      /\ next = offset + 10 + d
      /\ WordAt(octets, offset) = record.type
      /\ WordAt(octets, offset + 2) = record.class
      /\ WordAt(octets, offset + 8) = d
  BY <1>3, <1>4, <1>5, Zenon DEF MessageLaidOut, RecordIn
<1>7. ASSUME FixedFits
      PROVE  /\ Word(offset) = record.type
             /\ Word(offset + 2) = record.class
             /\ Word(offset + 8) = d
  <2>1. /\ offset + 2 <= Len(packet)
        /\ offset + 2 \in Nat /\ (offset + 2) + 2 <= Len(packet)
        /\ offset + 8 \in Nat /\ (offset + 8) + 2 <= Len(packet)
        /\ Len(packet) \in Nat
    <3> HIDE DEF record, d, next, n, count
    <3> QED BY <1>4, <1>6, <1>7 DEF FixedFits
  <2>2. /\ Word(offset) = WordAt(octets, offset)
        /\ Word(offset + 2) = WordAt(octets, offset + 2)
        /\ Word(offset + 8) = WordAt(octets, offset + 8)
    BY <1>4, <1>6, <2>1, WordArrived
  <2> QED BY <1>6, <2>2, Zenon
<1>8. RecordFits => FixedFits /\ next <= size
  <2> SUFFICES ASSUME RecordFits PROVE FixedFits /\ next <= size
    OBVIOUS
  <2>1. FixedFits /\ offset + 10 + Word(offset + 8) <= Len(packet)
    BY DEF RecordFits
  <2> QED BY <1>4, <1>6, <1>7, <2>1, Zenon
<1>9. ~RecordFits => next > size
  <2> SUFFICES ASSUME ~RecordFits PROVE next > size
    OBVIOUS
  <2>1. CASE FixedFits
    <3>1. ~(offset + 10 + Word(offset + 8) <= Len(packet))
      BY <2>1, Zenon DEF RecordFits
    <3>2. ~(offset + 10 + d <= size)
      BY <1>4, <1>7, <2>1, <3>1, Zenon
    <3> HIDE DEF d, next, n, count
    <3> QED BY <1>4, <1>6, <3>2
  <2>2. CASE ~FixedFits
    <3>1. ~(offset + 10 <= size)
      BY <1>4, <2>2, Zenon DEF FixedFits
    <3> HIDE DEF d, next, n, count
    <3>2. offset \in Nat /\ d \in Nat /\ size \in Nat /\ next = offset + 10 + d
      BY <1>4, <1>6, Zenon
    <3> QED BY <3>1, <3>2
  <2> QED BY <2>1, <2>2
<1>10. FixedFits => (IsAddress <=> HoldsAddress(record))
  BY <1>7, Zenon DEF IsAddress, HoldsAddress
<1>11. /\ \A j \in 1..i : /\ WellFormed(message.records[j])
                          /\ ~HoldsAddress(message.records[j])
       /\ WellFormed(record)
  BY <1>3, Zenon DEF Passed
<1>12. \A j \in 1..(i + 1) : j \in 1..i \/ j = i + 1
  BY <1>5
<1>13. \A j \in 1..(i + 1) : WellFormed(message.records[j])
  BY <1>11, <1>12, Zenon
<1>14. CASE TakeAddress
  <2>1. /\ RecordFits /\ IsAddress /\ answer' = offset + 10 /\ at' = "Done"
    BY <1>14 DEF TakeAddress
  <2>2. HoldsAddress(record) /\ next <= size
    BY <1>8, <1>10, <2>1, Zenon
  <2>3. d = 16
    BY <2>2, Zenon DEF HoldsAddress
  <2>4. Usable(message, i + 1, size)
    BY <1>13, <2>2, Zenon DEF Usable, HoldsAddress
  <2>5. \A k \in 1..n : Usable(message, k, size) => i + 1 <= k
    <3> SUFFICES ASSUME NEW k \in 1..n, Usable(message, k, size) PROVE i + 1 <= k
      OBVIOUS
    <3>1. HoldsAddress(message.records[k])
      BY Zenon DEF Usable, HoldsAddress
    <3>2. k \notin 1..i
      BY <1>11, <3>1, Zenon
    <3> HIDE DEF n
    <3> QED BY <1>5, <3>2
  <2>6. i + 1 <= count
    <3> HIDE DEF count, n
    <3> QED BY <1>2, <1>3, <1>4, <1>5
  <2>7. FirstAddress(message, size) = next - 16
    BY <1>4, <1>5, <2>4, <2>5, <2>6, AddressFound
  <2>8. next - 16 = offset + 10
    <3> HIDE DEF d, next, n, count
    <3> QED BY <1>6, <2>3
  <2>9. AnswerIs(message, size)'
    BY <1>2, <2>1, <2>7, <2>8, Zenon DEF AnswerIs
  <2> QED BY <2>1, <2>9 DEF Placed
<1>15. CASE SkipRecord
  <2>1. /\ RecordFits /\ ~IsAddress /\ offset' = offset + 10 + Word(offset + 8)
        /\ at' = "Answer" /\ answers' = answers /\ answer' = answer
    BY <1>15 DEF SkipRecord
  <2>2. ~HoldsAddress(record) /\ next <= size /\ offset' = next
    BY <1>6, <1>7, <1>8, <1>10, <2>1, Zenon
  <2>3. Passed(message, size, i + 1)
    BY <1>5, <1>11, <1>12, <1>13, <2>2, Zenon DEF Passed
  <2>4. (i + 1) + answers' = count
    BY <1>3, <2>1, Zenon
  <2>5. InAnswer(message, size)'
    BY <1>5, <2>2, <2>3, <2>4, Zenon DEF InAnswer
  <2> QED BY <1>2, <2>1, <2>5 DEF Placed
<1>16. CASE RejectRecord
  <2>1. ~RecordFits /\ GiveUp /\ at \notin {"Header", "Done"}
    BY <1>16 DEF RejectRecord
  <2>2. next > size
    BY <1>9, <2>1
  <2>3. FirstAddress(message, size) = 0
    BY <1>3, <1>4, <2>2, NothingBehind, Zenon
  <2> QED BY <2>1, <2>3, GiveUpPlaced
<1> QED BY <1>14, <1>15, <1>16

\* One lemma for every step.
LEMMA WalkPlaced ==
    ASSUME NEW message, NEW size, DnsTypeOK, Arrived(message, size),
           Placed(message, size), DnsNext
    PROVE  Arrived(message, size)' /\ Placed(message, size)'
<1>1. Facts(message, size, Octets(message))
  BY FactsHold
<1>2. packet' = packet
  BY DEF DnsNext, ParseHeader, RejectHeader, NextQuestion, QuestionsEnd, NextAnswer,
         AnswersEnd, SkipName, SkipLabel, RejectName, SkipQuestion, RejectQuestion,
         TakeAddress, SkipRecord, RejectRecord, GiveUp
<1>3. Arrived(message, size)'
  BY <1>2, Zenon DEF Arrived
<1> SUFFICES Placed(message, size)'
  BY <1>3, Zenon
<1>4. CASE ParseHeader \/ RejectHeader
  BY <1>1, <1>4, HeaderPlaced, Zenon
<1>5. CASE NextQuestion \/ QuestionsEnd
  BY <1>1, <1>5, QuestionPlaced, Zenon
<1>6. CASE NextAnswer \/ AnswersEnd
  BY <1>1, <1>6, AnswerPlaced, Zenon
<1>7. CASE SkipName \/ SkipLabel \/ RejectName
  <2>1. at = "QuestionName" \/ at = "AnswerName"
    BY <1>7 DEF SkipName, SkipLabel, RejectName, InName
  <2> QED BY <1>1, <1>7, <2>1, QuestionNamePlaced, AnswerNamePlaced, Zenon
<1>8. CASE SkipQuestion \/ RejectQuestion
  BY <1>1, <1>8, QuestionTailPlaced, Zenon
<1>9. CASE TakeAddress \/ SkipRecord \/ RejectRecord
  BY <1>1, <1>9, AnswerFixedPlaced, Zenon
<1> QED BY <1>3, <1>4, <1>5, <1>6, <1>7, <1>8, <1>9 DEF DnsNext

\* A step of the other parser, or none, leaves the walk where it is.
LEMMA WalkUntouched ==
    ASSUME NEW message, NEW size, Arrived(message, size), Placed(message, size),
           UNCHANGED dnsVars
    PROVE  Arrived(message, size)' /\ Placed(message, size)'
<1>1. /\ packet' = packet /\ at' = at /\ offset' = offset /\ questions' = questions
      /\ answers' = answers /\ answer' = answer
  BY DEF dnsVars
<1>2. Arrived(message, size)'
  BY <1>1, Zenon DEF Arrived
<1>3. /\ InQuestion(message, size)' <=> InQuestion(message, size)
      /\ InQuestionName(message)' <=> InQuestionName(message)
      /\ InQuestionTail(message)' <=> InQuestionTail(message)
  BY <1>1, Zenon DEF InQuestion, InQuestionName, InQuestionTail
<1>4. InAnswer(message, size)' <=> InAnswer(message, size)
  BY <1>1, Zenon DEF InAnswer
<1>5. InAnswerName(message, size)' <=> InAnswerName(message, size)
  BY <1>1, Zenon DEF InAnswerName
<1>6. InAnswerFixed(message, size)' <=> InAnswerFixed(message, size)
  BY <1>1, Zenon DEF InAnswerFixed
<1>7. AnswerIs(message, size)' <=> AnswerIs(message, size)
  BY <1>1, Zenon DEF AnswerIs
<1>8. Placed(message, size)'
  BY <1>1, <1>3, <1>4, <1>5, <1>6, <1>7 DEF Placed
<1> QED BY <1>2, <1>8

\* A datagram has just arrived, or there is none.
LEMMA WalkStarts == ParsersInit => WalkInv
<1>1. ASSUME NoLookup PROVE WalkInv
  <2>1. /\ sent = {} /\ packet = <<>> /\ at = "Done" /\ offset = 0 /\ questions = 0
        /\ answers = 0 /\ answer = 0 /\ reach = 0
    BY <1>1, Zenon DEF NoLookup
  <2>2. DnsInv
    BY <2>1 DEF DnsInv, DnsTypeOK, ReadsInBounds
  <2> QED BY <2>1, <2>2 DEF WalkInv
<1>2. ASSUME LookupInit PROVE WalkInv
  <2>1. PICK message \in Messages : \E size \in 0..Len(Octets(message)) :
          /\ CanAsk(message.domain)
          /\ sent = {[message |-> message, size |-> size]}
          /\ packet = SubSeq(Octets(message), 1, size)
    BY <1>2, Zenon DEF LookupInit
  <2>2. PICK size \in 0..Len(Octets(message)) :
          /\ CanAsk(message.domain)
          /\ sent = {[message |-> message, size |-> size]}
          /\ packet = SubSeq(Octets(message), 1, size)
    BY <2>1, Zenon
  <2>3. Arrived(message, size)
    BY <2>2, ParsersAssumption, Zenon DEF Arrived
  <2>4. /\ at = "Header" /\ offset = 0 /\ questions = 0 /\ answers = 0 /\ answer = 0
        /\ reach = 0
    BY <1>2, Zenon DEF LookupInit, DnsFresh
  <2>5. Placed(message, size)
    BY <2>4 DEF Placed
  <2>6. packet \in Seq(Octet)
    <3> DEFINE octets == Octets(message)
    <3>1. octets \in Seq(Octet)
      BY <2>3, ArrivedFacts, Zenon DEF MessageLaidOut
    <3>2. size \in 0..Len(octets) /\ packet = SubSeq(octets, 1, size)
      BY <2>2, Zenon
    <3> HIDE DEF octets
    <3> QED BY <3>1, <3>2
  <2>7. DnsInv
    BY <2>4, <2>6 DEF DnsInv, DnsTypeOK, ReadsInBounds
  <2>8. ASSUME NEW s \in sent PROVE s.message = message /\ s.size = size
    BY <2>2
  <2>9. ASSUME NEW s \in sent PROVE Arrived(s.message, s.size) /\ Placed(s.message, s.size)
    BY <2>3, <2>5, <2>8, Zenon
  <2> QED BY <2>7, <2>9 DEF WalkInv
<1> QED BY <1>1, <1>2 DEF ParsersInit

\* Every step of the walk through a datagram is where the layout of the message
\* says: parse_aaaa_response finds the address of the first AAAA record that
\* arrived whole, behind names of every form, and otherwise none.
THEOREM AnswerIsRight == ParsersSpec => []AnswerRight
<1>1. ParsersInit => WalkInv
  BY WalkStarts
<1>2. WalkInv /\ [ParsersNext]_parserVars => WalkInv'
  <2> SUFFICES ASSUME WalkInv, [ParsersNext]_parserVars PROVE WalkInv'
    OBVIOUS
  <2>1. DnsInv /\ DnsTypeOK
    BY DEF WalkInv, DnsInv
  <2>2. /\ sent' = sent
        /\ DnsNext \/ UNCHANGED dnsVars
    BY DEF ParsersNext, parserVars, dnsVars
  <2>3. DnsInv'
    <3>1. CASE DnsNext
      BY <2>1, <3>1, WalkStays, WalkMoves DEF DnsNext
    <3>2. CASE UNCHANGED dnsVars
      BY <2>1, <3>2 DEF dnsVars, DnsInv, DnsTypeOK, ReadsInBounds
    <3> QED BY <2>2, <3>1, <3>2
  <2>4. ASSUME NEW s \in sent
        PROVE  Arrived(s.message, s.size)' /\ Placed(s.message, s.size)'
    <3> DEFINE message == s.message
               size == s.size
    <3>1. Arrived(message, size) /\ Placed(message, size)
      BY DEF WalkInv
    <3>2. CASE DnsNext
      BY <2>1, <3>1, <3>2, WalkPlaced
    <3>3. CASE UNCHANGED dnsVars
      BY <3>1, <3>3, WalkUntouched
    <3> QED BY <2>2, <3>2, <3>3
  <2> QED BY <2>2, <2>3, <2>4 DEF WalkInv
<1>3. WalkInv => AnswerRight
  <2> SUFFICES ASSUME WalkInv, at = "Done", NEW s \in sent
               PROVE  answer = IF s.message.id = QueryId
                               THEN FirstAddress(s.message, s.size) ELSE 0
    BY DEF AnswerRight
  <2>1. AnswerIs(s.message, s.size)
    BY DEF WalkInv, Placed
  <2> QED BY <2>1, Zenon DEF AnswerIs
<1> QED BY <1>1, <1>2, <1>3, PTL DEF ParsersSpec

(***************************************************************************)
(* The reading of a request.                                               *)
(***************************************************************************)

\* The property is inductive once the variables have their types.
HttpInv == HttpTypeOK /\ HeadRight

\* read_http_request finds the head of every request where it ends, keeps the
\* rest, and never buffers more than the limit and one read.
THEOREM HeadIsRight == HttpSpec => []HeadRight
<1> USE HttpHeadAssumption DEF HttpTypeOK, HeadRight, HeadFound
<1>1. HttpInit => HttpInv
  BY DEF HttpInit, HttpInv
<1>2. HttpInv /\ [HttpNext]_httpVars => HttpInv'
  <2> SUFFICES ASSUME HttpInv, [HttpNext]_httpVars
               PROVE  HttpInv'
    OBVIOUS
  <2> USE DEF HttpInv
  <2>1. CASE Split
    BY <2>1 DEF Split
  <2>2. CASE TooLarge
    BY <2>2 DEF TooLarge
  <2>3. CASE Read
    BY <2>3 DEF Read
  <2>4. CASE ClosedEarly
    BY <2>4 DEF ClosedEarly
  <2>5. CASE UNCHANGED httpVars
    BY <2>5 DEF httpVars
  <2> QED BY <2>1, <2>2, <2>3, <2>4, <2>5 DEF HttpNext
<1>3. HttpInv => HeadRight
  BY DEF HttpInv
<1> QED BY <1>1, <1>2, <1>3, PTL DEF HttpSpec

=============================================================================
