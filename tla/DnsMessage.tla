----------------------------- MODULE DnsMessage -----------------------------
(***************************************************************************)
(* The datagrams an overlay DNS server sends, as layouts: a header, the    *)
(* question as build_aaaa_query wrote it, and resource records.  They are  *)
(* the reference for the walk of DnsAnswer, which sees only the octets.    *)
(***************************************************************************)
EXTENDS Naturals, Sequences, FiniteSetsExt, SequencesExt

U8 == 0..255
U16 == 0..65535

\* to_be_bytes.
WordOctets(n) == <<n \div 256, n % 256>>

\* The first n of a sequence of parts, one after the other.
Joined(parts, n) == FlattenSeq(SubSeq(parts, 1, n))

(***************************************************************************)
(* build_aaaa_query: a domain is a sequence of labels, a label a sequence  *)
(* of octets.                                                              *)
(***************************************************************************)

IsLabel(label) == label \in Seq(U8) /\ Len(label) \in 1..63

CanAsk(domain) == domain # <<>> /\ \A i \in 1..Len(domain) : IsLabel(domain[i])

Labels(domain) == [i \in 1..Len(domain) |-> <<Len(domain[i])>> \o domain[i]]

QuestionName(domain) == FlattenSeq(Labels(domain)) \o <<0>>

Question(domain) == QuestionName(domain) \o WordOctets(28) \o WordOctets(1)

(***************************************************************************)
(* A record: the labels of its name and the octets that end it, its type   *)
(* and class, and its data.                                                *)
(***************************************************************************)

\* A name ends in the root, in a pointer or, malformed, in an octet of no
\* meaning.
IsEnding(ending) ==
    /\ ending \in Seq(U8) /\ Len(ending) \in {1, 2}
    /\ ending[1] \notin 1..63
    /\ Len(ending) = 2 <=> ending[1] >= 192

WellFormed(record) == record.ending[1] \notin 64..191

IsRecord(record) ==
    /\ record.labels \in Seq(Seq(U8))
    /\ \A i \in 1..Len(record.labels) : IsLabel(record.labels[i])
    /\ IsEnding(record.ending)
    /\ record.type \in U16
    /\ record.class \in U16
    /\ record.data \in Seq(U8)
    /\ Len(record.data) \in U16

Name(record) == FlattenSeq(Labels(record.labels)) \o record.ending

RecordOctets(record) ==
    Name(record) \o WordOctets(record.type) \o WordOctets(record.class)
        \o <<0, 0, 14, 16>> \o WordOctets(Len(record.data)) \o record.data

\* The header's count may promise more or fewer records than there are.
IsMessage(message) ==
    /\ message.id \in U16
    /\ message.echo \in BOOLEAN
    /\ message.domain \in Seq(Seq(U8))
    /\ message.count \in U16
    /\ Len(message.records) \in Nat
    /\ \A i \in 1..Len(message.records) : IsRecord(message.records[i])

\* A response, to a query that desired recursion, with recursion available.
Flags == 33152

\* What comes before the answers: the question is echoed or left out.
Preamble(message) ==
    WordOctets(message.id) \o WordOctets(Flags)
        \o WordOctets(IF message.echo THEN 1 ELSE 0) \o WordOctets(message.count)
        \o <<0, 0, 0, 0>>
        \o (IF message.echo THEN Question(message.domain) ELSE <<>>)

Records(message) ==
    [i \in 1..Len(message.records) |-> RecordOctets(message.records[i])]

Octets(message) == Preamble(message) \o FlattenSeq(Records(message))

(***************************************************************************)
(* The reference: the first usable address of a message of which only the  *)
(* first `size` octets arrived, by the layout.                             *)
(***************************************************************************)

EndOfRecord(message, i) == Len(Preamble(message)) + Len(Joined(Records(message), i))

Usable(message, i, size) ==
    /\ message.records[i].type = 28
    /\ message.records[i].class = 1
    /\ Len(message.records[i].data) = 16
    /\ EndOfRecord(message, i) <= size
    /\ \A j \in 1..i : WellFormed(message.records[j])

FirstAddress(message, size) ==
    LET usable == {i \in 1..Len(message.records) :
                      i <= message.count /\ Usable(message, i, size)}
    IN IF usable = {} THEN 0 ELSE EndOfRecord(message, Min(usable)) - 16

=============================================================================
