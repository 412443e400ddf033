---------------------------- MODULE MCParsers ----------------------------
EXTENDS Parsers

\* A label of one octet, of the greatest length and, which cannot be asked, of
\* one more.
Domains == {<<<<97>>>>, <<<<97>>, [i \in 1..63 |-> 98]>>, <<[i \in 1..64 |-> 98]>>}

\* A pointer, the root, a label before a pointer, and octets of no meaning,
\* one of them behind a label that looks like a pointer.
NameOf(labels, ending) == [labels |-> labels, ending |-> ending]
RecordNames == {NameOf(<<>>, <<192, 12>>), NameOf(<<>>, <<0>>), NameOf(<<<<97>>>>, <<192, 12>>),
                NameOf(<<>>, <<64>>), NameOf(<<<<200>>>>, <<64>>)}
Pointer == NameOf(<<>>, <<192, 12>>)

Data(length, fill) == [i \in 1..length |-> fill]
Address == [type |-> 28, class |-> 1, data |-> Data(16, 2)]
Kinds == {Address,
          [Address EXCEPT !.data = Data(4, 2)],
          [Address EXCEPT !.type = 5, !.data = Data(16, 255)],
          [Address EXCEPT !.class = 3]}

Named(name, kind) == name @@ kind

SomeRecords == {Named(name, kind) : name \in RecordNames, kind \in Kinds}

Message(id, echo, domain, records, count) ==
    [id |-> id, echo |-> echo, domain |-> domain, records |-> records, count |-> count]

\* One address behind the greatest question, and up to two records behind the
\* smallest one; the count may promise one record more, or one fewer.
SomeMessages ==
    {Message(7, TRUE, domain, <<Named(Pointer, Address)>>, 1) : domain \in Domains}
    \cup {Message(id, TRUE, <<<<97>>>>, <<record>>, count) :
             id \in {7, 8}, record \in SomeRecords, count \in 0..2}
    \cup {Message(7, echo, <<<<97>>>>, <<first, Named(Pointer, second)>>, count) :
             echo \in BOOLEAN, first \in SomeRecords, second \in Kinds, count \in 0..3}
=============================================================================
