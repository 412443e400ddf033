------------------------------ MODULE DnsAnswer ------------------------------
(***************************************************************************)
(* parse_aaaa_response and skip_dns_name: the walk, by offset, through the *)
(* datagram that answers the proxy server's own DNS query.  Every test,    *)
(* read and move of the offset is a step; the datagram is any sequence of  *)
(* octets.                                                                 *)
(***************************************************************************)
EXTENDS Naturals, Sequences

CONSTANTS QueryId   \* the identifier of the query that is being answered

Octet == 0..255

ASSUME DnsAnswerAssumption == QueryId \in Nat

VARIABLES
    packet,     \* the datagram, &response[..size]
    at,         \* where the walk is
    offset,
    questions,  \* questions left to skip
    answers,    \* answers left to look at
    answer,     \* the offset of the address found; 0 is None
    reach       \* history: one past the last octet of the latest read

dnsVars == <<packet, at, offset, questions, answers, answer, reach>>

DnsFresh ==
    /\ at = "Header"
    /\ offset = 0
    /\ questions = 0
    /\ answers = 0
    /\ answer = 0
    /\ reach = 0

DnsInit == packet \in Seq(Octet) /\ DnsFresh

Word(i) == 256 * packet[i + 1] + packet[i + 2]

\* Every `?` and every `return None`.
GiveUp ==
    /\ at' = "Done"
    /\ UNCHANGED <<packet, offset, questions, answers, answer, reach>>

HeaderFits == Len(packet) >= 12 /\ Word(0) = QueryId

ParseHeader ==
    /\ at = "Header"
    /\ HeaderFits
    /\ questions' = Word(4)
    /\ answers' = Word(6)
    /\ offset' = 12
    /\ reach' = 8
    /\ at' = "Question"
    /\ UNCHANGED <<packet, answer>>

RejectHeader == at = "Header" /\ ~HeaderFits /\ GiveUp

(***************************************************************************)
(* The two loops.                                                          *)
(***************************************************************************)

NextQuestion ==
    /\ at = "Question"
    /\ questions > 0
    /\ questions' = questions - 1
    /\ at' = "QuestionName"
    /\ UNCHANGED <<packet, offset, answers, answer, reach>>

QuestionsEnd ==
    /\ at = "Question"
    /\ questions = 0
    /\ at' = "Answer"
    /\ UNCHANGED <<packet, offset, questions, answers, answer, reach>>

NextAnswer ==
    /\ at = "Answer"
    /\ answers > 0
    /\ answers' = answers - 1
    /\ at' = "AnswerName"
    /\ UNCHANGED <<packet, offset, questions, answer, reach>>

AnswersEnd == at = "Answer" /\ answers = 0 /\ GiveUp

(***************************************************************************)
(* skip_dns_name: one label, or the pointer or root that ends the name.    *)
(***************************************************************************)

InName == at \in {"QuestionName", "AnswerName"} /\ offset < Len(packet)

NameEnds == at' = IF at = "QuestionName" THEN "QuestionTail" ELSE "AnswerFixed"

\* Mistake: a pointer is followed by nothing.
SkipNameShortPointer ==
    /\ InName
    /\ packet[offset + 1] = 0 \/ packet[offset + 1] >= 192
    /\ offset' = offset + 1
    /\ NameEnds
    /\ reach' = offset + 1
    /\ UNCHANGED <<packet, questions, answers, answer>>

SkipName ==
    /\ InName
    /\ \/ packet[offset + 1] = 0 /\ offset' = offset + 1
       \/ packet[offset + 1] >= 192 /\ offset' = offset + 2
    /\ offset' <= Len(packet)
    /\ NameEnds
    /\ reach' = offset + 1
    /\ UNCHANGED <<packet, questions, answers, answer>>

SkipLabel ==
    /\ InName
    /\ packet[offset + 1] \in 1..63
    /\ offset' = offset + 1 + packet[offset + 1]
    /\ offset' <= Len(packet)
    /\ reach' = offset + 1
    /\ UNCHANGED <<packet, at, questions, answers, answer>>

\* The name runs past the end, or has a length octet of no meaning.
NameBroken ==
    offset < Len(packet) =>
        \/ packet[offset + 1] \in 64..191
        \/ packet[offset + 1] >= 192 /\ offset + 2 > Len(packet)
        \/ packet[offset + 1] < 64 /\ offset + 1 + packet[offset + 1] > Len(packet)

RejectName == at \in {"QuestionName", "AnswerName"} /\ NameBroken /\ GiveUp

(***************************************************************************)
(* What follows the name.                                                  *)
(***************************************************************************)

SkipQuestion ==
    /\ at = "QuestionTail"
    /\ offset + 4 <= Len(packet)
    /\ offset' = offset + 4
    /\ at' = "Question"
    /\ UNCHANGED <<packet, questions, answers, answer, reach>>

RejectQuestion == at = "QuestionTail" /\ offset + 4 > Len(packet) /\ GiveUp

FixedFits == offset + 10 <= Len(packet)

\* Mistake: the data of a record may lie past the end.
RecordFitsUnchecked == FixedFits

RecordFits == FixedFits /\ offset + 10 + Word(offset + 8) <= Len(packet)

IsAddress == Word(offset) = 28 /\ Word(offset + 2) = 1 /\ Word(offset + 8) = 16

TakeAddress ==
    /\ at = "AnswerFixed"
    /\ RecordFits
    /\ IsAddress
    /\ answer' = offset + 10
    /\ reach' = offset + 26
    /\ at' = "Done"
    /\ UNCHANGED <<packet, offset, questions, answers>>

SkipRecord ==
    /\ at = "AnswerFixed"
    /\ RecordFits
    /\ ~IsAddress
    /\ offset' = offset + 10 + Word(offset + 8)
    /\ reach' = offset + 10
    /\ at' = "Answer"
    /\ UNCHANGED <<packet, questions, answers, answer>>

RejectRecord == at = "AnswerFixed" /\ ~RecordFits /\ GiveUp

DnsNext ==
    \/ ParseHeader \/ RejectHeader
    \/ NextQuestion \/ QuestionsEnd \/ NextAnswer \/ AnswersEnd
    \/ SkipName \/ SkipLabel \/ RejectName
    \/ SkipQuestion \/ RejectQuestion
    \/ TakeAddress \/ SkipRecord \/ RejectRecord

DnsSpec == DnsInit /\ [][DnsNext]_dnsVars

(***************************************************************************)
(* Properties.                                                             *)
(***************************************************************************)

DnsTypeOK ==
    /\ packet \in Seq(Octet)
    /\ at \in {"Header", "Question", "QuestionName", "QuestionTail",
               "Answer", "AnswerName", "AnswerFixed", "Done"}
    /\ offset \in Nat
    /\ questions \in Nat
    /\ answers \in Nat
    /\ answer \in Nat
    /\ reach \in Nat

\* Indexing past the end panics, and packet[offset..offset + 16] is not
\* guarded by `get`: whatever the datagram says of its names and lengths, no
\* read and no address found reaches past what was received, and the walk
\* itself never leaves the datagram (proxy.rs:664-718).
ReadsInBounds ==
    /\ reach <= Len(packet)
    /\ offset <= Len(packet)
    /\ answer # 0 => answer + 16 <= Len(packet)

=============================================================================
