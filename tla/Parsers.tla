------------------------------ MODULE Parsers ------------------------------
(***************************************************************************)
(* The proxy server's two parsers against what they are given: the walk    *)
(* through a datagram, whole or cut short, and the reading of a request.   *)
(* They share nothing; a behaviour is one or the other.                    *)
(***************************************************************************)
EXTENDS DnsAnswer, DnsMessage, HttpHead

CONSTANTS Messages   \* what the DNS server may send

ASSUME ParsersAssumption == \A message \in Messages : IsMessage(message)

VARIABLES sent   \* history: the message and how much of it arrived, if one was sent

parserVars == <<dnsVars, httpVars, sent>>

LookupInit ==
    /\ \E message \in Messages : \E size \in 0..Len(Octets(message)) :
          /\ CanAsk(message.domain)
          /\ sent = {[message |-> message, size |-> size]}
          /\ packet = SubSeq(Octets(message), 1, size)
    /\ DnsFresh

NoLookup ==
    /\ sent = {}
    /\ packet = <<>>
    /\ at = "Done"
    /\ offset = 0 /\ questions = 0 /\ answers = 0 /\ answer = 0 /\ reach = 0

NoRequest ==
    /\ stream = 0 /\ end = 0 /\ got = 0 /\ head = 0 /\ body = 0
    /\ reading = "Closed"

ParsersInit == (LookupInit /\ NoRequest) \/ (NoLookup /\ HttpInit)

ParsersNext ==
    \/ DnsNext /\ UNCHANGED <<httpVars, sent>>
    \/ HttpNext /\ UNCHANGED <<dnsVars, sent>>

ParsersSpec == ParsersInit /\ [][ParsersNext]_parserVars

\* The walk finds the address that the layout of the message gives: the first
\* AAAA record that arrived whole, past names of every form, and nothing when
\* the message is for another query, cut before it or malformed before it.
AnswerRight ==
    at = "Done" =>
        \A s \in sent :
            answer = IF s.message.id = QueryId
                     THEN FirstAddress(s.message, s.size) ELSE 0

=============================================================================
