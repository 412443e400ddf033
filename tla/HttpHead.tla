------------------------------ MODULE HttpHead ------------------------------
(***************************************************************************)
(* read_http_request: the bytes of a connection are gathered, a read of at *)
(* most Chunk at a time, until the empty line that ends the headers is     *)
(* among them; what follows it already belongs to the body.                *)
(***************************************************************************)
EXTENDS Naturals

CONSTANTS
    Limit,      \* HTTP_HEADER_LIMIT, 65536
    Chunk,      \* the size of the buffer of one read, 4096
    MaxStream   \* the bound of this model on what a client sends

ASSUME HttpHeadAssumption ==
    Limit \in Nat /\ Chunk \in Nat \ {0} /\ MaxStream \in Nat

VARIABLES
    stream,   \* how many bytes the client sends before it closes its side
    end,      \* the end of the first empty line among them; 0: there is none
    got,      \* how many have been read
    head,     \* header_end, once found
    body,     \* the length of buffered_body
    reading   \* where the loop is

httpVars == <<stream, end, got, head, body, reading>>

\* The empty line is four bytes long.
HttpInit ==
    /\ stream \in 0..MaxStream
    /\ end \in {0} \cup 4..stream
    /\ got = 0
    /\ head = 0
    /\ body = 0
    /\ reading = "Reading"

\* find_header_end looks at everything read so far, so it does not matter how
\* reads cut the line.
HeadFound == end # 0 /\ end <= got

Split ==
    /\ reading = "Reading"
    /\ HeadFound
    /\ head' = end
    /\ body' = got - end
    /\ reading' = "Parsed"
    /\ UNCHANGED <<stream, end, got>>

\* Mistake: the limit is tested before the end of the headers is looked for.
TooLargeFirst ==
    /\ reading = "Reading"
    /\ got >= Limit
    /\ reading' = "TooLarge"
    /\ UNCHANGED <<stream, end, got, head, body>>

TooLarge ==
    /\ reading = "Reading"
    /\ ~HeadFound
    /\ got >= Limit
    /\ reading' = "TooLarge"
    /\ UNCHANGED <<stream, end, got, head, body>>

Read ==
    /\ reading = "Reading"
    /\ ~HeadFound
    /\ got < Limit
    /\ \E size \in 1..Chunk :
          got + size <= stream /\ got' = got + size
    /\ UNCHANGED <<stream, end, head, body, reading>>

ClosedEarly ==
    /\ reading = "Reading"
    /\ ~HeadFound
    /\ got < Limit
    /\ got = stream
    /\ reading' = "Closed"
    /\ UNCHANGED <<stream, end, got, head, body>>

HttpNext == Split \/ TooLarge \/ Read \/ ClosedEarly

HttpSpec == HttpInit /\ [][HttpNext]_httpVars

(***************************************************************************)
(* Properties.                                                             *)
(***************************************************************************)

HttpTypeOK ==
    /\ stream \in Nat
    /\ end \in {0} \cup 4..stream
    /\ got \in 0..stream
    /\ head \in Nat
    /\ body \in Nat
    /\ reading \in {"Reading", "Parsed", "TooLarge", "Closed"}

\* However the stream is cut into reads, a request is parsed at its own empty
\* line and every byte read after it is kept for the body; one whose headers
\* end within the limit is never called too large or cut short; and no more
\* than the limit and one read is ever buffered (proxy.rs:405-422).
HeadRight ==
    /\ got < Limit + Chunk
    /\ reading = "Parsed" => head = end /\ end # 0 /\ head + body = got
    /\ reading = "TooLarge" => end = 0 \/ end > Limit
    /\ reading = "Closed" => end = 0

=============================================================================
