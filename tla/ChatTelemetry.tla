--------------------------- MODULE ChatTelemetry ---------------------------
(* What one chat completion is counted as (_ChatTelemetry and the copy     *)
(* loop of do_POST, src/link/infra/serving_proxy.py): the upstream's       *)
(* answer, cut into chunks wherever the network cut it, is written to the  *)
(* client chunk by chunk and fed to a parser of server-sent events.        *)
(* A body is a sequence over "d" (the text data:), "c" (a JSON object with *)
(* delta.content), "u" (one with a usage block), "N" and "R" (line feed    *)
(* and carriage return).                                                   *)
EXTENDS Integers, FiniteSets, Sequences

CONSTANTS
    Bodies,   \* the bodies the upstream may send
    Shapes    \* its Content-Types, of {"sse", "json"}

Bytes == {"d", "c", "u", "N", "R"}
ASSUME BodiesAssumption == Bodies \subseteq Seq(Bytes)

VARIABLES
    body,    \* the body of the answer
    shape,   \* is_streaming
    got,     \* how much of it was read and written to the client
    buf,     \* _sse_buf, or nonstream_buf
    chunks,  \* _content_chunks
    usage,   \* whether _usage is set
    phase,   \* where the copy loop is: "copy", "drain", "end" or "fired"
    record   \* the telemetry record

vars == <<body, shape, got, buf, chunks, usage, phase, record>>
NoRecord == [source |-> "none", tokens |-> 0]

Init ==
    /\ body \in Bodies /\ shape \in Shapes
    /\ got = 0 /\ buf = <<>> /\ chunks = 0 /\ usage = FALSE
    /\ phase = "copy" /\ record = NoRecord

---------------------------------------------------------------------------
LF == <<"N", "N">>
CRLF == <<"R", "N", "R", "N">>

\* bytearray.find: where d first is in b, 0 when it is not.
Find(b, d) ==
    LET at == {i \in 1 .. Len(b) - Len(d) + 1 : SubSeq(b, i, i + Len(d) - 1) = d}
    IN IF at = {} THEN 0 ELSE CHOOSE i \in at : \A j \in at : i <= j

\* bytes.strip, of carriage returns.
Strip(l) ==
    LET keep == {i \in 1 .. Len(l) : l[i] # "R"}
    IN IF keep = {} THEN <<>>
       ELSE SubSeq(l, CHOOSE i \in keep : \A j \in keep : i <= j, CHOOSE i \in keep : \A j \in keep : j <= i)

\* The lines of an event, each with where it starts.
Lines(e) ==
    LET ends == {0, Len(e) + 1} \cup {i \in 1 .. Len(e) : e[i] = "N"}
        next(i) == CHOOSE j \in ends : j > i /\ \A k \in ends : k > i => j <= k
    IN {<<i, Strip(SubSeq(e, i + 1, next(i) - 1))>> : i \in ends \ {Len(e) + 1}}

\* _consume_event: the lines of an event that are data: with the JSON object o.
DataLines(e, o) ==
    {l \in Lines(e) : /\ l[2] # <<>> /\ Head(l[2]) = "d"
                      /\ Strip(Tail(l[2])) = <<o>>}

---------------------------------------------------------------------------
\* A chunk of any size is read, written to the client and taken in.
Copy ==
    /\ phase = "copy"
    /\ \E n \in got + 1 .. Len(body) :
         /\ got' = n /\ buf' = buf \o SubSeq(body, got + 1, n)
    /\ phase' = IF shape = "sse" THEN "drain" ELSE "copy"
    /\ UNCHANGED <<body, shape, chunks, usage, record>>

\* _absorb: what an event adds.
Absorb(e) ==
    /\ chunks' = chunks + Cardinality(DataLines(e, "c"))
    /\ usage' = (usage \/ DataLines(e, "u") # {})

\* Mutant: only the delimiter llama-server emits.
EventEndLF(b) == [sep |-> Find(b, LF), len |-> 2]

\* The earliest delimiter of the buffer, whichever it is.
EventEnd(b) ==
    LET lf == Find(b, LF)
        crlf == Find(b, CRLF)
    IN IF lf = 0 /\ crlf = 0 THEN [sep |-> 0, len |-> 0]
       ELSE IF crlf = 0 \/ (lf > 0 /\ lf < crlf) THEN [sep |-> lf, len |-> 2]
       ELSE [sep |-> crlf, len |-> 4]

\* ingest_chunk: the next complete event, until what is left is part of one.
Drain ==
    /\ phase = "drain"
    /\ LET e == EventEnd(buf)
       IN IF e.sep > 0
          THEN /\ Absorb(SubSeq(buf, 1, e.sep - 1)) /\ buf' = SubSeq(buf, e.sep + e.len, Len(buf))
               /\ phase' = phase
          ELSE /\ phase' = "copy" /\ UNCHANGED <<buf, chunks, usage>>
    /\ UNCHANGED <<body, shape, got, record>>

\* The body is over.  A JSON body is parsed now; its choices have no delta.
Eof ==
    /\ phase = "copy" /\ got = Len(body) /\ phase' = "end"
    /\ usage' = (usage \/ (shape = "json" /\ buf = <<"u">>))
    /\ UNCHANGED <<body, shape, got, buf, chunks, record>>

\* The client hung up, or the upstream's connection broke: the chunk is not
\* taken in.
Break ==
    /\ phase = "copy" /\ phase' = "end"
    /\ UNCHANGED <<body, shape, got, buf, chunks, usage, record>>

\* finally: build_record prefers the usage block to the count of deltas.
Fire ==
    /\ phase = "end" /\ phase' = "fired"
    /\ record' = IF usage THEN [source |-> "usage", tokens |-> 0]
                 ELSE [source |-> "delta_count", tokens |-> chunks]
    /\ UNCHANGED <<body, shape, got, buf, chunks, usage>>

Next == Copy \/ Drain \/ Eof \/ Break \/ Fire

Spec == Init /\ [][Next]_vars

---------------------------------------------------------------------------
\* A blank line that begins at s or later is complete with byte n of b.
Closes(b, s, n) ==
    \E d \in {LF, CRLF} : n - Len(d) + 1 >= s /\ SubSeq(b, n - Len(d) + 1, n) = d

\* Where the event that is open after n bytes of b began, byte for byte: an
\* event is over with the byte that completes a blank line.
OpenSince(b) ==
    LET since[n \in 0 .. Len(b)] ==
          IF n = 0 THEN 1
          ELSE IF Closes(b, since[n - 1], n) THEN n + 1 ELSE since[n - 1]
    IN since

\* The positions of b where a complete event begins, and where it ends.
EventSpans(b) ==
    LET since == OpenSince(b)
    IN {<<since[n - 1], n>> : n \in {m \in 1 .. Len(b) : since[m] = m + 1}}

\* The data lines with object o in the complete events of b.
Expected(b, o) == UNION {{p} \X DataLines(SubSeq(b, p[1], p[2]), o) : p \in EventSpans(b)}

(* The variables have their types, and between two chunks the buffer holds *)
(* no complete event: its usage is not left for a chunk that may not come. *)
ChatTyped ==
    /\ got \in 0 .. Len(body) /\ chunks \in Nat /\ usage \in BOOLEAN
    /\ phase \in {"copy", "drain", "end", "fired"}
    /\ phase = "copy" /\ shape = "sse" => EventEnd(buf).sep = 0

(* What is counted does not depend on where the network cut the stream, in *)
(* the middle of a line, of an object or of a delimiter, nor on which      *)
(* delimiters the upstream mixes: it is what the complete events say that  *)
(* the client was sent.                                                    *)
CutsDoNotMatter ==
    shape = "sse" /\ phase # "drain" =>
      /\ chunks = Cardinality(Expected(SubSeq(body, 1, got), "c"))
      /\ usage = (Expected(SubSeq(body, 1, got), "u") # {})

(* _ChatTelemetry: what is counted does not depend on where the network    *)
(* cut the stream, and the record fires the usage block when the client    *)
(* was sent a complete frame with one, and the count of the deltas it was  *)
(* sent otherwise; a JSON body has to have been passed on to its end.      *)
RecordIsRight ==
    /\ CutsDoNotMatter
    /\ phase = "fired" =>
         LET sent == SubSeq(body, 1, got)
         IN /\ shape = "sse" =>
                 record = IF Expected(sent, "u") # {} THEN [source |-> "usage", tokens |-> 0]
                          ELSE [source |-> "delta_count",
                                tokens |-> Cardinality(Expected(sent, "c"))]
            /\ shape = "json" /\ record.source = "usage" => sent = <<"u">> /\ sent = body
============================================================================
