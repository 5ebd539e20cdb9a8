----------------------------- MODULE Transport -----------------------------
(***************************************************************************)
(* The stdio framing of the gateway (mcp/transport.rs).  The client writes *)
(* JSON values one after the other; a read returns any non-empty prefix of *)
(* what was written, at most Chunk parts of it.  The server scans its      *)
(* buffer from the start after every read, and refuses to hold more than   *)
(* MaxBuffer parts.                                                        *)
(*                                                                         *)
(* A value is its parts: "open", any number of "body", "close", each with  *)
(* the number of the frame.  "gap" is the newline after a value, "junk"    *)
(* any byte that starts no value.                                          *)
(***************************************************************************)
EXTENDS Integers, Sequences

CONSTANTS MaxBuffer, Chunk

ASSUME FramingAssumption == MaxBuffer \in Nat \ {0} /\ Chunk \in Nat \ {0}

VARIABLES
    wire,  \* written by the client and not read
    open,  \* the client's end is open
    buf,   \* read by the server and not consumed
    eof    \* the server has seen the end

framing == <<wire, open, buf, eof>>

Part(what, n) == [part |-> what, frame |-> n]
Gap == Part("gap", 0)

Value(n, size) == [i \in 1..size |-> Part(IF i = 1 THEN "open" ELSE
                                          IF i = size THEN "close" ELSE "body", n)]

\* skip_whitespace: where the next value starts.
Start(b) == CHOOSE i \in 1 .. Len(b) + 1 :
                /\ \A j \in 1 .. i - 1 : b[j].part = "gap"
                /\ i <= Len(b) => b[i].part # "gap"

\* compact.
Compact(b) == SubSeq(b, Start(b), Len(b))

Closes(v)  == {i \in 1..Len(v) : v[i].part = "close"}

\* scan_value_end, of a buffer without leading gaps.
End(v)     == CHOOSE i \in Closes(v) : \A j \in Closes(v) : i <= j
Scan(v)    == IF v = <<>> THEN "incomplete"
              ELSE IF v[1].part # "open" THEN "invalid"
              ELSE IF Closes(v) = {} THEN "incomplete" ELSE "complete"

Oversize == Len(buf) > MaxBuffer

\* What the server does with the buffer it holds: the cases of next_value.
Looks ==
    LET v == Compact(buf)
    IN  IF Oversize THEN "oversize"
        ELSE CASE Scan(v) = "invalid"    -> "invalid"
               [] Scan(v) = "incomplete" -> IF ~eof THEN "read" ELSE
                                            IF v = <<>> THEN "end" ELSE "truncated"
               [] Scan(v) = "complete"   ->
                    IF End(v) = Len(v) THEN (IF eof THEN "value" ELSE "read")
                    ELSE IF v[End(v) + 1].part = "gap" THEN "value" ELSE "trailing"

Broken == {"oversize", "invalid", "truncated", "trailing"}

FramingInit == wire = <<>> /\ open = TRUE /\ buf = <<>> /\ eof = FALSE

\* Mutant: a read waits for a whole chunk.
Fill_WholeChunk(n) ==
    /\ Looks = "read" /\ n = Chunk /\ n <= Len(wire)
    /\ buf' = Compact(buf) \o SubSeq(wire, 1, n)
    /\ wire' = SubSeq(wire, n + 1, Len(wire))
    /\ UNCHANGED <<open, eof>>

\* fill: one read of the standard input.
Fill(n) ==
    /\ Looks = "read" /\ n <= Len(wire)
    /\ buf' = Compact(buf) \o SubSeq(wire, 1, n)
    /\ wire' = SubSeq(wire, n + 1, Len(wire))
    /\ UNCHANGED <<open, eof>>

FillEof ==
    /\ Looks = "read" /\ wire = <<>> /\ ~open
    /\ buf' = Compact(buf) /\ eof' = TRUE
    /\ UNCHANGED <<wire, open>>

\* Mutant: what follows the value in the buffer is dropped.
Take_All ==
    /\ Looks = "value"
    /\ buf' = <<>>
    /\ UNCHANGED <<wire, open, eof>>

\* take, of a whole value and the byte after it.
Take ==
    LET v == Compact(buf)
    IN  /\ Looks = "value"
        /\ buf' = SubSeq(v, End(v) + 2, Len(v))
        /\ UNCHANGED <<wire, open, eof>>

\* The frame Take consumes.
Next1 == Compact(buf)[1].frame

\* External: the client writes.
Write(parts) == open /\ wire' = wire \o parts /\ UNCHANGED <<open, buf, eof>>
Close(parts) == open /\ open' = FALSE /\ wire' = wire \o parts /\ UNCHANGED <<buf, eof>>
=============================================================================
