----------------------------- MODULE SseParser -----------------------------
(***************************************************************************)
(* The incremental parser of server-sent events (upstream/sse-parser.ts).  *)
(* The upstream's bytes come in chunks cut anywhere; the events it gives   *)
(* out must not depend on the cuts.  Whether it refuses the stream does:   *)
(* the limit is looked at between the chunks and not inside one.           *)
(*                                                                         *)
(* A letter is a line end, the name of a field with its colon, or a byte   *)
(* of text; a line that starts with anything but a known field is a        *)
(* comment or an unknown field.  `id' is kept the way `event' is; the BOM, *)
(* the space after the colon and letters of several bytes are left out.    *)
(***************************************************************************)
EXTENDS Integers, Sequences, SequencesExt

CONSTANTS Text,                        \* letters that are no field and no line end
          MaxBufferedBytes,
          MaxReceived, MaxChunk        \* bounds of the instance

ASSUME SseAssumption == MaxBufferedBytes \in Nat /\ MaxReceived \in Nat /\ MaxChunk \in Nat

LF == "LF"
CR == "CR"
Letters == {LF, CR, "data", "event"} \cup Text

VARIABLES received,   \* every letter so far; for the properties only
          tail, scanFrom,
          pending,    \* dataLines and eventName of the event under way
          returned,   \* what push and flush have given out
          stream      \* open, flushed, or given up with SseBufferOverflowError

sseVars == <<received, tail, scanFrom, pending, returned, stream>>

NoEvent == [dataLines |-> <<>>, eventName |-> <<>>]

----------------------------------------------------------------------------
(* A name that is set is a sequence of one.                                *)
ParseField(p, line) ==
    [dataLines |-> IF Head(line) = "data" THEN Append(p.dataLines, Tail(line)) ELSE p.dataLines,
     eventName |-> IF Head(line) = "event" THEN <<Tail(line)>> ELSE p.eventName]

(* The event, if there is a data line, and the state reset in either case. *)
Dispatch(p) ==
    [event |-> IF p.dataLines = <<>> THEN <<>>
               ELSE <<[data |-> p.dataLines, event |-> p.eventName]>>,
     pending |-> NoEvent]

(* processLine, as a step of the loop of drainLines that goes on at `next'. *)
ProcessLine(loop, line, next) ==
    LET d == Dispatch(loop.pending)
    IN  [loop EXCEPT !.pos = next, !.next = next,
                     !.pending = IF line = <<>> THEN d.pending ELSE ParseField(@, line),
                     !.events = IF line = <<>> THEN @ \o d.event ELSE @]

(* Mutant of Held: a CR ends its line wherever the chunk is cut.           *)
HeldNever(buf, loop, i, eof) == FALSE

(* A CR that ends the chunk and a line that is not empty may be half of    *)
(* CR LF: it waits for the next chunk.                                     *)
Held(buf, loop, i, eof) ==
    buf[i] = CR /\ i = Len(buf) /\ ~eof /\ i > loop.pos

(* One turn of the loop of drainLines; the LF of CR LF is passed over.     *)
DrainStep(buf, eof, loop, i) ==
    IF i < loop.next \/ buf[i] \notin {LF, CR} THEN loop
    ELSE IF Held(buf, loop, i, eof) THEN [loop EXCEPT !.held = TRUE]
    ELSE ProcessLine(loop, SubSeq(buf, loop.pos, i - 1),
                     IF buf[i] = CR /\ i < Len(buf) /\ buf[i + 1] = LF THEN i + 2 ELSE i + 1)

DrainLines(buf, eof) ==
    LET after[i \in scanFrom..Len(buf)] ==
            IF i = scanFrom
            THEN [pos |-> 1, next |-> scanFrom + 1, held |-> FALSE, pending |-> pending,
                  events |-> <<>>]
            ELSE DrainStep(buf, eof, after[i - 1], i)
    IN  after[Len(buf)]

(* dataBytes: the values with the line feed that joins them.               *)
DataBytes(p) ==
    LET upTo[k \in 0..Len(p.dataLines)] ==
            IF k = 0 THEN 0 ELSE upTo[k - 1] + Len(p.dataLines[k]) + 1
    IN  upTo[Len(p.dataLines)]

(* Mutants of Overflow: what was given out stays counted; the data lines   *)
(* are forgotten, or the line under way is.                                *)
OverflowOfAll(p, rest) == Len(received) + Len(rest) > MaxBufferedBytes
OverflowOfLine(p, rest) == Len(rest) > MaxBufferedBytes
OverflowOfData(p, rest) == DataBytes(p) > MaxBufferedBytes

(* checkOverflow: the data lines and the rest of the line under way.       *)
Overflow(p, rest) == DataBytes(p) + Len(rest) > MaxBufferedBytes

(* push: an overflow loses the events of its own chunk.                    *)
Push(chunk) ==
    LET buf  == tail \o chunk
        loop == DrainLines(buf, FALSE)
        rest == SubSeq(buf, loop.pos, Len(buf))
        over == Overflow(loop.pending, rest)
    IN  /\ stream = "open"
        /\ received' = received \o chunk
        /\ tail' = rest
        /\ scanFrom' = Len(rest) - (IF loop.held THEN 1 ELSE 0)
        /\ pending' = loop.pending
        /\ returned' = IF over THEN returned ELSE returned \o loop.events
        /\ stream' = IF over THEN "overflow" ELSE "open"

(* flush: a held CR ends its line, and the last line needs no end.         *)
Flush ==
    LET loop == DrainLines(tail, TRUE)
        rest == SubSeq(tail, loop.pos, Len(tail))
        last == Dispatch(IF rest = <<>> THEN loop.pending ELSE ParseField(loop.pending, rest))
    IN  /\ stream = "open"
        /\ stream' = "flushed"
        /\ tail' = <<>> /\ scanFrom' = 0
        /\ pending' = last.pending
        /\ returned' = returned \o loop.events \o last.event
        /\ UNCHANGED received

SseInit ==
    /\ received = <<>> /\ returned = <<>>
    /\ tail = <<>> /\ scanFrom = 0 /\ pending = NoEvent
    /\ stream = "open"

Chunks(n) == UNION {[1..k -> Letters] : k \in 1..n}

SseNext ==
    \/ Flush
    \/ \E chunk \in Chunks(MaxChunk) :
           Len(received) + Len(chunk) <= MaxReceived /\ Push(chunk)

SseSpec == SseInit /\ [][SseNext]_sseVars

----------------------------------------------------------------------------
(* The whole input, read letter by letter: the line under way, the lines   *)
(* of the event under way, and the events.  A line ends with CR LF, LF or  *)
(* CR.                                                                     *)
Unread == [line |-> <<>>, lines |-> <<>>, events |-> <<>>]

Values(lines, field) ==
    LET upTo[k \in 0..Len(lines)] ==
            IF k = 0 THEN <<>>
            ELSE IF Head(lines[k]) = field THEN Append(upTo[k - 1], Tail(lines[k]))
            ELSE upTo[k - 1]
    IN  upTo[Len(lines)]

EventOf(lines) ==
    LET names == Values(lines, "event")
    IN  [data |-> Values(lines, "data"), event |-> IF names = <<>> THEN <<>> ELSE <<Last(names)>>]

(* The lines up to an empty one are an event when one of them has data.    *)
LineRead(r) ==
    IF r.line # <<>> THEN [r EXCEPT !.line = <<>>, !.lines = Append(@, r.line)]
    ELSE [Unread EXCEPT !.events = IF EventOf(r.lines).data = <<>> THEN r.events
                                   ELSE Append(r.events, EventOf(r.lines))]

LetterRead(s, i, r) ==
    IF s[i] = LF /\ i > 1 /\ s[i - 1] = CR THEN r
    ELSE IF s[i] \in {LF, CR} THEN LineRead(r)
    ELSE [r EXCEPT !.line = Append(@, s[i])]

Read(s) ==
    LET upTo[i \in 0..Len(s)] ==
            IF i = 0 THEN Unread ELSE LetterRead(s, i, upTo[i - 1])
    IN  upTo[Len(s)]

(* The end of the input ends the line and the event under way.             *)
ReadToEnd(s) == LineRead(IF Read(s).line = <<>> THEN Read(s) ELSE LineRead(Read(s)))

(* What there is of the event under way: its data, each with the line feed *)
(* that joins it, and the line under way.                                  *)
UnderWay(s) ==
    DataBytes([NoEvent EXCEPT !.dataLines = Values(Read(s).lines, "data")]) + Len(Read(s).line)

(* However the bytes are cut, push has given out exactly the events whose  *)
(* empty line has come (push, drainLines), and flush adds the one at the   *)
(* end of the stream; what a stream gave out before it was given up are    *)
(* its first events.                                                       *)
EventsOfAnyCut ==
    /\ stream = "open" => returned = Read(received).events
    /\ stream = "flushed" => returned = ReadToEnd(received).events
    /\ stream = "overflow" => IsPrefix(returned, Read(received).events)

(* Between two calls no more is kept than the limit, and a stream is given *)
(* up only when there is more, a CR that may be half of CR LF included:    *)
(* neither what was given out nor a comment that has ended counts          *)
(* (checkOverflow).                                                        *)
LimitIsExact ==
    /\ stream = "open" => UnderWay(received) <= MaxBufferedBytes
    /\ stream = "overflow" =>
          \/ UnderWay(received) > MaxBufferedBytes
          \/ Last(received) = CR /\ UnderWay(Front(received)) + 1 > MaxBufferedBytes

(* The events do not depend on how the bytes were cut into chunks; the     *)
(* cuts decide only where the limit is looked at, so that an event too     *)
(* long for it passes when it ends within the chunk that exceeded it.      *)
EventsSound == EventsOfAnyCut /\ LimitIsExact
=============================================================================
