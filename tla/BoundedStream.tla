--------------------------- MODULE BoundedStream ---------------------------
(***************************************************************************)
(* pos-ingest's capped window over a reader, and the process-wide meter of   *)
(* what every live stream holds.  A stream's content is the sequence         *)
(* 1, 2, .., ContentLen, so that a byte says where it came from.             *)
(***************************************************************************)
EXTENDS Integers, Sequences, FiniteSets, SequencesExt, FiniteSetsExt

CONSTANTS
    Streams,       \* streams of the pipeline's stages
    ContentLen,    \* bound: bytes of a stream's content
    BufferMax,     \* StreamBudget::buffer_bytes_max
    ReadMax,       \* STAGE_READ_BYTES
    Wants,         \* bound: the window sizes callers ask for
    NoWant

ASSUME StreamAssumption ==
    /\ ContentLen \in Nat /\ BufferMax \in Nat /\ ReadMax \in Nat
    /\ Wants \subseteq Nat /\ NoWant \notin Nat
    /\ IsFiniteSet(Streams)

VARIABLES
    stream,   \* stream[s]: buffer, cursor and counters
    asked,    \* asked[s]: the window the caller is waiting for
    seen,     \* seen[s]: the bytes the caller consumed
    meter     \* RESIDENT_BYTES and PEAK_BYTES

streamVars == <<stream, asked, seen, meter>>

FreshStream == [buffer |-> <<>>, start |-> 0, read |-> 0, cap |-> 0, accounted |-> 0,
           atEnd |-> FALSE, open |-> TRUE]

StreamInit ==
    /\ stream = [s \in Streams |-> FreshStream]
    /\ asked = [s \in Streams |-> NoWant]
    /\ seen = [s \in Streams |-> <<>>]
    /\ meter = [resident |-> 0, peak |-> 0]

Available(t) == Len(t.buffer) - t.start
StreamVisible(t) == SubSeq(t.buffer, t.start + 1, Len(t.buffer))

(* account: the meter moves by the difference and marks the peak.            *)
Account(previous, current) ==
    LET total == meter.resident + current - previous
    IN meter' = [resident |-> total, peak |-> Max({meter.peak, total})]

(* window: a request past the budget is refused before anything is read.     *)
AskWindow(s, want) ==
    /\ stream[s].open
    /\ asked[s] = NoWant
    /\ want <= BufferMax
    /\ asked' = [asked EXCEPT ![s] = want]
    /\ UNCHANGED <<stream, seen, meter>>

(* compact: consumed bytes leave the buffer before it grows.                 *)
Compact(t) == [t EXCEPT !.buffer = StreamVisible(t), !.start = 0]

(* Vec's amortized growth.                                                   *)
Grown(cap, needed) == IF needed <= cap THEN cap ELSE Max({needed, 2 * cap})

ReadLen(t) == Min({ReadMax, BufferMax - Len(t.buffer)})

(* Slip of FillRead: a short read is taken for the end of the input.         *)
FillReadShortIsEnd(s) ==
    LET t == Compact(stream[s])
        room == ReadLen(t)
    IN /\ asked[s] # NoWant
       /\ Available(stream[s]) < asked[s]
       /\ ~t.atEnd
       /\ \E count \in 0..Min({room, ContentLen - t.read}) :
              /\ count = 0 => t.read = ContentLen
              /\ stream' = [stream EXCEPT ![s] =
                     [t EXCEPT !.buffer = @ \o [i \in 1..count |-> t.read + i], !.read = @ + count,
                               !.cap = Grown(@, Len(t.buffer) + room), !.atEnd = count < room]]
       /\ UNCHANGED <<asked, seen, meter>>

(* One turn of fill's loop: the reader returns any number of bytes up to the *)
(* room there is, none only at the end.                                      *)
FillRead(s) ==
    LET t == Compact(stream[s])
        room == ReadLen(t)
    IN /\ asked[s] # NoWant
       /\ Available(stream[s]) < asked[s]
       /\ ~t.atEnd
       /\ \E count \in 0..Min({room, ContentLen - t.read}) :
              /\ count = 0 => t.read = ContentLen
              /\ stream' = [stream EXCEPT ![s] =
                     [t EXCEPT !.buffer = @ \o [i \in 1..count |-> t.read + i], !.read = @ + count,
                               !.cap = Grown(@, Len(t.buffer) + room), !.atEnd = count = 0]]
       /\ UNCHANGED <<asked, seen, meter>>

(* fill returns: remeasure, and the caller has its window and consumes some  *)
(* of it.                                                                    *)
Consume(s, count) ==
    LET t == stream[s]
        window == Min({asked[s], Available(t)})
        next == IF t.start + count = Len(t.buffer) THEN [t EXCEPT !.buffer = <<>>, !.start = 0]
                ELSE [t EXCEPT !.start = @ + count]
    IN /\ asked[s] # NoWant
       /\ Available(t) >= asked[s] \/ t.atEnd
       /\ count <= window
       /\ Account(t.accounted, t.cap)
       /\ seen' = [seen EXCEPT ![s] = @ \o SubSeq(StreamVisible(t), 1, count)]
       /\ stream' = [stream EXCEPT ![s] = [next EXCEPT !.accounted = t.cap]]
       /\ asked' = [asked EXCEPT ![s] = NoWant]

(* Drop, after a read error or when the stage is done.                       *)
Release(s) ==
    /\ stream[s].open
    /\ Account(stream[s].accounted, 0)
    /\ stream' = [stream EXCEPT ![s] = [FreshStream EXCEPT !.open = FALSE]]
    /\ asked' = [asked EXCEPT ![s] = NoWant]
    /\ UNCHANGED seen

StreamNext ==
    \E s \in Streams :
        \/ \E want \in Wants : AskWindow(s, want)
        \/ FillRead(s)
        \/ \E count \in 0..BufferMax : Consume(s, count)
        \/ Release(s)

StreamSpec == StreamInit /\ [][StreamNext]_streamVars

-----------------------------------------------------------------------------
(* Whatever the reader returns and however little a caller takes, the bytes  *)
(* consumed and the bytes held are together what was read, in order and      *)
(* without a gap, no more than the budget is held, and a stream believes the *)
(* end is reached only when the whole content was read.                      *)
StreamExact ==
    \A s \in Streams : stream[s].open =>
        /\ seen[s] \o StreamVisible(stream[s]) = [i \in 1..stream[s].read |-> i]
        /\ Len(stream[s].buffer) <= BufferMax
        /\ stream[s].atEnd => stream[s].read = ContentLen

(* The meter is the sum of what the live streams reported, so that it is     *)
(* zero when none is left: it counts every byte of every stream.             *)
MeterIsSum ==
    meter.resident = Cardinality(UNION {{s} \X (1..stream[s].accounted) : s \in Streams})

(* The stream and the meter of its memory are exact.                          *)
StreamSound == StreamExact /\ MeterIsSum
=============================================================================
