----------------------------- MODULE TextStages -----------------------------
(***************************************************************************)
(* NORMALIZE and CHUNK of pos-ingest on one item: raw bytes become text and  *)
(* an index of segments, segments become the chunks that citations point at. *)
(* A byte is one of "x" (content), "u" then "v" (a character of two bytes),  *)
(* "s" (a space), "n", "r", "q" (a quote), "h" (#), "b" (the byte-order      *)
(* mark).  A caption block is [start, end, text]; one that parse_block does  *)
(* not take has no text or ends before it starts.                            *)
(***************************************************************************)
EXTENDS Integers, Sequences, FiniteSets, SequencesExt, FiniteSetsExt

CONSTANTS
    Documents,      \* [media, shape, bytes or blocks]: the items
    RecordMax,      \* RECORD_BYTES_MAX
    BytesTarget,    \* ChunkParams::bytes_target
    BytesMax,       \* ChunkParams::bytes_max
    ChunkCountMax,  \* CHUNK_COUNT_MAX
    CueCountMax,    \* CAPTION_CUE_COUNT_MAX
    SegmentCountMax \* SEGMENT_COUNT_MAX

TextBytes == {"x", "u", "v", "s", "n", "r", "q", "h", "b"}

ASSUME TextBounds ==
    /\ BytesMax \in Nat \ {0}
    /\ {RecordMax, BytesTarget, ChunkCountMax, CueCountMax, SegmentCountMax} \subseteq Nat
ASSUME DocumentsTyped ==
    \A d \in Documents : IF d.media = "captions" THEN d.blocks \in Seq([start : Nat, end : Nat, text : Seq(TextBytes)])
                         ELSE d.bytes \in Seq(TextBytes)

VARIABLES
    doc,       \* the item
    tpc,       \* "start", "scan", "cues", "chunk", "done", "failed"
    scan,      \* ScanState, or the caption reader's state
    text,      \* the normalized text
    index,     \* the records of the segment index
    read,      \* segments the chunker has read
    window,    \* Window
    facts      \* the chunk facts, in ordinal order

textVars == <<doc, tpc, scan, text, index, read, window, facts>>

Blank == {"s", "n", "r"}

(* What is at the positions in keep of a sequence, in order.                 *)
Place(keep, k) == Cardinality({j \in keep : j <= k})
Picked(s, keep) == [n \in 1..Cardinality(keep) |-> s[CHOOSE k \in keep : Place(keep, k) = n]]

(* ScanState::new.                                                           *)
FreshScan == [at |-> 0, start |-> 0, lineStart |-> 1, lineLast |-> 1, record |-> 0, line |-> 1,
              afterNewline |-> FALSE, quoted |-> FALSE, atStart |-> TRUE, prefix |-> <<>>, content |-> FALSE,
              committed |-> 0]
EmptyWindow == [start |-> 0, end |-> 0, locator |-> <<"none", 0, 0>>, depth |-> 0, count |-> 0]

TextInit ==
    /\ doc \in Documents
    /\ tpc = "start"
    /\ scan = FreshScan
    /\ text = <<>>
    /\ index = <<>>
    /\ read = 0
    /\ window = EmptyWindow
    /\ facts = <<>>

-----------------------------------------------------------------------------
(* NormalizeStage::run: what the media kind asks for.                        *)
NormalizeRun ==
    /\ tpc = "start"
    /\ tpc' = CASE doc.media \in {"audio", "video", "opaque"} -> "chunk"
                [] doc.media = "captions" -> "cues"
                [] OTHER -> "scan"
    /\ UNCHANGED <<doc, scan, text, index, read, window, facts>>

(* Segment::encode: fixed fields, the locator by its tag and two bounds; and *)
(* decode, which refuses a span that ends before it starts and any other tag.*)
Encode(segment) == <<segment.start, segment.end, segment.locator[1], segment.depth, segment.locator[2], segment.locator[3]>>
Decodes(record) == record[2] >= record[1] /\ record[3] \in {"time", "line", "message"}
Decode(record) ==
    [start |-> record[1], end |-> record[2], locator |-> <<record[3], record[5], record[6]>>, depth |-> record[4]]

(* ScanState::depth: an ATX heading of Markdown, by the record's first       *)
(* bytes that are not blank.                                                 *)
Depth(prefix) ==
    LET hashes == Cardinality({i \in DOMAIN prefix : \A j \in 1..i : prefix[j] = "h"})
    IN IF doc.media = "markdown" /\ hashes \in 1..6 /\ Len(prefix) > hashes THEN hashes ELSE 0

(* ScanState::locator.                                                       *)
LocatorOf(st) ==
    IF doc.shape \in {"thread", "message"} THEN <<"message", st.record, st.record>>
    ELSE <<"line", st.lineStart, Max({st.lineLast, st.lineStart})>>

(* close_record: a record of blanks is no segment, and its bytes are passed  *)
(* over.                                                                     *)
CloseRecord(st, end) ==
    [segment |-> IF st.content
                 THEN <<Encode([start |-> st.start, end |-> end, locator |-> LocatorOf(st), depth |-> Depth(st.prefix)])>>
                 ELSE <<>>,
     scan |-> [st EXCEPT !.start = end, !.lineStart = st.line, !.prefix = <<>>, !.content = FALSE,
                         !.record = IF st.content THEN @ + 1 ELSE @]]

(* SegmentWriter::push: one more segment than the index takes.               *)
WriterFull == Len(index) >= SegmentCountMax

RecordTooLong(st, end) == end - st.start > RecordMax

(* What a byte that is kept does to the state, up to its newline.            *)
Noticed(st, byte) ==
    LET quoted == [st EXCEPT !.at = @ + 1, !.atStart = FALSE,
                             !.quoted = IF byte = "q" /\ doc.media = "csv" THEN ~@ ELSE @]
    IN IF byte \in Blank THEN quoted
       ELSE [quoted EXCEPT !.lineStart = IF st.content THEN @ ELSE st.line, !.content = TRUE, !.lineLast = st.line,
                           !.prefix = IF Len(@) < 8 THEN Append(@, byte) ELSE @]

(* absorb, one byte: the mark and carriage returns are dropped, and a        *)
(* newline may end the record.                                               *)
Absorb ==
    LET byte == doc.bytes[scan.at + 1]
        st == Noticed(scan, byte)
        out == Append(text, byte)
        ends == IF doc.media = "csv" THEN ~st.quoted ELSE scan.afterNewline
        lined == [st EXCEPT !.line = @ + 1, !.afterNewline = TRUE]
        closed == IF ends THEN CloseRecord(lined, Len(out)) ELSE [segment |-> <<>>, scan |-> lined]
    IN /\ tpc = "scan"
       /\ scan.at < Len(doc.bytes)
       /\ \/ /\ byte = "r" \/ (byte = "b" /\ scan.atStart)
             /\ scan' = [scan EXCEPT !.at = @ + 1, !.atStart = @ /\ byte = "r"]
             /\ UNCHANGED <<tpc, text, index>>
          \/ /\ byte = "n"
             /\ text' = out
             /\ index' = index \o closed.segment
             /\ scan' = closed.scan
             /\ tpc' = IF (closed.segment # <<>> /\ WriterFull) \/ RecordTooLong(closed.scan, Len(out)) THEN "failed" ELSE "scan"
          \/ /\ byte \notin {"r", "n"} /\ ~(byte = "b" /\ scan.atStart)
             /\ text' = out
             /\ scan' = [st EXCEPT !.afterNewline = FALSE]
             /\ UNCHANGED <<tpc, index>>
       /\ UNCHANGED <<doc, read, window, facts>>

(* The window of the stream ended inside a record that is too long.          *)
WindowEnds ==
    /\ tpc = "scan"
    /\ RecordTooLong(scan, Len(text))
    /\ tpc' = "failed"
    /\ UNCHANGED <<doc, scan, text, index, read, window, facts>>

(* The content ended: the trailing record closes.                            *)
ScanDone ==
    LET closed == CloseRecord(scan, Len(text))
    IN /\ tpc = "scan"
       /\ scan.at = Len(doc.bytes)
       /\ ~RecordTooLong(scan, Len(text))
       /\ index' = index \o closed.segment
       /\ scan' = closed.scan
       /\ tpc' = IF closed.segment # <<>> /\ WriterFull THEN "failed" ELSE "chunk"
       /\ UNCHANGED <<doc, text, read, window, facts>>

-----------------------------------------------------------------------------
(* parse_block and order: a cue that ends inside what is written is dropped, *)
(* one that starts inside it is moved forward.                               *)
IsCue(block) == block.text # <<>> /\ block.end >= block.start
Ordered(block) == [block EXCEPT !.start = Max({@, scan.committed})]

(* One turn of normalize_captions, write_cue included: the cue's text and a  *)
(* newline, the segment without the newline.                                 *)
NextBlock ==
    LET block == doc.blocks[scan.at + 1]
        cue == Ordered(block)
        taken == IsCue(block) /\ block.end > scan.committed
        end == Len(text) + Len(block.text)
    IN /\ tpc = "cues"
       /\ scan.at < Len(doc.blocks)
       /\ \/ /\ ~taken
             /\ scan' = [scan EXCEPT !.at = @ + 1]
             /\ UNCHANGED <<tpc, text, index>>
          \/ /\ taken /\ (scan.record >= CueCountMax \/ WriterFull)
             /\ tpc' = "failed"
             /\ UNCHANGED <<scan, text, index>>
          \/ /\ taken /\ scan.record < CueCountMax /\ ~WriterFull
             /\ text' = text \o Append(block.text, "n")
             /\ index' = Append(index, Encode([start |-> Len(text), end |-> end, depth |-> 0,
                                               locator |-> <<"time", cue.start, cue.end>>]))
             /\ scan' = [scan EXCEPT !.at = @ + 1, !.record = @ + 1, !.committed = cue.end]
             /\ UNCHANGED tpc
       /\ UNCHANGED <<doc, read, window, facts>>

(* next_block and read_line refuse a block or a line over                    *)
(* CAPTION_BLOCK_BYTES_MAX, and a line that is not UTF-8.                    *)
BlockRefused ==
    /\ tpc = "cues"
    /\ scan.at < Len(doc.blocks)
    /\ tpc' = "failed"
    /\ UNCHANGED <<doc, scan, text, index, read, window, facts>>

CuesDone ==
    /\ tpc = "cues"
    /\ scan.at = Len(doc.blocks)
    /\ tpc' = "chunk"
    /\ UNCHANGED <<doc, scan, text, index, read, window, facts>>

-----------------------------------------------------------------------------
(* chunk_params_for: the boundary rule of a shape.                           *)
BoundaryRule(shape) ==
    CASE shape = "message" -> "per segment"
      [] shape = "document" -> "heading"
      [] OTHER -> "any"

WindowLen(w) == w.end - w.start
WouldClose(w, segment) ==
    /\ w.count > 0
    /\ \/ BoundaryRule(doc.shape) = "per segment"
       \/ BoundaryRule(doc.shape) = "heading" /\ segment.depth > 0
       \/ WindowLen(w) >= BytesTarget

(* Slip of Extended: the locator of the first segment is kept.               *)
ExtendedNot(current, next) == current

(* extend: the first segment's start, the last one's end.                    *)
Extended(current, next) == IF current[1] = next[1] THEN <<current[1], current[2], next[3]>> ELSE current

Pushed(w, segment) ==
    IF w.count = 0
    THEN [start |-> segment.start, end |-> segment.end, locator |-> segment.locator, depth |-> segment.depth, count |-> 1]
    ELSE [w EXCEPT !.end = segment.end, !.locator = Extended(@, segment.locator), !.count = @ + 1]

(* ContentHasher: blanks are one space between words and nothing around them.*)
ContentOf(bytes) ==
    LET word == {i \in DOMAIN bytes : bytes[i] \notin Blank}
        between == {i \in DOMAIN bytes \ word : i - 1 \in word /\ \E j \in word : j > i}
    IN Picked([i \in DOMAIN bytes |-> IF i \in word THEN bytes[i] ELSE "s"], word \cup between)

(* derive_chunk_id.                                                          *)
ChunkId(start, content) == <<doc.shape, start, content>>

(* ChunkEmitter::emit and push_fact: the window's bytes, cut every BytesMax; *)
(* a piece of blanks is no chunk.                                            *)
Piece(w, k) ==
    LET start == w.start + (k - 1) * BytesMax
        end == Min({start + BytesMax, w.end})
        content == ContentOf(SubSeq(text, start + 1, end))
    IN [id |-> ChunkId(start, content), start |-> start, end |-> end, locator |-> w.locator, content |-> content]
Pieces(w) ==
    LET cuts == 1..((WindowLen(w) + BytesMax - 1) \div BytesMax)
    IN IF w.count = 0 THEN <<>>
       ELSE Picked([k \in cuts |-> Piece(w, k)], {k \in cuts : Piece(w, k).content # <<>>})

(* The facts of the pieces that still fit, and whether the bound was hit.    *)
Emit(pieces, next) ==
    /\ facts' = facts \o SubSeq(pieces, 1, Min({Len(pieces), ChunkCountMax - Len(facts)}))
    /\ tpc' = IF Len(facts) + Len(pieces) > ChunkCountMax THEN "failed" ELSE next

(* One turn of chunk_evidence.                                               *)
ChunkSegment ==
    LET segment == Decode(index[read + 1])
        before == IF WouldClose(window, segment) THEN Pieces(window) ELSE <<>>
        grown == Pushed(IF WouldClose(window, segment) THEN EmptyWindow ELSE window, segment)
        full == BoundaryRule(doc.shape) = "per segment" \/ WindowLen(grown) >= BytesMax
    IN /\ tpc = "chunk"
       /\ read < Len(index)
       /\ Decodes(index[read + 1])
       /\ Emit(before \o (IF full THEN Pieces(grown) ELSE <<>>), "chunk")
       /\ window' = IF full THEN EmptyWindow ELSE grown
       /\ read' = read + 1
       /\ UNCHANGED <<doc, scan, text, index>>

ChunkDone ==
    /\ tpc = "chunk"
    /\ read = Len(index)
    /\ Emit(Pieces(window), "done")
    /\ window' = EmptyWindow
    /\ UNCHANGED <<doc, scan, text, index, read>>

TextNext ==
    NormalizeRun \/ Absorb \/ WindowEnds \/ ScanDone \/ NextBlock \/ BlockRefused \/ CuesDone \/ ChunkSegment \/ ChunkDone

TextSpec == TextInit /\ [][TextNext]_textVars

-----------------------------------------------------------------------------
(* What a citation relies on, for every document and shape.  The text is the *)
(* raw content without its mark and carriage returns; every byte of it that  *)
(* is not blank is in exactly one chunk; chunks are in order and no two have *)
(* the same id; the lines a chunk names are those its words are on; and no   *)
(* two chunks of different windows name the same moment of a recording.      *)
LineIn(bytes, t) == 1 + Cardinality({i \in 1..(t - 1) : bytes[i] = "n"})
IsMark(i) == doc.bytes[i] = "b" /\ \A j \in 1..(i - 1) : doc.bytes[j] = "r"
Kept == {i \in DOMAIN doc.bytes : doc.bytes[i] # "r" /\ ~IsMark(i)}
RawText == Picked(doc.bytes, Kept)

CitationsSound ==
    tpc = "done" =>
        /\ doc.media \in {"plaintext", "markdown", "csv", "structured"} => text = RawText
        /\ \A t \in DOMAIN text : text[t] \notin Blank =>
               \E i \in DOMAIN facts :
                   /\ facts[i].start < t /\ t <= facts[i].end
                   /\ facts[i].locator[1] = "line" => LineIn(text, t) \in facts[i].locator[2]..facts[i].locator[3]
        /\ \A i, j \in DOMAIN facts : i < j =>
               /\ facts[i].end <= facts[j].start
               /\ facts[i].id # facts[j].id
               /\ facts[i].locator[1] = "time" =>
                      facts[i].locator = facts[j].locator \/ facts[i].locator[3] <= facts[j].locator[2]

=============================================================================
