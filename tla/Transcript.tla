----------------------------- MODULE Transcript -----------------------------
(***************************************************************************)
(* TRANSCRIBE of pos-ingest: attempts decode one recording in windows, hand  *)
(* each window to an engine behind the gateway and commit the segments it    *)
(* returns before they read on, while a user corrects the committed text.    *)
(*                                                                          *)
(* Audio is counted in samples and labelled in milliseconds, of which each   *)
(* is SamplesPerMs samples.  Words are spoken at whole milliseconds.  The    *)
(* text of a segment is the interval it was labelled with.  One (evidence,   *)
(* pass) is modelled: both are part of every key.                            *)
(***************************************************************************)
EXTENDS Integers, Sequences, FiniteSets, SequencesExt, FiniteSetsExt

CONSTANTS
    Recordings,   \* [len, words]: samples, and disjoint intervals of ms in order
    Transcribers, \* attempts that may run TRANSCRIBE on the item
    SamplesPerMs, \* AUDIO_SAMPLE_RATE_HZ / 1_000
    PacketSamples,\* samples of the largest packet
    WindowMs,     \* TRANSCRIBE_WINDOW_MS_DEFAULT
    Overlap,      \* BOUNDARY_OVERLAP_MS
    WindowMin,    \* WINDOW_MS_MIN
    WindowMax,    \* WINDOW_SAMPLE_COUNT_MAX
    BatchMax,     \* TRANSCRIPT_BATCH_COUNT_MAX
    PageRows,     \* TRANSCRIPT_PAGE_ROWS
    SegmentMax,   \* TRANSCRIPT_SEGMENT_COUNT_MAX
    Speakers,     \* speaker indices below TRANSCRIPT_SPEAKER_COUNT_MAX
    MaxOverrun,   \* bound: ms by which an engine ends a segment past its window
    MaxLost,      \* bound: attempts that die or fail retriably
    MaxEdits,     \* bound: edits
    NoEdit, NoAttempt

VARIABLES
    rec,      \* the recording
    segs,     \* segs[i]: the row with segment_index i - 1
    names,    \* proj_transcript_speaker: the speakers that were named
    run,      \* run[a]: the local state of the attempt
    blob,     \* the text blob the item's row names, as rendered texts
    lost, edits,
    solo,     \* at most one attempt runs at a time
    flawed    \* a window before the last one was shorter than two overlaps, a resume
              \* dropped part of a millisecond, or an answer ended past its window

(* The columns of proj_transcript_segment and the keys of proj_transcript_speaker. *)
SegmentRows == [start: Nat, end: Nat, asr: Nat \X Nat, edited: {NoEdit, "corrected"},
                speaker: Speakers \cup {0}]
SpeakerRows == SUBSET Speakers

(* TranscriptSegment of the gateway, and what an attempt keeps between steps: *)
(* the window is len samples from sample `from` on, labelled `start`; skips   *)
(* counts the windows that a resume dropped.                                 *)
Segments == [start: Nat, end: Nat]
AttemptStates ==
    [pc: {"fill", "call", "commit", "write", "refused"}, start: Nat, len: Nat, ended: BOOLEAN,
     from: Nat, skips: Nat, next: Nat, resume: Nat, committed: Nat, out: Seq(Segments), advance: Nat,
     text: Seq((Nat \X Nat) \cup {"corrected"})]

(* A recording's words are in order and inside it.                           *)
ASSUME TranscriptAssumption ==
    /\ WindowMs \in Nat \ {0} /\ WindowMin \in Nat \ {0} /\ BatchMax \in Nat \ {0}
    /\ SamplesPerMs \in Nat \ {0} /\ PacketSamples \in Nat \ {0} /\ WindowMax \in Nat
    /\ Overlap \in Nat /\ PageRows \in Nat /\ SegmentMax \in Nat /\ Speakers \subseteq Nat
    /\ MaxOverrun \in Nat
    /\ NoAttempt \notin AttemptStates
    /\ \A r \in Recordings :
          /\ r.len \in Nat /\ r.words \in Seq(Segments)
          /\ \A i \in 1..Len(r.words) : /\ r.words[i].start < r.words[i].end
                                        /\ r.words[i].end <= r.len \div SamplesPerMs
          /\ \A i, j \in 1..Len(r.words) : i < j => r.words[i].end <= r.words[j].start

transcriptVars == <<rec, segs, names, run, blob, lost, edits, solo, flawed>>

TranscriptInit ==
    /\ rec \in Recordings
    /\ segs = <<>>
    /\ names = {}
    /\ run = [a \in Transcribers |-> NoAttempt]
    /\ blob = NoEdit
    /\ lost = 0
    /\ edits = 0
    /\ solo \in BOOLEAN
    /\ flawed = FALSE

At(a, pc) == run[a] # NoAttempt /\ run[a].pc = pc
Local(a, next) == run' = [run EXCEPT ![a] = next]

(* samples_for_ms, and ms_for_samples, which rounds down.                    *)
SamplesFor(ms) == ms * SamplesPerMs
MsFor(samples) == samples \div SamplesPerMs

-----------------------------------------------------------------------------
(* read_transcript_progress: max(segment_index) + 1 and max(end_ms).         *)
ResumePoint(rows) ==
    IF rows = <<>> THEN [next |-> 0, end |-> 0]
    ELSE [next |-> Len(rows), end |-> Max({rows[i].end : i \in DOMAIN rows})]

BeginAttempt(a) ==
    LET progress == ResumePoint(segs)
    IN /\ run[a] = NoAttempt
       /\ blob = NoEdit
       /\ solo => \A b \in Transcribers : run[b] = NoAttempt
       /\ Local(a, [pc |-> "fill", start |-> 0, len |-> 0, ended |-> FALSE,
                    from |-> 0, skips |-> 0, next |-> progress.next, resume |-> progress.end, committed |-> progress.end,
                    out |-> <<>>, advance |-> 0, text |-> <<>>])
       /\ UNCHANGED <<rec, segs, names, blob, lost, edits, solo, flawed>>

AfterWindow(ended) == IF ended THEN "write" ELSE "fill"

(* decode_into appends one packet at a time until the window is full, so that *)
(* it may hold part of a packet more, or until the audio ends.               *)
Decoded(held, left) ==
    LET full == SamplesFor(WindowMs)
    IN IF left < full THEN {left}
       ELSE IF held >= full THEN {held}
       ELSE full .. Min({left, full + PacketSamples - 1})

(* A window of committed audio is dropped: all its samples, of which the     *)
(* label counts the whole milliseconds.  One that straddles the resume point *)
(* is cut there, and an empty one ends the loop.                             *)
Fill(a) ==
    LET r == run[a]
        left == rec.len - r.from
        ended == left < SamplesFor(WindowMs)
        cut == Max({0, r.resume - r.start})
    IN /\ At(a, "fill")
       /\ \E len \in Decoded(r.len, left) :
             \/ /\ r.start + MsFor(len) <= r.resume
                /\ Local(a, [r EXCEPT !.from = @ + len, !.start = @ + MsFor(len), !.skips = @ + 1,
                                      !.len = 0, !.ended = ended, !.pc = AfterWindow(ended)])
                /\ flawed' = (flawed \/ (~ended /\ SamplesFor(MsFor(len)) < len))
             \/ /\ r.start + MsFor(len) > r.resume
                /\ Local(a, [r EXCEPT !.from = @ + SamplesFor(cut), !.start = @ + cut,
                                      !.len = len - SamplesFor(cut), !.ended = ended,
                                      !.pc = IF len = 0 THEN "write" ELSE "call"])
                /\ flawed' = (flawed \/ (~ended /\ MsFor(len) - cut < 2 * Overlap))
       /\ UNCHANGED <<rec, segs, names, blob, lost, edits, solo>>

(* The words an engine hears between two times, cut at those: the ones after *)
(* the first lo, that end before it, up to the last one that begins in it,   *)
(* or it leaves out the word that the window's end cuts off.                 *)
Heard(start, end) ==
    LET words == rec.words
        places == DOMAIN words
        clip(w) == [start |-> Max({start, w.start}), end |-> Min({end, w.end})]
        before(lo) == \A k \in places : k <= lo <=> words[k].end <= start
        upTo(hi) == \/ \A k \in places : k <= hi <=> words[k].start < end
                    \/ \A k \in places : k <= hi <=> words[k].end <= end
    IN {[k \in 1..(c[2] - c[1]) |-> clip(words[c[1] + k])] :
            c \in {d \in (0..Len(words)) \X (0..Len(words)) : before(d[1]) /\ upTo(d[2])}}

(* The times an engine gives are not held to its window: the word that the   *)
(* window's end cuts off may be said to end later.                           *)
Stretched(words, end, extra) ==
    IF words # <<>> /\ Last(words).end = end
    THEN [words EXCEPT ![Len(words)].end = @ + extra] ELSE words

(* Its times are counted from the window's first sample, the label's from    *)
(* the label.                                                                *)
Labelled(words, by) ==
    [k \in DOMAIN words |-> [start |-> words[k].start + by, end |-> words[k].end + by]]

(* An endpoint without timestamps answers one segment, with the label and    *)
(* the length of the window.                                                 *)
Untimed(start, end, label, ms) ==
    IF \E i \in DOMAIN rec.words : rec.words[i].start < end /\ rec.words[i].end > start
    THEN {<<[start |-> label, end |-> label + ms]>>} ELSE {<<>>}

(* What an engine may answer for the window, from its first whole millisecond *)
(* to its last.                                                              *)
Answers(r) ==
    LET opens == MsFor(r.from + SamplesPerMs - 1)
        closes == MsFor(r.from + r.len)
    IN {Labelled(Stretched(words, closes, extra), r.start - opens) :
            words \in Heard(opens, closes), extra \in 0..MaxOverrun}
       \cup Untimed(opens, closes, r.start, MsFor(r.len))

(* Slip of Advance: a quiet window is skipped to its end.                    *)
AdvanceNoOverlap(len, spoken) == IF spoken >= len \div 2 THEN Max({1, spoken}) ELSE len

(* How far a window moves the read position.                                 *)
Advance(len, spoken) ==
    IF spoken >= len \div 2 THEN Max({1, spoken})
    ELSE Max({1, len - Overlap, len \div 2})

(* commit_segments: what starts before the last committed end is dropped;    *)
(* the engine answers in order, so that it comes first.                      *)
Fresh(answer, committed) ==
    LET repeated == {i \in 1..Len(answer) : answer[i].start < committed}
    IN SubSeq(answer, Cardinality(repeated) + 1, Len(answer))

(* TranscribeRequest::check_bounds.                                          *)
OutOfBounds(samples) == samples > WindowMax \/ MsFor(samples) < WindowMin

(* transcribe_window: a window out of bounds is refused for good.  Otherwise *)
(* the segments are taken as the engine gave them; only a debug build        *)
(* asserts that they end within the window.                                  *)
CallEngine(a) ==
    LET r == run[a]
    IN /\ At(a, "call")
       /\ \/ /\ OutOfBounds(r.len)
             /\ Local(a, [r EXCEPT !.pc = "refused"])
             /\ UNCHANGED flawed
          \/ /\ ~OutOfBounds(r.len)
             /\ \E answer \in Answers(r) :
                    LET spoken == IF answer = <<>> THEN 0 ELSE Last(answer).end - r.start
                    IN /\ Local(a, [r EXCEPT !.pc = "commit", !.out = Fresh(answer, r.committed),
                                             !.advance = Advance(MsFor(r.len), spoken)])
                       /\ flawed' = (flawed \/ spoken > MsFor(r.len))
       /\ UNCHANGED <<rec, segs, names, blob, lost, edits, solo>>

(* segment_row: an upsert under the index, which clears the edits.           *)
Upserted(rows, first, batch) ==
    LET row(s) == [start |-> s.start, end |-> s.end, asr |-> <<s.start, s.end>>,
                   edited |-> NoEdit, speaker |-> 0]
    IN [i \in 1..Max({Len(rows), first + Len(batch)}) |->
           IF i \in (first + 1)..(first + Len(batch)) THEN row(batch[i - first]) ELSE rows[i]]

(* emit_transcript: one sub-batch is durable before the next is built.       *)
CommitBatch(a) ==
    LET r == run[a]
        batch == SubSeq(r.out, 1, Min({BatchMax, Len(r.out)}))
    IN /\ At(a, "commit")
       /\ r.out # <<>>
       /\ \/ /\ r.next + Len(batch) > SegmentMax
             /\ Local(a, [r EXCEPT !.pc = "refused"])
             /\ UNCHANGED segs
          \/ /\ r.next + Len(batch) <= SegmentMax
             /\ segs' = Upserted(segs, r.next, batch)
             /\ Local(a, [r EXCEPT !.out = SubSeq(@, Len(batch) + 1, Len(@)), !.next = @ + Len(batch),
                                   !.committed = Max({@, Last(batch).end})])
       /\ UNCHANGED <<rec, names, blob, lost, edits, solo, flawed>>

(* The tail past the advance is carried into the next window.                *)
Drain(a) ==
    LET r == run[a]
        consumed == Min({SamplesFor(r.advance), r.len})
    IN /\ At(a, "commit")
       /\ r.out = <<>>
       /\ Local(a, [r EXCEPT !.from = @ + consumed, !.start = @ + r.advance, !.len = @ - consumed,
                             !.pc = AfterWindow(r.ended)])
       /\ UNCHANGED <<rec, segs, names, blob, lost, edits, solo, flawed>>

Rendered(row) == IF row.edited = NoEdit THEN row.asr ELSE row.edited

(* write_transcript: one page of the projection after the other.             *)
WritePage(a) ==
    LET r == run[a]
        written == Len(r.text)
        page == SubSeq(segs, written + 1, Min({Len(segs), written + PageRows}))
    IN /\ At(a, "write")
       /\ page # <<>>
       /\ Local(a, [r EXCEPT !.text = @ \o [i \in DOMAIN page |-> Rendered(page[i])]])
       /\ UNCHANGED <<rec, segs, names, blob, lost, edits, solo, flawed>>

(* The pages ran out: the blob is the stage's product.                       *)
Publish(a) ==
    /\ At(a, "write")
    /\ Len(run[a].text) >= Len(segs)
    /\ blob' = run[a].text
    /\ Local(a, NoAttempt)
    /\ UNCHANGED <<rec, segs, names, lost, edits, solo, flawed>>

(* The worker dies, or the attempt fails and is retried.                     *)
AttemptLost(a) ==
    /\ run[a] # NoAttempt
    /\ run[a].pc # "refused"
    /\ lost < MaxLost
    /\ lost' = lost + 1
    /\ Local(a, NoAttempt)
    /\ UNCHANGED <<rec, segs, names, blob, edits, solo, flawed>>

-----------------------------------------------------------------------------
Edit == edits < MaxEdits /\ edits' = edits + 1

(* TranscriptSegmentProjection on an edit: an update of one column, of no row *)
(* if there is none under the index.                                         *)
EditedRow(i, row) ==
    IF i \in DOMAIN segs THEN [segs EXCEPT ![i] = row] ELSE segs

(* transcript.correct: edited_text alone.                                    *)
TextCorrected(i) ==
    /\ Edit
    /\ segs' = EditedRow(i, [segs[i] EXCEPT !.edited = "corrected"])
    /\ UNCHANGED <<rec, names, run, blob, lost, solo, flawed>>

(* transcript.speaker-assign.                                                *)
SpeakerSet(i, speaker) ==
    /\ Edit
    /\ speaker \in Speakers
    /\ segs' = EditedRow(i, [segs[i] EXCEPT !.speaker = speaker])
    /\ UNCHANGED <<rec, names, run, blob, lost, solo, flawed>>

(* transcript.speaker-name: an upsert that no pass owns.                     *)
SpeakerNamed(speaker) ==
    /\ Edit
    /\ speaker \in Speakers
    /\ names' = names \cup {speaker}
    /\ UNCHANGED <<rec, segs, run, blob, lost, solo, flawed>>

TranscriptNext ==
    \/ \E a \in Transcribers :
           \/ BeginAttempt(a) \/ Fill(a) \/ CallEngine(a) \/ CommitBatch(a) \/ Drain(a)
           \/ WritePage(a) \/ Publish(a) \/ AttemptLost(a)
    \/ \E i \in {1} : TextCorrected(i) \/ (\E s \in Speakers : SpeakerSet(i, s))
    \/ \E s \in Speakers : SpeakerNamed(s)

-----------------------------------------------------------------------------
TranscriptSpec == TranscriptInit /\ [][TranscriptNext]_transcriptVars

-----------------------------------------------------------------------------
(* The times of a word, and a word that a window's overlap holds.            *)
Spoken(k) == rec.words[k].start .. (rec.words[k].end - 1)
Short(k) == rec.words[k].end - rec.words[k].start <= Overlap

(* T2 and T3: the rows keep their columns, and the label of an attempt's     *)
(* window is never later behind its first sample than the part of a          *)
(* millisecond that each window dropped by the resume may hold.  While one   *)
(* attempt runs at a time the committed segments are in order and never      *)
(* overlap, however often attempts die between two batches and whatever the  *)
(* engine's times.  Once the transcript is published it has one text for     *)
(* each row, and no word that lasts at most the overlap is missing, unless a *)
(* window before the last one was shorter than two overlaps (half of it is   *)
(* skipped, whatever the engine left out), a resume dropped part of a        *)
(* millisecond, or an answer ended past its window.                          *)
TranscriptSound ==
    /\ names \in SpeakerRows
    /\ \A i \in DOMAIN segs : segs[i] \in SegmentRows
    /\ \A a \in Transcribers : run[a] # NoAttempt =>
           run[a].from <= SamplesFor(run[a].start) + run[a].skips * (SamplesPerMs - 1)
    /\ solo =>
        /\ \A i, j \in DOMAIN segs : i < j => segs[i].end <= segs[j].start
        /\ blob # NoEdit =>
               /\ Len(blob) = Len(segs)
               /\ ~flawed => \A k \in DOMAIN rec.words : Short(k) => \A t \in Spoken(k) :
                      \E i \in DOMAIN segs : segs[i].start <= t /\ t < segs[i].end

=============================================================================
