------------------------------ MODULE ModelPull ------------------------------
(***************************************************************************)
(* pos-gateway's model manager: a pull streams an artifact into "<name>.     *)
(* pulling", hashes what it writes, verifies size and hash and renames the   *)
(* file to its final name; a pull that was cut short is resumed from what is *)
(* on disk.  A hash stands for the bytes that were hashed.  Files are        *)
(* inodes, because a handle outlives the name it was opened by.              *)
(***************************************************************************)
EXTENDS Integers, Sequences, FiniteSets, SequencesExt, FiniteSetsExt

CONSTANTS
    Pulls,        \* processes that pull the model
    Artifact,     \* the bytes the manifest's hash is of
    HopsMax,      \* REDIRECT_HOPS_MAX
    Sources,      \* the schemes of the manifest's URL: "https", "file"
    MaxPulls,     \* bound: pulls altogether
    MaxBad        \* bound: answers that are not the honest one

ASSUME PullAssumption ==
    /\ IsFiniteSet(Pulls)
    /\ Artifact \in Seq(Nat) /\ Artifact # <<>>
    /\ Sources \subseteq {"https", "file"}
    /\ HopsMax \in Nat /\ MaxPulls \in Nat /\ MaxBad \in Nat

VARIABLES
    disk,      \* disk[i]: the bytes of an inode
    temp,      \* the inode "<name>.pulling" names, 0 when there is none
    final,     \* the inode the final name names, 0 when there is none
    pull,      \* pull[p]: the pull a process has in flight
    pulled,    \* pulls so far
    bad,       \* dishonest or failed answers so far
    apart,     \* whether no two pulls ever overlapped
    strikes    \* verification failures, in a row, of pulls whose source was honest
               \* throughout, with no dishonest answer in between

pullVars == <<disk, temp, final, pull, pulled, bad, apart, strikes>>

Size == Len(Artifact)
Inodes == 1..(Cardinality(Pulls) + 2)
Wrong == 0       \* a byte of no artifact, and of a hole in a file

Resting == [pc |-> "rest", source |-> "https", fd |-> 0, append |-> FALSE, pos |-> 0, hash |-> <<>>, body |-> <<>>,
            resumed |-> 0, hops |-> 0, restarts |-> 0, honest |-> TRUE, outcome |-> "none"]

PullInit ==
    /\ disk = [i \in Inodes |-> <<>>]
    /\ temp = 0
    /\ final = 0
    /\ pull = [p \in Pulls |-> Resting]
    /\ pulled = 0
    /\ bad = 0
    /\ apart = TRUE
    /\ strikes = 0

Goes(p, next) == pull' = [pull EXCEPT ![p] = next]
Ends(p, outcome) == Goes(p, [pull[p] EXCEPT !.pc = "rest", !.fd = 0, !.outcome = outcome])

FreeInode == CHOOSE i \in Inodes : i \notin {temp, final} \cup {pull[p].fd : p \in Pulls}

(* The write of a handle: at the end of the file, or at its own position.    *)
Written(content, k, byte) ==
    IF k.append THEN Append(content, byte)
    ELSE [i \in 1..Max({Len(content), k.pos + 1}) |->
              IF i = k.pos + 1 THEN byte ELSE IF i <= Len(content) THEN content[i] ELSE Wrong]

-----------------------------------------------------------------------------
(* models_pull and pull_model_with_budget up to the stream: with consent     *)
(* and inside the budget; a file that is there already is not pulled.        *)
StartPull(p) ==
    /\ pull[p].pc = "rest"
    /\ pulled < MaxPulls
    /\ pulled' = pulled + 1
    /\ \E source \in Sources :
           Goes(p, IF final # 0 THEN [Resting EXCEPT !.outcome = "already_present"]
                   ELSE [Resting EXCEPT !.source = source, !.pc = IF source = "file" THEN "open" ELSE "read"])
    /\ apart' = (apart /\ \A q \in Pulls \ {p} : pull[q].pc = "rest")
    /\ UNCHANGED <<disk, temp, final, bad, strikes>>

(* read_partial: what is on disk is hashed; more than the artifact is        *)
(* discarded.                                                                *)
ReadPartial(p) ==
    LET bytes == IF temp = 0 THEN <<>> ELSE disk[temp]
    IN /\ pull[p].pc = "read"
       /\ IF Len(bytes) > Size
          THEN /\ Ends(p, "partial_too_long")
               /\ temp' = 0
          ELSE /\ Goes(p, [pull[p] EXCEPT !.pc = "open", !.hash = bytes])
               /\ UNCHANGED temp
       /\ UNCHANGED <<disk, final, pulled, bad, apart, strikes>>

(* A partial file is opened to append, anything else is created: a file that *)
(* is there keeps its inode and loses its bytes.                             *)
OpenTemp(p) ==
    LET resuming == pull[p].source # "file" /\ Len(pull[p].hash) \in 1..(Size - 1)
        inode == IF temp = 0 THEN FreeInode ELSE temp
    IN /\ pull[p].pc = "open"
       /\ IF resuming
          THEN /\ IF temp = 0 THEN Ends(p, "io")
                  ELSE Goes(p, [pull[p] EXCEPT !.pc = "ask", !.fd = temp, !.append = TRUE, !.resumed = Len(pull[p].hash)])
               /\ UNCHANGED <<disk, temp>>
          ELSE /\ Goes(p, [pull[p] EXCEPT !.pc = "ask", !.fd = inode, !.append = FALSE, !.pos = 0,
                                          !.hash = <<>>, !.resumed = 0])
               /\ temp' = inode
               /\ disk' = [disk EXCEPT ![inode] = <<>>]
       /\ UNCHANGED <<final, pulled, bad, apart, strikes>>

(* HashingWriter::on_head.  An honest source sends the bytes that were asked *)
(* for; others ignore the range, redirect, fail, or send something else.     *)
RestOf(p) == SubSeq(Artifact, pull[p].resumed + 1, Size)
Doctored(bytes) == {[bytes EXCEPT ![1] = Wrong], Append(bytes, Wrong), Front(bytes)}

AnswerHonestly(p) ==
    /\ pull[p].pc = "ask"
    /\ Goes(p, [pull[p] EXCEPT !.pc = "stream", !.body = RestOf(p)])
    /\ UNCHANGED <<disk, temp, final, pulled, bad, apart, strikes>>

AnswerBadly(p) ==
    LET k == [pull[p] EXCEPT !.honest = FALSE]
    IN /\ pull[p].pc = "ask"
       /\ bad < MaxBad
       /\ bad' = bad + 1
       /\ \/ \E body \in Doctored(RestOf(p)) : Goes(p, [k EXCEPT !.pc = "stream", !.body = body]) /\ UNCHANGED temp
          \/ Ends(p, "source") /\ UNCHANGED temp
          \/ /\ k.source = "https"
             /\ IF k.hops + 1 > HopsMax THEN Ends(p, "source")
                ELSE Goes(p, [k EXCEPT !.pc = "read", !.hops = @ + 1, !.fd = 0])
             /\ UNCHANGED temp
       /\ strikes' = 0
       /\ UNCHANGED <<disk, final, pulled, apart>>

(* A 200 to a ranged request starts the pull over, once.                     *)
RangeIgnored(p) ==
    LET k == [pull[p] EXCEPT !.honest = FALSE]
    IN /\ pull[p].pc = "ask"
       /\ pull[p].resumed > 0
       /\ bad < MaxBad
       /\ bad' = bad + 1
       /\ IF k.restarts + 1 > 1 THEN Ends(p, "source") /\ UNCHANGED temp
          ELSE IF temp = 0 THEN Ends(p, "io") /\ UNCHANGED temp
          ELSE Goes(p, [k EXCEPT !.pc = "read", !.restarts = @ + 1, !.fd = 0]) /\ temp' = 0
       /\ UNCHANGED <<disk, final, pulled, apart, strikes>>

(* discards_partial: only a source or an I/O failure leaves the partial.     *)
DiscardsPartial(outcome) == outcome \notin {"source", "io"}

(* HashingWriter::on_chunk and copy_file_source, one byte at a time.         *)
OnBytes(p) ==
    LET k == pull[p]
        hashed == IF k.source = "file" THEN k.pos ELSE Len(k.hash)
    IN /\ k.pc = "stream"
       /\ k.body # <<>>
       /\ IF hashed + 1 > Size
          THEN /\ Ends(p, "overrun")
               /\ temp' = 0
               /\ UNCHANGED disk
          ELSE /\ disk' = [disk EXCEPT ![k.fd] = Written(@, k, Head(k.body))]
               /\ Goes(p, [k EXCEPT !.body = Tail(@), !.pos = @ + 1,
                                    !.hash = IF k.source = "file" THEN @ ELSE Append(@, Head(k.body))])
               /\ UNCHANGED temp
       /\ UNCHANGED <<final, pulled, bad, apart, strikes>>

(* The connection fails inside the body: the partial stays.                  *)
SourceDrops(p) ==
    /\ pull[p].pc = "stream"
    /\ bad < MaxBad
    /\ bad' = bad + 1
    /\ Ends(p, "source")
    /\ UNCHANGED <<disk, temp, final, pulled, apart, strikes>>

(* Slip of Verify: the byte count is compared, the hash is not.              *)
VerifyCountOnly(bytes) == IF Len(bytes) # Size THEN "size" ELSE "ok"

(* verify.                                                                   *)
Verify(bytes) == IF Len(bytes) # Size THEN "size" ELSE IF bytes # Artifact THEN "checksum" ELSE "ok"

(* The stream is complete: a download is verified by what was hashed on the  *)
(* way, a local copy by what is on disk.                                     *)
StreamDone(p) ==
    LET k == pull[p]
        verdict == Verify(IF k.source # "file" THEN k.hash ELSE IF temp = 0 THEN <<>> ELSE disk[temp])
    IN /\ k.pc = "stream"
       /\ k.body = <<>>
       /\ IF verdict = "ok" THEN Goes(p, [k EXCEPT !.pc = "rename"]) ELSE Ends(p, verdict)
       /\ temp' = IF verdict # "ok" /\ DiscardsPartial(verdict) THEN 0 ELSE temp
       /\ strikes' = IF verdict = "ok" THEN 0 ELSE IF k.honest THEN strikes + 1 ELSE strikes
       /\ UNCHANGED <<disk, final, pulled, bad, apart>>

(* The rename moves whatever the name stands for now.                        *)
RenameTemp(p) ==
    /\ pull[p].pc = "rename"
    /\ IF temp = 0
       THEN Ends(p, "io") /\ UNCHANGED <<temp, final>>
       ELSE Ends(p, "ok") /\ final' = temp /\ temp' = 0
    /\ UNCHANGED <<disk, pulled, bad, apart, strikes>>

(* The process is killed: the partial stays.                                 *)
PullKilled(p) ==
    /\ pull[p].pc # "rest"
    /\ bad < MaxBad
    /\ bad' = bad + 1
    /\ Goes(p, Resting)
    /\ UNCHANGED <<disk, temp, final, pulled, apart, strikes>>

PullNext ==
    \E p \in Pulls :
        \/ StartPull(p) \/ ReadPartial(p) \/ OpenTemp(p)
        \/ AnswerHonestly(p) \/ AnswerBadly(p) \/ RangeIgnored(p)
        \/ OnBytes(p) \/ SourceDrops(p) \/ StreamDone(p) \/ RenameTemp(p) \/ PullKilled(p)

PullSpec == PullInit /\ [][PullNext]_pullVars

-----------------------------------------------------------------------------
(* The module's promise: what carries the model's name is the artifact,      *)
(* byte for byte.  It is made of pulls that do not overlap.                  *)
PublishedIsArtifact == apart /\ final # 0 => disk[final] = Artifact

(* Rule 3 of models.rs: bytes that failed verification are not resumed, so   *)
(* that against an honest source at most one pull in a row fails because of  *)
(* what earlier ones left behind.                                            *)
WrongBytesNotResumed == apart => strikes <= 1

(* What is published is the model, and what is not the model is not kept.      *)
PullSound == PublishedIsArtifact /\ WrongBytesNotResumed
=============================================================================
