------------------------------- MODULE Intake -------------------------------
(***************************************************************************)
(* ingest.submit: a file or a folder becomes evidence.  The walk of          *)
(* pos-ingest's intake plans the files under its bounds, and the command of  *)
(* pos-api opens, classifies and submits them one after the other, turning   *)
(* every failure of a file into a row of its report.                         *)
(***************************************************************************)
EXTENDS Integers, Sequences, FiniteSets, SequencesExt, FiniteSetsExt, TLC

CONSTANTS
    Trees,         \* Trees[t][d]: the entries of directory d, a function to entry kinds
    Root,          \* the path that is submitted
    FileBytes,     \* FileBytes[f]: the size of a file, in TextBytesMax units
    FileMagic,     \* FileMagic[f]: what its first bytes are
    FileContent,   \* FileContent[f]: the identity of its bytes
    FileCountMax,  \* INTAKE_FILE_COUNT_MAX
    DepthMax,      \* INTAKE_DEPTH_MAX
    FileBytesMax,  \* INTAKE_FILE_BYTES_MAX
    TextBytesMax,  \* INTAKE_TEXT_BYTES_MAX
    RowCountMax,   \* INGEST_SUBMIT_ROW_COUNT_MAX
    MaxVanish      \* bound: files that are gone when they are opened

(* A tree: what is a directory has entries of its own, names are ordered, and *)
(* every directory is under the root.  A root that is a file has no tree.    *)
Subdirectories(t, d) == {x \in DOMAIN t[d] : t[d][x] = "dir"}
IsTree(t) ==
    /\ \A d \in DOMAIN t : /\ DOMAIN t[d] \subseteq Nat /\ IsFiniteSet(DOMAIN t[d])
                            /\ Subdirectories(t, d) \subseteq DOMAIN t
    /\ DOMAIN t # {} => Root \in DOMAIN t
    /\ \A S \in SUBSET DOMAIN t :
           Root \in S /\ (\A d \in S : Subdirectories(t, d) \subseteq S) => S = DOMAIN t

ASSUME IntakeAssumption ==
    /\ FileCountMax \in Nat /\ DepthMax \in Nat
    /\ \A t \in Trees : IsTree(t)

VARIABLES
    tree,      \* the tree the command walks
    ipc,       \* "request", "walk", "submit", "done", "error"
    stack,     \* directories to read, with their depth; the last is read next
    plan,      \* IntakePlan
    at,        \* files of the plan that were submitted
    stored,    \* contents the project holds
    report,    \* IngestSubmitReport
    vanished   \* files that were gone

intakeVars == <<tree, ipc, stack, plan, at, stored, report, vanished>>

EmptyPlan == [files |-> <<>>, skipped |-> 0, truncated |-> FALSE]

IntakeInit ==
    /\ tree \in Trees
    /\ ipc = "request"
    /\ stack = <<>>
    /\ plan = EmptyPlan
    /\ at = 0
    /\ stored = {}
    /\ report = [added |-> 0, duplicate |-> 0, refused |-> 0, items |-> <<>>]
    /\ vanished = {}

-----------------------------------------------------------------------------
(* sniff_container, sniff_captions, then the text sniffer: the first rule    *)
(* that knows the prefix names the media.                                    *)
ContainerKind ==
    "wave" :> "audio" @@ "ogg" :> "audio" @@ "flac" :> "audio" @@ "id3" :> "audio" @@ "mpeg sync" :> "audio"
    @@ "ftyp M4A" :> "audio" @@ "ftyp" :> "video" @@ "ebml" :> "video" @@ "mpeg ps" :> "video" @@ "pdf" :> "opaque"
CaptionKind == "webvtt" :> "captions" @@ "srt" :> "captions"
TextKind == "prose" :> "plaintext" @@ "heading" :> "markdown" @@ "commas" :> "csv" @@ "binary" :> "opaque"

SniffIntake(magic) ==
    CASE magic \in DOMAIN ContainerKind -> ContainerKind[magic]
      [] magic \in DOMAIN CaptionKind -> CaptionKind[magic]
      [] OTHER -> TextKind[magic]

(* shape_for and is_text.                                                    *)
ShapeFor(media) ==
    CASE media \in {"audio", "video", "captions"} -> "transcript"
      [] media = "csv" -> "table"
      [] media = "structured" -> "thread"
      [] OTHER -> "document"
IsText(media) == media \in {"plaintext", "markdown", "csv", "captions"}

(* open_file: what makes a file that is still there a refused row.           *)
TooLarge(f) ==
    \/ FileBytes[f] > FileBytesMax
    \/ IsText(SniffIntake(FileMagic[f])) /\ FileBytes[f] > TextBytesMax

-----------------------------------------------------------------------------
(* read_directory: dot-entries, .pos projects, symlinks and special files    *)
(* are counted and left out; files and directories are sorted by name.       *)
Entries(d, kind) == {x \in DOMAIN tree[d] : tree[d][x] = kind}
Sorted(S) == CHOOSE s \in [1..Cardinality(S) -> S] : \A i, j \in DOMAIN s : i < j => s[i] < s[j]
SkippedIn(d) == Cardinality({x \in DOMAIN tree[d] : tree[d][x] \in {"hidden", "symlink", "special"}})

(* intake_root and plan_intake: a regular file is a plan of its own.         *)
PlanIntake ==
    /\ ipc = "request"
    /\ \/ /\ Root \notin DOMAIN tree
          /\ plan' = [plan EXCEPT !.files = <<Root>>]
          /\ ipc' = "submit"
          /\ UNCHANGED stack
       \/ /\ Root \in DOMAIN tree
          /\ stack' = <<[dir |-> Root, depth |-> 0]>>
          /\ ipc' = "walk"
          /\ UNCHANGED plan
    /\ UNCHANGED <<tree, at, stored, report, vanished>>

(* The request names a path and carries bytes, or neither: no plan is made.  *)
RefuseRequest ==
    /\ ipc = "request"
    /\ ipc' = "error"
    /\ UNCHANGED <<tree, stack, plan, at, stored, report, vanished>>

(* Slip of WalkDirectory: the depth bound stops the walk silently.           *)
WalkDirectorySilentDepth ==
    LET top == Last(stack)
        files == Sorted(Entries(top.dir, "file"))
        dirs == Sorted(Entries(top.dir, "dir"))
        room == FileCountMax - Len(plan.files)
        skipped == plan.skipped + SkippedIn(top.dir)
        over == top.depth + 1 > DepthMax
    IN /\ ipc = "walk"
       /\ stack # <<>>
       /\ plan' = [files |-> plan.files \o SubSeq(files, 1, Min({room, Len(files)})), skipped |-> skipped,
                   truncated |-> plan.truncated \/ Len(files) > room]
       /\ stack' = IF over THEN Front(stack)
                   ELSE Front(stack) \o Reverse([i \in DOMAIN dirs |-> [dir |-> dirs[i], depth |-> top.depth + 1]])
       /\ ipc' = IF Len(files) > room THEN "submit" ELSE "walk"
       /\ UNCHANGED <<tree, at, stored, report, vanished>>

(* One turn of walk: the files of a directory join the plan, its directories *)
(* the stack, last first.  A full plan ends the walk.                        *)
WalkDirectory ==
    LET top == Last(stack)
        files == Sorted(Entries(top.dir, "file"))
        dirs == Sorted(Entries(top.dir, "dir"))
        room == FileCountMax - Len(plan.files)
        skipped == plan.skipped + SkippedIn(top.dir)
        over == top.depth + 1 > DepthMax
    IN /\ ipc = "walk"
       /\ stack # <<>>
       /\ plan' = [files |-> plan.files \o SubSeq(files, 1, Min({room, Len(files)})), skipped |-> skipped,
                   truncated |-> plan.truncated \/ Len(files) > room \/ (over /\ dirs # <<>>)]
       /\ stack' = IF over THEN Front(stack)
                   ELSE Front(stack) \o Reverse([i \in DOMAIN dirs |-> [dir |-> dirs[i], depth |-> top.depth + 1]])
       /\ ipc' = IF Len(files) > room THEN "submit" ELSE "walk"
       /\ UNCHANGED <<tree, at, stored, report, vanished>>

WalkDone ==
    /\ ipc = "walk"
    /\ stack = <<>>
    /\ ipc' = "submit"
    /\ UNCHANGED <<tree, stack, plan, at, stored, report, vanished>>

(* A directory that cannot be read fails the command before any submission.  *)
WalkFails ==
    /\ ipc = "walk"
    /\ stack # <<>>
    /\ ipc' = "error"
    /\ UNCHANGED <<tree, stack, plan, at, stored, report, vanished>>

Row(f, outcome) == [file |-> f, outcome |-> outcome]

Reported(f, outcome) ==
    [report EXCEPT ![outcome] = @ + 1,
                   !.items = IF Len(@) < RowCountMax THEN Append(@, Row(f, outcome)) ELSE @]

(* submit_one: bytes are addressed by their content, so that bytes the       *)
(* project holds are a duplicate; whatever fails is this file's row.         *)
SubmitOne(f, gone) ==
    IF gone \/ TooLarge(f) THEN "refused"
    ELSE IF FileContent[f] \in stored THEN "duplicate" ELSE "added"

SubmitNext ==
    /\ ipc = "submit"
    /\ at < Len(plan.files)
    /\ \E gone \in BOOLEAN :
           LET f == plan.files[at + 1]
               outcome == SubmitOne(f, gone)
           IN /\ gone => Cardinality(vanished) < MaxVanish
              /\ vanished' = IF gone THEN vanished \cup {f} ELSE vanished
              /\ stored' = IF outcome = "added" THEN stored \cup {FileContent[f]} ELSE stored
              /\ report' = Reported(f, outcome)
    /\ at' = at + 1
    /\ UNCHANGED <<tree, ipc, stack, plan>>

SubmitDone ==
    /\ ipc = "submit"
    /\ at = Len(plan.files)
    /\ ipc' = "done"
    /\ UNCHANGED <<tree, stack, plan, at, stored, report, vanished>>

IntakeNext ==
    \/ PlanIntake \/ RefuseRequest \/ WalkDirectory \/ WalkDone \/ WalkFails \/ SubmitNext \/ SubmitDone

IntakeSpec == IntakeInit /\ [][IntakeNext]_intakeVars

-----------------------------------------------------------------------------
(* L8: nothing is left out silently.  When the command answers, every        *)
(* regular file under the root was planned or the report says that the walk  *)
(* was cut short; every planned file is counted once; and a file that is     *)
(* neither refused nor gone has its bytes in the project.                    *)
RegularFiles == UNION {Entries(d, "file") : d \in DOMAIN tree}

NothingLeftOut ==
    ipc = "done" =>
        /\ plan.truncated \/ RegularFiles \subseteq Range(plan.files)
        /\ report.added + report.duplicate + report.refused = Len(plan.files)
        /\ \A f \in Range(plan.files) : FileContent[f] \in stored \/ TooLarge(f) \/ f \in vanished
=============================================================================
