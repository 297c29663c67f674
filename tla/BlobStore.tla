----------------------------- MODULE BlobStore ------------------------------
(***************************************************************************)
(* The content-addressed blob store of pos-store, used by the processes     *)
(* that have the project open, over a file system that may lose what was    *)
(* not synced when the power fails.                                         *)
(*                                                                          *)
(* A content is its own address.  What programs see (the page cache) and    *)
(* what is on the disk are two copies: a file's bytes reach the disk with   *)
(* sync_all on the file, the name a rename gave it with a sync of the       *)
(* directory, the name of a directory with a sync of its parent, and        *)
(* anything may reach it earlier.                                           *)
(***************************************************************************)
EXTENDS Integers, FiniteSets

CONSTANTS
    StoreProcs,       \* process ids; a restarted process has a new one
    Writers,     \* writer ids: a temp file name each
    ProcOf,      \* ProcOf[w]: the process the writer belongs to
    Contents,    \* blob contents
    Writes,      \* Writes[w]: the contents the writer may be given
    Fanout,      \* Fanout[c]: the fan-out directory of the content's address
    OldDirs,     \* fan-out directories that are on the disk from the start
    MaxKills,    \* bound: processes killed
    MaxLosses,   \* bound: power failures
    NoContent

Dirs == {Fanout[c] : c \in Contents}

ASSUME StoreAssumption ==
    /\ ProcOf \in [Writers -> StoreProcs]
    /\ Writes \in [Writers -> SUBSET Contents]
    /\ OldDirs \subseteq Dirs
    /\ MaxKills \in Nat /\ MaxLosses \in Nat
    /\ NoContent \notin Contents

VARIABLES
    wpc,       \* where each writer is
    data,      \* data[w]: the content it writes
    temps,      \* temp files in blobs/tmp
    seen,      \* published blobs, as programs see them
    onDisk,      \* published blobs whose name is on the disk
    flushed,   \* temp files whose bytes are on the disk
    torn,      \* published blobs whose bytes are not
    dirs,      \* fan-out directories, as programs see them
    diskDirs,  \* fan-out directories whose name is on the disk
    refs,      \* contents the project log refers to
    published, \* history: contents whose writer returned from SyncDir
    open,      \* processes with the store open
    dead,      \* processes that were killed
    losses     \* power failures so far

nameVars == <<seen, onDisk, dirs, diskDirs>>
procVars == <<open, dead, losses, published>>
storeVars == <<wpc, data, temps, flushed, torn, seen, onDisk, dirs, diskDirs, refs, published, open, dead, losses>>

StoreInit ==
    /\ wpc = [w \in Writers |-> "idle"]
    /\ data = [w \in Writers |-> NoContent]
    /\ temps = {}
    /\ seen = {} /\ onDisk = {} /\ flushed = {} /\ torn = {}
    /\ dirs = OldDirs /\ diskDirs = OldDirs
    /\ refs = {} /\ published = {}
    /\ open = {} /\ dead = {}
    /\ losses = 0

Goto(w, pc) == wpc' = [wpc EXCEPT ![w] = pc]

-----------------------------------------------------------------------------
(* open sweeps the temp files of every process id but its own.               *)
Swept(p) == {w \in temps : ProcOf[w] # p}

Open(p) ==
    /\ p \notin open \cup dead
    /\ open' = open \cup {p}
    /\ temps' = temps \ Swept(p)
    /\ UNCHANGED <<wpc, data, flushed, torn, nameVars, refs, published, dead, losses>>

(* writer and append: the temp file, in a buffer and then in the file.       *)
Create(w, c) ==
    /\ ProcOf[w] \in open
    /\ wpc[w] = "idle"
    /\ c \in Writes[w]
    /\ Goto(w, "writing")
    /\ flushed' = flushed \ {w}
    /\ data' = [data EXCEPT ![w] = c]
    /\ temps' = temps \cup {w}
    /\ UNCHANGED <<torn, nameVars, refs, procVars>>

(* finish: sync_all works on the open file, swept or not.                    *)
SyncTemp(w) ==
    /\ wpc[w] = "writing"
    /\ Goto(w, "synced")
    /\ flushed' = flushed \cup {w}
    /\ UNCHANGED <<data, temps, torn, nameVars, refs, procVars>>

(* The address is taken already: the earlier copy wins.                      *)
Dedup(w) ==
    /\ wpc[w] = "synced"
    /\ data[w] \in seen
    /\ Goto(w, "returned")
    /\ temps' = temps \ {w}
    /\ UNCHANGED <<data, flushed, torn, nameVars, refs, procVars>>

MakeDir(w) ==
    /\ wpc[w] = "synced"
    /\ data[w] \notin seen
    /\ Goto(w, "placed")
    /\ dirs' = dirs \cup {Fanout[data[w]]}
    /\ UNCHANGED <<data, temps, flushed, torn, seen, onDisk, diskDirs, refs, procVars>>

(* rename replaces a copy that appeared meanwhile; without the temp file it  *)
(* is an error.                                                              *)
Rename(w) ==
    /\ wpc[w] = "placed"
    /\ w \in temps
    /\ Goto(w, "renamed")
    /\ temps' = temps \ {w}
    /\ seen' = seen \cup {data[w]}
    /\ torn' = IF w \in flushed THEN torn \ {data[w]} ELSE torn \cup {data[w]}
    /\ UNCHANGED <<data, flushed, onDisk, dirs, diskDirs, refs, procVars>>

(* Slip of RenameFails: a missing temp file is taken for a finished write.   *)
RenameFailsUnnoticed(w) ==
    /\ wpc[w] = "placed"
    /\ w \notin temps
    /\ Goto(w, "returned")
    /\ UNCHANGED <<data, temps, flushed, torn, nameVars, refs, procVars>>

RenameFails(w) ==
    /\ wpc[w] = "placed"
    /\ w \notin temps
    /\ Goto(w, "failed")
    /\ UNCHANGED <<data, temps, flushed, torn, nameVars, refs, procVars>>

(* sync_directory on the fan-out directory, not on its parents.              *)
SyncDir(w) ==
    /\ wpc[w] = "renamed"
    /\ Goto(w, "returned")
    /\ onDisk' = onDisk \cup {c \in seen : Fanout[c] = Fanout[data[w]]}
    /\ published' = published \cup {data[w]}
    /\ UNCHANGED <<data, temps, flushed, torn, seen, dirs, diskDirs, refs, open, dead, losses>>

(* The caller refers to the hash in an event, durable when append returns.   *)
Refer(w) ==
    /\ wpc[w] = "returned"
    /\ Goto(w, "idle")
    /\ refs' = refs \cup {data[w]}
    /\ data' = [data EXCEPT ![w] = NoContent]
    /\ UNCHANGED <<temps, flushed, torn, nameVars, procVars>>

(* An unfinished write is dropped, or one that failed is given up.           *)
Drop(w) ==
    /\ wpc[w] \in {"writing", "failed"}
    /\ Goto(w, "idle")
    /\ temps' = temps \ {w}
    /\ data' = [data EXCEPT ![w] = NoContent]
    /\ UNCHANGED <<flushed, torn, nameVars, refs, procVars>>

-----------------------------------------------------------------------------
(* The file system and the power.                                            *)

Writeback ==
    \/ /\ \E c \in seen \ onDisk : onDisk' = onDisk \cup {c}
       /\ UNCHANGED <<wpc, data, temps, flushed, torn, seen, dirs, diskDirs, refs, procVars>>
    \/ /\ \E d \in dirs \ diskDirs : diskDirs' = diskDirs \cup {d}
       /\ UNCHANGED <<wpc, data, temps, flushed, torn, seen, onDisk, dirs, refs, procVars>>

Kill(p) ==
    /\ p \in open
    /\ Cardinality(dead) < MaxKills
    /\ dead' = dead \cup {p}
    /\ open' = open \ {p}
    /\ wpc' = [w \in Writers |-> IF ProcOf[w] = p THEN "idle" ELSE wpc[w]]
    /\ data' = [w \in Writers |-> IF ProcOf[w] = p THEN NoContent ELSE data[w]]
    /\ UNCHANGED <<temps, flushed, torn, nameVars, refs, published, losses>>

PowerLoss ==
    /\ losses < MaxLosses
    /\ losses' = losses + 1
    /\ open' = {}
    /\ dead' = {}
    /\ wpc' = [w \in Writers |-> "idle"]
    /\ data' = [w \in Writers |-> NoContent]
    /\ temps' \in SUBSET temps
    /\ dirs' = diskDirs
    /\ seen' = {c \in onDisk : Fanout[c] \in diskDirs}
    /\ onDisk' = seen'
    /\ UNCHANGED <<flushed, torn, diskDirs, refs, published>>

WriterNext(w) ==
    \/ \E c \in Contents : Create(w, c)
    \/ SyncTemp(w) \/ Dedup(w) \/ MakeDir(w) \/ Rename(w) \/ RenameFails(w)
    \/ SyncDir(w) \/ Refer(w) \/ Drop(w)

StoreNext ==
    \/ \E p \in StoreProcs : Open(p) \/ Kill(p)
    \/ \E w \in Writers : WriterNext(w)
    \/ Writeback
    \/ PowerLoss

StoreSpec == StoreInit /\ [][StoreNext]_storeVars

-----------------------------------------------------------------------------
(* Types of the two copies of the directory tree and of the writers.         *)
StoreTypeOK ==
    /\ wpc \in [Writers -> {"idle", "writing", "synced", "placed", "renamed", "returned", "failed"}]
    /\ data \in [Writers -> Contents \cup {NoContent}]
    /\ \A w \in Writers : data[w] = NoContent <=> wpc[w] = "idle"
    /\ temps \subseteq Writers /\ flushed \subseteq Writers
    /\ onDisk \subseteq seen /\ torn \subseteq seen /\ seen \subseteq Contents
    /\ diskDirs \subseteq dirs /\ dirs \subseteq Dirs
    /\ refs \subseteq Contents /\ published \subseteq Contents
    /\ open \cap dead = {}

(* What open_blob finds at an address is never an interrupted write, even    *)
(* after the power failed.                                                   *)
NeverTorn == torn = {}

(* Every hash the log refers to resolves, however writers of the same        *)
(* content race, processes are killed and others open the store meanwhile.   *)
ReferencedPresent == losses = 0 => refs \subseteq seen

(* Through a power failure too, what a writer itself renamed and synced is   *)
(* still there, if the fan-out directory was on the disk.                    *)
PublishedDurable == \A c \in published : Fanout[c] \in OldDirs => c \in seen

(* The store is sound: typed, what the log refers to is there and whole, and   *)
(* what was published survives a power failure.                              *)
StoreSound == StoreTypeOK /\ ReferencedPresent /\ NeverTorn /\ PublishedDurable
=============================================================================
