---------------------------- MODULE DiskBackend ----------------------------
(***************************************************************************)
(* DiskBackend of crates/device/src/disk_backend.rs: the open BufWriter on *)
(* the host file of a disk image.  A call is the set of its outcomes, each *)
(* a backend and whether the call returned Ok, so that MountedHdd and      *)
(* MountedFloppy can make it in the middle of theirs.  The state that      *)
(* these two have in common is here too.                                   *)
(*                                                                         *)
(* A backend has the field writer (is it open?), the field buffer (the     *)
(* write the BufWriter holds back) and the field file (the host file, for  *)
(* whoever reads it next).  A write maps offsets to what is stored there.  *)
(* write_at seeks, which empties the buffer, so it never holds two writes. *)
(***************************************************************************)
EXTENDS Naturals

CONSTANTS
    Offsets, \* offsets of the host file
    Values,  \* what a sector can hold
    Faults,  \* the calls to the host that may fail
    Fill,    \* what a formatted sector holds, 0xE5 on a hard disk
    Modes    \* bound: the ways to mount the image

ASSUME FaultsAssumption == Faults \subseteq {"write", "seek", "replace", "open", "reopen"}

VARIABLES
    mode,      \* how the image is mounted, "out" when ejected
    image,     \* the image; after an eject, what it last was
    dirty,
    backend,   \* DiskBackend, the file also while nothing is mounted
    synced,    \* history: no change since a flush that returned Ok
    since      \* history: what each sector held since such a flush

HasBackend == mode = "file"
Writable   == mode \notin {"out", "readonly"}

NoWrite == [o \in {} |-> 0]
Writes  == UNION {[where -> Values] : where \in SUBSET Offsets}
Backend == [writer : BOOLEAN, buffer : Writes, file : [Offsets -> Values]]

Put(file, write) == [o \in Offsets |-> IF o \in DOMAIN write THEN write[o] ELSE file[o]]

(* The file after a write that failed in the middle: a part of it.         *)
Torn(file, write) ==
    {[o \in Offsets |-> IF o \in part THEN write[o] ELSE file[o]] : part \in SUBSET DOMAIN write}

Done(b)   == [backend |-> b, ok |-> TRUE]
Failed(b) == [backend |-> b, ok |-> FALSE]

Open(file) == [writer |-> TRUE, buffer |-> NoWrite, file |-> file]
Shut(file) == [writer |-> FALSE, buffer |-> NoWrite, file |-> file]

Drained(b) == [b EXCEPT !.file = Put(b.file, b.buffer), !.buffer = NoWrite]

(* BufWriter::flush; what could not be written stays in the buffer.        *)
Flush(b) ==
    {Done(Drained(b))} \union
    {Failed([b EXCEPT !.file = f]) :
        f \in IF "write" \in Faults /\ b.buffer # NoWrite THEN Torn(b.file, b.buffer) ELSE {}}

(* After the seek a write goes to the buffer, or at once to the file if it *)
(* is as large as the buffer.                                              *)
Accepted(b, write) ==
    {Done([b EXCEPT !.buffer = write]), Done([b EXCEPT !.file = Put(b.file, write)])} \union
    {Failed([b EXCEPT !.file = f]) :
        f \in IF "write" \in Faults THEN Torn(b.file, write) ELSE {}}

(* write_at, without and with a writer. *)
WriteAt(b, write) ==
    IF ~b.writer THEN {Failed(b)}
    ELSE {r \in Flush(b) : ~r.ok} \union
         {Failed(Drained(b)) : fault \in Faults \intersect {"seek"}} \union
         Accepted(Drained(b), write)

(* restore_writer *)
Restored(file) == {Open(file)} \union {Shut(file) : fault \in Faults \intersect {"open"}}

(* The files a writer may leave when its flush failed and it is dropped,   *)
(* which tries once more.                                                  *)
Abandoned(b) == IF "write" \in Faults THEN Torn(b.file, b.buffer) ELSE {}

(* Mutant: the writer is kept instead of flushed and closed.               *)
ReplaceUnflushed(b, new) ==
    {Failed(b) : fault \in Faults \intersect {"replace"}} \union {Done([b EXCEPT !.file = new])}

(* replace_atomic: flush and close the writer, write a temporary file and  *)
(* rename it, open the new file.  "replace" stands for a failure of any    *)
(* call that creates, writes or renames the temporary file.                *)
ReplaceAtomic(b, new) ==
    {Failed(r) : r \in UNION {Restored(f) : f \in Abandoned(b)}} \union
    {Failed(r) : r \in UNION {Restored(Drained(b).file) : fault \in Faults \intersect {"replace"}}}
    \union {Failed(Shut(new)) : fault \in Faults \intersect {"reopen"}} \union {Done(Open(new))}

(* Drop for DiskBackend *)
Dropped(b) == {r.backend.file : r \in Flush(b)}
=============================================================================
