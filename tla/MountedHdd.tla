----------------------------- MODULE MountedHdd -----------------------------
(***************************************************************************)
(* A hard disk image and its host file: MountedHdd of                      *)
(* crates/device/src/disk.rs over DiskBackend, from mount to eject or to   *)
(* the death of the emulator's process, and again.  Offset s of the file   *)
(* holds sector s; the header never changes.                               *)
(***************************************************************************)
EXTENDS DiskBackend, FiniteSets

CONSTANTS
    SectorCount,     \* sectors of the image
    SectorsPerTrack,
    FormatStarts,    \* bound: the sectors a guest formats a track at
    Migrates         \* may the layout be updated at a mount?

Sectors == 0 .. SectorCount - 1

ASSUME HddAssumption ==
    /\ SectorCount \in Nat \ {0} /\ SectorsPerTrack \in Nat \ {0}
    /\ Offsets = Sectors /\ Fill \in Values
    /\ FormatStarts \subseteq Sectors
    /\ Modes \subseteq {"file", "unwritable", "ram", "readonly"}
    /\ Migrates \in BOOLEAN

(* image is HddImage::data.  A migration that could not be written stays   *)
(* in memory by design, which is the mode "detached".                      *)
VARIABLE
    unmarked   \* history: sectors filled by a format that failed part of the way,
               \* which did not mark the image dirty, and not written since

vars == <<mode, image, dirty, backend, synced, since, unmarked>>

Init ==
    /\ mode = "out"
    /\ \E file \in [Sectors -> Values] :
          /\ image = file /\ backend = Shut(file) /\ since = [s \in Sectors |-> {file[s]}]
    /\ dirty = FALSE /\ synced = FALSE /\ unmarked = {}

(* The image becomes what it was with this write. *)
Changes(write) ==
    /\ image' = Put(image, write)
    /\ since' = [s \in Sectors |-> since[s] \union {image'[s]}]

(* A flush returned Ok; it wrote the whole image if the image was dirty.    *)
Settled(ok) ==
    /\ unmarked' = IF ok /\ dirty THEN {} ELSE unmarked
    /\ since' = [s \in Sectors |-> IF ok /\ s \notin unmarked' THEN {image[s]} ELSE since[s]]

-----------------------------------------------------------------------------
(* Mutant: only the write of the dirty image decides.                      *)
FlushDirtyOnly(b, data, isDirty) ==
    UNION {{[backend |-> flushed.backend, dirty |-> (isDirty /\ ~replaced.ok) \/ ~flushed.ok,
             ok |-> replaced.ok] : flushed \in Flush(replaced.backend)} :
           replaced \in IF isDirty THEN ReplaceAtomic(b, data) ELSE {Done(b)}}

(* MountedHdd::flush with a backend: flush_if_dirty, then the buffer.      *)
FlushBackend(b, data, isDirty) ==
    UNION {{[backend |-> flushed.backend, dirty |-> (isDirty /\ ~replaced.ok) \/ ~flushed.ok,
             ok |-> replaced.ok /\ flushed.ok] : flushed \in Flush(replaced.backend)} :
           replaced \in IF isDirty THEN ReplaceAtomic(b, data) ELSE {Done(b)}}

(* MountedHdd::new on the image as loaded from its file. *)
MountAs(how) ==
    /\ mode = "out" /\ how \in Modes
    /\ mode' = how
    /\ image' = backend.file
    /\ backend' = IF how = "file" THEN Open(backend.file) ELSE backend
    /\ dirty' = FALSE /\ synced' = FALSE /\ unmarked' = {}
    /\ since' = [s \in Sectors |-> {backend.file[s]}]

Mount == \E how \in Modes : MountAs(how)

(* mounted_hdd_with_migration of an image whose layout is updated: written *)
(* at once, and kept in memory only if that fails.                         *)
MountMigrated ==
    /\ Migrates /\ mode = "out" /\ unmarked' = {}
    /\ \E how \in Modes, data \in [Sectors -> Values] :
          /\ image' = data
          /\ IF how = "file"
             THEN \E r \in FlushBackend(Open(backend.file), data, TRUE) :
                     /\ dirty' = r.dirty /\ synced' = r.ok
                     /\ mode' = IF r.ok THEN "file" ELSE "detached"
                     /\ \E file \in IF r.ok THEN {r.backend.file} ELSE Dropped(r.backend) :
                           backend' = IF r.ok THEN r.backend ELSE Shut(file)
                     /\ since' = [s \in Sectors |->
                                    {data[s]} \union IF r.ok THEN {} ELSE {backend.file[s]}]
             ELSE /\ mode' = (IF how = "unwritable" THEN "detached" ELSE how)
                  /\ backend' = backend
                  /\ dirty' = FALSE /\ synced' = FALSE
                  /\ since' = [s \in Sectors |-> {data[s], backend.file[s]}]

(* Mutant: the flag follows the last write-through. *)
WriteThroughAnew(write) ==
    IF HasBackend
    THEN \E r \in WriteAt(backend, write) : backend' = r.backend /\ dirty' = ~r.ok
    ELSE dirty' = TRUE /\ UNCHANGED backend

WriteThrough(write) ==
    IF HasBackend
    THEN \E r \in WriteAt(backend, write) : backend' = r.backend /\ dirty' = (dirty \/ ~r.ok)
    ELSE dirty' = TRUE /\ UNCHANGED backend

(* write_sector; a read-only mount and a sector that is not there change   *)
(* nothing.                                                                *)
WriteSector ==
    /\ Writable
    /\ \E s \in Sectors, v \in Values :
          LET write == [o \in {s} |-> v]
          IN  Changes(write) /\ WriteThrough(write) /\ unmarked' = unmarked \ {s}
    /\ synced' = FALSE /\ UNCHANGED mode

Track(start) == start .. start + SectorsPerTrack - 1

(* format_track. The image is filled sector by sector up to the first one  *)
(* that is not there; only a whole track is written through.               *)
FormatTrack ==
    /\ Writable
    /\ \E start \in FormatStarts :
          LET filled == [o \in Track(start) \intersect Sectors |-> Fill]
          IN  /\ Changes(filled)
              /\ IF Track(start) \subseteq Sectors
                 THEN WriteThrough(filled) /\ unmarked' = unmarked \ DOMAIN filled
                 ELSE unmarked' = unmarked \union DOMAIN filled /\ UNCHANGED <<backend, dirty>>
    /\ synced' = FALSE /\ UNCHANGED mode

(* MountedHdd::flush *)
FlushImage ==
    /\ mode # "out"
    /\ IF HasBackend
       THEN \E r \in FlushBackend(backend, image, dirty) :
               /\ backend' = r.backend /\ dirty' = r.dirty /\ synced' = r.ok
               /\ Settled(r.ok)
       ELSE /\ synced' = (mode = "unwritable" /\ ~dirty)
            /\ UNCHANGED <<backend, dirty, since, unmarked>>
    /\ UNCHANGED <<mode, image>>

(* MountedHdd::eject: a flush, then the mount is dropped. *)
Eject ==
    /\ mode # "out" /\ mode' = "out"
    /\ IF HasBackend
       THEN \E r \in FlushBackend(backend, image, dirty) :
               /\ synced' = r.ok
               /\ \E file \in Dropped(r.backend) : backend' = Shut(file)
               /\ Settled(r.ok)
       ELSE synced' = FALSE /\ UNCHANGED <<backend, since, unmarked>>
    /\ dirty' = FALSE /\ UNCHANGED image

(* The process dies: nothing is flushed. *)
Die ==
    /\ mode # "out" /\ mode' = "out"
    /\ backend' = Shut(backend.file)
    /\ dirty' = FALSE /\ synced' = FALSE
    /\ UNCHANGED <<image, since, unmarked>>

Next == Mount \/ MountMigrated \/ WriteSector \/ FormatTrack \/ FlushImage \/ Eject \/ Die

Spec == Init /\ [][Next]_vars

-----------------------------------------------------------------------------
TypeOK ==
    /\ mode \in {"out", "file", "detached", "unwritable", "ram", "readonly"}
    /\ image \in [Sectors -> Values]
    /\ dirty \in BOOLEAN /\ synced \in BOOLEAN
    /\ backend \in Backend
    /\ since \in [Sectors -> SUBSET Values] /\ unmarked \subseteq Sectors

(* Whatever failed and whenever the process died, a sector of the file     *)
(* holds a value the guest gave it since the last flush that returned Ok,  *)
(* or the value of that flush; never an older one or another sector's.     *)
FileIsRecent == \A s \in Sectors : backend.file[s] \in since[s]

(* flush: "Returns the error of a write that failed."  After one that      *)
(* returned Ok the file of the mount is the image, but for sectors a       *)
(* failed format filled without marking the image dirty.                   *)
FlushIsHonest == synced => \A s \in Sectors \ unmarked : backend.file[s] = image[s]

(* A clean image is in its file but for the write still in the buffer and  *)
(* the sectors a failed format filled: dirty is never lost, whatever was   *)
(* written, failed or flushed after the write that set it.                 *)
CleanIsWritten ==
    HasBackend /\ ~dirty =>
        \A s \in Sectors \ unmarked : Put(backend.file, backend.buffer)[s] = image[s]

(* is_dirty: "Returns whether the image has unwritten changes."            *)
DirtyTellsAll == HasBackend /\ ~dirty => Put(backend.file, backend.buffer) = image

(* write_at's "synchronous write-through": what write_at accepted is in    *)
(* the file when it returns.                                               *)
WriteThroughIsSynchronous == HasBackend /\ ~dirty => backend.file = image
=============================================================================
