--------------------------- MODULE MountedFloppy ---------------------------
(***************************************************************************)
(* A floppy image and its host file: MountedFloppy of                      *)
(* crates/device/src/floppy.rs over DiskBackend.  Other than a hard disk,  *)
(* a floppy can be formatted into a shape that moves its sectors in the    *)
(* file, so the image keeps the offset of every sector and is parsed again *)
(* when the file was replaced.                                             *)
(*                                                                         *)
(* The shape stands for the track table of a D88 image: it is kept at      *)
(* offset 0 and says where the sectors are.  A sector has a second place   *)
(* in the file if the format stores retry copies (NFD).                    *)
(***************************************************************************)
EXTENDS DiskBackend, FiniteSets

CONSTANTS
    FloppySectors, \* numbers from 1; one to a track
    Shapes,        \* ways to format a track
    Copies,        \* retry copies of a sector
    Representable, \* the shapes the format of the file can hold
    None

ASSUME FloppyAssumption ==
    /\ FloppySectors \subseteq Nat \ {0} /\ IsFiniteSet(FloppySectors)
    /\ Shapes \subseteq Nat /\ Representable \subseteq Shapes \intersect Values
    /\ Representable # {} /\ Copies \in {0, 1} /\ {0, Fill} \subseteq Values
    /\ Modes \subseteq {"file", "unwritable", "ram", "readonly"}
    /\ None \notin Offsets

Location(shape, s) == 1 + shape + (s - 1) * (1 + Copies)
Places(shape, s)   == Location(shape, s) .. Location(shape, s) + Copies

ASSUME LayoutAssumption ==
    /\ 0 \in Offsets
    /\ \A shape \in Shapes, s \in FloppySectors : Places(shape, s) \subseteq Offsets

(* image is FloppyImage: its shape, and the data and source_offset of      *)
(* every sector.                                                           *)
VARIABLE
    moved      \* history: the file was replaced, but could not be opened again
               \* and the image was not parsed again since

floppyVars == <<mode, image, dirty, backend, synced, since, moved>>

(* A sector with its retry copies, which every write refreshes. *)
Sector    == [0 .. Copies -> Values]
Filled(v) == [copy \in 0 .. Copies |-> v]
Stored(sector) == {sector[copy] : copy \in 0 .. Copies}

(* FloppyImage::to_bytes *)
ToBytes(data, shape) ==
    [o \in Offsets |->
        IF o = 0 THEN shape
        ELSE IF \E s \in FloppySectors : o \in Places(shape, s)
             THEN LET s == CHOOSE s \in FloppySectors : o \in Places(shape, s)
                  IN  data[s][o - Location(shape, s)]
             ELSE 0]

(* load_floppy_image *)
Parsed(file) ==
    [shape |-> file[0],
     data  |-> [s \in FloppySectors |-> [copy \in 0 .. Copies |-> file[Location(file[0], s) + copy]]],
     at    |-> [s \in FloppySectors |-> Location(file[0], s)]]

FloppyInit ==
    /\ mode = "out"
    /\ \E data \in [FloppySectors -> Sector], shape \in Representable :
          /\ image = Parsed(ToBytes(data, shape))
          /\ backend = Shut(ToBytes(data, shape))
          /\ since = [s \in FloppySectors |-> Stored(data[s])]
    /\ dirty = FALSE /\ synced = FALSE /\ moved = FALSE

Held(s, v) == since' = [since EXCEPT ![s] = @ \union {v}]

-----------------------------------------------------------------------------
(* MountedFloppy::new on the image as loaded from its file. *)
MountFloppy ==
    /\ mode = "out" /\ mode' \in Modes
    /\ image' = Parsed(backend.file)
    /\ backend' = IF mode' = "file" THEN Open(backend.file) ELSE backend
    /\ dirty' = FALSE /\ synced' = FALSE /\ moved' = FALSE
    /\ since' = [s \in FloppySectors |-> Stored(image'.data[s])]

(* The sector's place in the file, then its retry copy.  A failure of the  *)
(* first leaves the second alone.                                          *)
WriteBack(b, at, v) ==
    LET first == WriteAt(b, [o \in {at} |-> v])
    IN  IF Copies = 0 THEN first
        ELSE {r \in first : ~r.ok} \union
             UNION {WriteAt(r.backend, [o \in {at + 1} |-> v]) : r \in {q \in first : q.ok}}

WriteThroughCopies(at, v) ==
    IF HasBackend /\ at # None
    THEN \E r \in WriteBack(backend, at, v) : backend' = r.backend /\ dirty' = (dirty \/ ~r.ok)
    ELSE dirty' = TRUE /\ UNCHANGED backend

(* write_sector_data *)
WriteSectorData ==
    /\ Writable
    /\ \E s \in FloppySectors, v \in Values :
          /\ image' = [image EXCEPT !.data[s] = Filled(v)]
          /\ Held(s, v)
          /\ WriteThroughCopies(image.at[s], v)
    /\ synced' = FALSE /\ UNCHANGED <<mode, moved>>

Lossless(shape) == shape \in Representable

(* Mutant: the image is not parsed again. *)
ReplaceUnparsed(b, old) ==
    {[backend |-> r.backend, image |-> old, ok |-> r.ok, moved |-> FALSE] :
        r \in ReplaceAtomic(b, ToBytes(old.data, old.shape))}

(* The re-emission of the image, with the reparse on success.              *)
Replace(b, old) ==
    LET bytes == ToBytes(old.data, old.shape)
    IN  {[backend |-> r.backend, image |-> IF r.ok THEN Parsed(bytes) ELSE old, ok |-> r.ok,
          moved |-> ~r.ok /\ (moved \/ r.backend = Shut(bytes))] :
            r \in ReplaceAtomic(b, bytes)}

Formatted(formatted) ==
    IF HasBackend /\ Lossless(formatted.shape)
    THEN \E r \in Replace(backend, formatted) :
            backend' = r.backend /\ image' = r.image /\ dirty' = ~r.ok /\ moved' = r.moved
    ELSE image' = formatted /\ dirty' = TRUE /\ UNCHANGED <<backend, moved>>

(* format_track: the sectors of the track are new ones, without a place in *)
(* the file, and the file is replaced at once if there is one.             *)
FormatFloppyTrack ==
    /\ Writable
    /\ \E s \in FloppySectors, shape \in Shapes :
          /\ Formatted([data  |-> [image.data EXCEPT ![s] = Filled(Fill)],
                        at    |-> [image.at EXCEPT ![s] = None],
                        shape |-> shape])
          /\ Held(s, Fill)
    /\ synced' = FALSE /\ UNCHANGED mode

Kept(ok) == [backend |-> backend, image |-> image, ok |-> ok, moved |-> moved]

(* Mutant: the error of the re-emission hides behind the buffer's success. *)
FlushBufferedOnly ==
    UNION {{[backend |-> flushed.backend, image |-> replaced.image, ok |-> flushed.ok,
             moved |-> replaced.moved,
             dirty |-> (dirty /\ ~replaced.ok) \/ ~flushed.ok] : flushed \in Flush(replaced.backend)} :
           replaced \in
             IF ~dirty THEN {Kept(TRUE)}
             ELSE IF Lossless(image.shape) THEN Replace(backend, image)
             ELSE {Kept(FALSE)}}

(* flush with a backend: flush_if_dirty, then the buffer.                  *)
FlushFloppyBackend ==
    UNION {{[backend |-> flushed.backend, image |-> replaced.image,
             ok |-> replaced.ok /\ flushed.ok, moved |-> replaced.moved,
             dirty |-> (dirty /\ ~replaced.ok) \/ ~flushed.ok] : flushed \in Flush(replaced.backend)} :
           replaced \in
             IF ~dirty THEN {Kept(TRUE)}
             ELSE IF Lossless(image.shape) THEN Replace(backend, image)
             ELSE {Kept(FALSE)}}

(* What a flush of the mount leaves, with the backend it ends with.        *)
Flushed(r) ==
    /\ image' = r.image /\ synced' = r.ok /\ moved' = r.moved
    /\ since' = [s \in FloppySectors |-> IF r.ok THEN Stored(image.data[s]) ELSE since[s]]

FlushFloppy ==
    /\ mode # "out"
    /\ IF HasBackend
       THEN \E r \in FlushFloppyBackend : Flushed(r) /\ backend' = r.backend /\ dirty' = r.dirty
       ELSE /\ synced' = (mode \in {"unwritable", "readonly"} /\ ~dirty)
            /\ UNCHANGED <<image, backend, dirty, since, moved>>
    /\ UNCHANGED mode

(* MountedFloppy::eject: a flush, then the mount is dropped. *)
EjectFloppy ==
    /\ mode # "out" /\ mode' = "out"
    /\ IF HasBackend
       THEN \E r \in FlushFloppyBackend :
               /\ Flushed(r)
               /\ \E file \in Dropped(r.backend) : backend' = Shut(file)
       ELSE synced' = FALSE /\ UNCHANGED <<image, backend, since, moved>>
    /\ dirty' = FALSE

(* The process dies: nothing is flushed. *)
DieWithFloppy ==
    /\ mode # "out" /\ mode' = "out"
    /\ backend' = Shut(backend.file)
    /\ dirty' = FALSE /\ synced' = FALSE
    /\ UNCHANGED <<image, since, moved>>

FloppyNext == MountFloppy \/ WriteSectorData \/ FormatFloppyTrack \/ FlushFloppy \/ EjectFloppy \/ DieWithFloppy

FloppySpec == FloppyInit /\ [][FloppyNext]_floppyVars

-----------------------------------------------------------------------------
FloppyTypeOK ==
    /\ mode \in {"out", "file", "unwritable", "ram", "readonly"}
    /\ image \in [shape : Shapes, data : [FloppySectors -> Sector], at : [FloppySectors -> Offsets \union {None}]]
    /\ dirty \in BOOLEAN /\ synced \in BOOLEAN
    /\ backend \in Backend
    /\ since \in [FloppySectors -> SUBSET Values] /\ moved \in BOOLEAN

(* format_track reparses "so per-sector source offsets stay valid for      *)
(* subsequent write-through": a writer is never open on a file in which a  *)
(* sector is elsewhere than the image has it.                              *)
OffsetsStayValid ==
    backend.writer => \A s \in FloppySectors : image.at[s] \in {None, Location(backend.file[0], s)}

(* Whatever failed and whenever the process died, every copy of a sector   *)
(* in the file is a value of this sector since the last flush that         *)
(* returned Ok, or the value of that flush, and a writer that is open      *)
(* knows where the sectors are; unless the file was replaced under an      *)
(* image that was not parsed again.                                        *)
FloppyFileIsRecent ==
    ~moved =>
        /\ OffsetsStayValid
        /\ \A s \in FloppySectors : \A o \in Places(backend.file[0], s) : backend.file[o] \in since[s]

(* flush: "Returns the error of a write that failed."  After one that      *)
(* returned Ok the file of the mount holds every sector, and its shape.    *)
FloppyFlushIsHonest ==
    synced => LET file == Parsed(backend.file)
              IN  file.shape = image.shape /\ file.data = image.data
=============================================================================
