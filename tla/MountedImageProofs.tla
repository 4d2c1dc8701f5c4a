------------------------- MODULE MountedImageProofs -------------------------
(***************************************************************************)
(* The host file of a mounted image, of a hard disk (MountedHdd) or of a   *)
(* floppy (MountedFloppy), is recent, a flush that returned Ok is honest   *)
(* and a clean hard disk image is written, for any sectors, values, modes  *)
(* and faults.                                                             *)
(*                                                                         *)
(* The first lemmas say what a call of DiskBackend may leave: every sector *)
(* of the file is what it was, what the buffer held or what was written,   *)
(* and after Ok the file with its buffer is just as asked.  Both halves    *)
(* use them.  DiskInv adds to the three properties of the hard disk that   *)
(* the buffer and the image hold recent values, and that there is no       *)
(* buffer without a writer.                                                *)
(*                                                                         *)
(* FloppyInv needs more, since a format moves sectors: the buffer has no   *)
(* byte of the track table, an offset the image keeps is that of the       *)
(* file's shape unless the file was replaced unseen, an image whose file   *)
(* was replaced unseen is dirty, and a clean one is in the file with its   *)
(* buffer.                                                                 *)
(***************************************************************************)
EXTENDS MountedHdd, MountedFloppy, TLAPS

Files == [Offsets -> Values]

\* No buffer without a writer.
IsBackend(b) == b \in Backend /\ (~b.writer => b.buffer = NoWrite)

\* What offset o of the file may hold after a call that tried to write the buffer of b.
Buffered(b, o) == {b.file[o]} \union (IF o \in DOMAIN b.buffer THEN {b.buffer[o]} ELSE {})

LEMMA WriteFacts ==
    /\ \A write \in Writes : DOMAIN write \subseteq Offsets /\ \A o \in DOMAIN write : write[o] \in Values
    /\ \A where \in SUBSET Offsets : \A v \in Values :
          [o \in where |-> v] \in Writes /\ DOMAIN [o \in where |-> v] = where
    /\ NoWrite \in Writes /\ \A o : o \notin DOMAIN NoWrite
<1>1. \A write \in Writes : DOMAIN write \subseteq Offsets /\ \A o \in DOMAIN write : write[o] \in Values
  BY DEF Writes
<1>2. ASSUME NEW where \in SUBSET Offsets, NEW v \in Values
      PROVE  [o \in where |-> v] \in Writes /\ DOMAIN [o \in where |-> v] = where
  <2>1. [o \in where |-> v] \in [where -> Values]
    OBVIOUS
  <2> QED BY <2>1 DEF Writes
<1>3. NoWrite \in Writes
  <2>1. NoWrite \in [{} -> Values] /\ {} \in SUBSET Offsets
    BY DEF NoWrite
  <2> QED BY <2>1 DEF Writes
<1> QED BY <1>1, <1>2, <1>3 DEF NoWrite

LEMMA PutFacts ==
    ASSUME NEW file \in Files, NEW write \in Writes
    PROVE  /\ Put(file, write) \in Files
           /\ \A o \in Offsets : Put(file, write)[o] = IF o \in DOMAIN write THEN write[o] ELSE file[o]
           /\ Put(file, NoWrite) = file
<1>1. \A o \in Offsets : Put(file, write)[o] = IF o \in DOMAIN write THEN write[o] ELSE file[o]
  BY DEF Put
<1>2. Put(file, write) \in Files
  BY WriteFacts DEF Put, Files
<1>3. Put(file, NoWrite) = [o \in Offsets |-> file[o]]
  BY WriteFacts DEF Put
<1> QED BY <1>1, <1>2, <1>3 DEF Files

LEMMA TornFacts ==
    ASSUME NEW file \in Files, NEW write \in Writes, NEW f \in Torn(file, write)
    PROVE  /\ f \in Files
           /\ \A o \in Offsets : f[o] = file[o] \/ (o \in DOMAIN write /\ f[o] = write[o])
<1>1. PICK part \in SUBSET DOMAIN write : f = [o \in Offsets |-> IF o \in part THEN write[o] ELSE file[o]]
  BY DEF Torn
<1> QED BY <1>1, WriteFacts DEF Files

LEMMA BackendFacts ==
    ASSUME NEW b, IsBackend(b)
    PROVE  /\ b.writer \in BOOLEAN /\ b.buffer \in Writes /\ b.file \in Files
           /\ \A o \in Offsets : b.file[o] \in Buffered(b, o)
  BY DEF IsBackend, Backend, Files, Buffered

LEMMA WithFile ==
    ASSUME NEW b, IsBackend(b), NEW f \in Files
    PROVE  /\ IsBackend([b EXCEPT !.file = f])
           /\ [b EXCEPT !.file = f].file = f
           /\ [b EXCEPT !.file = f].buffer = b.buffer
           /\ [b EXCEPT !.file = f].writer = b.writer
  BY DEF IsBackend, Backend, Files

LEMMA WithBuffer ==
    ASSUME NEW b, IsBackend(b), b.writer, NEW w \in Writes
    PROVE  /\ IsBackend([b EXCEPT !.buffer = w])
           /\ [b EXCEPT !.buffer = w].file = b.file
           /\ [b EXCEPT !.buffer = w].buffer = w
  BY DEF IsBackend, Backend, Files

LEMMA DrainedFacts ==
    ASSUME NEW b, IsBackend(b)
    PROVE  /\ IsBackend(Drained(b))
           /\ Drained(b).writer = b.writer /\ Drained(b).buffer = NoWrite
           /\ Drained(b).file = Put(b.file, b.buffer) /\ Put(b.file, b.buffer) \in Files
           /\ \A o \in Offsets : Put(b.file, b.buffer)[o] \in Buffered(b, o)
<1>1. Put(b.file, b.buffer) \in Files
      /\ \A o \in Offsets : Put(b.file, b.buffer)[o] \in Buffered(b, o)
  BY PutFacts, BackendFacts DEF Buffered
<1>2. /\ Drained(b) \in Backend /\ Drained(b).writer = b.writer /\ Drained(b).buffer = NoWrite
      /\ Drained(b).file = Put(b.file, b.buffer)
  BY <1>1, WriteFacts DEF Drained, IsBackend, Backend, Files
<1> QED BY <1>1, <1>2 DEF IsBackend

(* BufWriter::flush: all of the buffer, or a part of it and nothing lost.   *)
LEMMA FlushFacts ==
    ASSUME NEW b, IsBackend(b), NEW r \in Flush(b)
    PROVE  /\ IsBackend(r.backend) /\ r.ok \in BOOLEAN /\ r.backend.writer = b.writer
           /\ r.ok => r.backend.buffer = NoWrite /\ r.backend.file = Put(b.file, b.buffer)
           /\ ~r.ok => r.backend.buffer = b.buffer
           /\ b.buffer = NoWrite => r.ok /\ r.backend.file = b.file
           /\ \A o \in Offsets : r.backend.file[o] \in Buffered(b, o)
<1>1. CASE r = Done(Drained(b))
  <2>1. r.ok = TRUE /\ r.backend = Drained(b)
    BY <1>1 DEF Done
  <2>2. b.buffer = NoWrite => Put(b.file, b.buffer) = b.file
    BY PutFacts, BackendFacts
  <2> QED BY <2>1, <2>2, DrainedFacts
<1>2. CASE r # Done(Drained(b))
  <2>1. PICK f \in Torn(b.file, b.buffer) : r = Failed([b EXCEPT !.file = f]) /\ b.buffer # NoWrite
    BY <1>2 DEF Flush
  <2>2. f \in Files /\ \A o \in Offsets : f[o] \in Buffered(b, o)
    BY TornFacts, BackendFacts DEF Buffered
  <2>3. r.ok = FALSE /\ r.backend = [b EXCEPT !.file = f]
    BY <2>1 DEF Failed
  <2>4. /\ IsBackend(r.backend) /\ r.backend.writer = b.writer
        /\ r.backend.buffer = b.buffer /\ r.backend.file = f
    BY <2>2, <2>3, WithFile
  <2> QED BY <2>1, <2>2, <2>3, <2>4
<1> QED BY <1>1, <1>2

(* write_at: after Ok the file and its buffer hold the write on top of what *)
(* they held.                                                               *)
LEMMA WriteAtFacts ==
    ASSUME NEW b, IsBackend(b), NEW write \in Writes, NEW r \in WriteAt(b, write)
    PROVE  /\ IsBackend(r.backend) /\ r.ok \in BOOLEAN
           /\ r.backend.buffer \in {b.buffer, NoWrite, write}
           /\ r.ok => \A o \in Offsets :
                 Put(r.backend.file, r.backend.buffer)[o]
                    = IF o \in DOMAIN write THEN write[o] ELSE Put(b.file, b.buffer)[o]
           /\ \A o \in Offsets :
                 r.backend.file[o] \in Buffered(b, o) \union (IF o \in DOMAIN write THEN {write[o]} ELSE {})
<1> DEFINE d == Drained(b)
<1>0. /\ IsBackend(d) /\ d.writer = b.writer /\ d.buffer = NoWrite /\ d.file = Put(b.file, b.buffer)
      /\ d.file \in Files /\ NoWrite \in Writes
      /\ \A o \in Offsets : d.file[o] \in Buffered(b, o)
  BY DrainedFacts, WriteFacts
<1>1. CASE ~b.writer
  <2>1. r = Failed(b)
    BY <1>1 DEF WriteAt
  <2> QED BY <2>1, BackendFacts DEF Failed
<1>2. CASE r \in Flush(b) /\ ~r.ok
  BY <1>2, FlushFacts
<1>3. CASE r = Failed(d)
  BY <1>0, <1>3 DEF Failed
<1>4. CASE b.writer /\ r = Done([d EXCEPT !.buffer = write])
  <2> HIDE DEF d
  <2>1. r.ok = TRUE /\ r.backend = [d EXCEPT !.buffer = write]
    BY <1>4 DEF Done
  <2>0. IsBackend(d) /\ d.writer
    BY <1>0, <1>4
  <2>2. IsBackend(r.backend) /\ r.backend.buffer = write /\ r.backend.file = d.file
    BY <2>0, <2>1, WithBuffer
  <2>3. \A o \in Offsets : Put(d.file, write)[o] = IF o \in DOMAIN write THEN write[o] ELSE d.file[o]
    BY <1>0, PutFacts
  <2> QED BY <1>0, <2>1, <2>2, <2>3
<1>5. CASE r = Done([d EXCEPT !.file = Put(d.file, write)])
  <2> HIDE DEF d
  <2>1. /\ Put(d.file, write) \in Files
        /\ \A o \in Offsets : Put(d.file, write)[o] = IF o \in DOMAIN write THEN write[o] ELSE d.file[o]
    BY <1>0, PutFacts
  <2>2. r.ok = TRUE /\ r.backend = [d EXCEPT !.file = Put(d.file, write)]
    BY <1>5 DEF Done
  <2>3. IsBackend(r.backend) /\ r.backend.buffer = NoWrite /\ r.backend.file = Put(d.file, write)
    BY <1>0, <2>1, <2>2, WithFile
  <2>4. Put(Put(d.file, write), NoWrite) = Put(d.file, write)
    BY <1>0, <2>1, PutFacts
  <2>5. \A o \in Offsets : Put(r.backend.file, r.backend.buffer)[o]
            = IF o \in DOMAIN write THEN write[o] ELSE Put(b.file, b.buffer)[o]
    BY <1>0, <2>1, <2>3, <2>4
  <2>6. \A o \in Offsets :
           r.backend.file[o] \in Buffered(b, o) \union (IF o \in DOMAIN write THEN {write[o]} ELSE {})
    BY <1>0, <2>1, <2>3
  <2> QED BY <2>2, <2>3, <2>5, <2>6
<1>6. CASE \E f \in Torn(d.file, write) : r = Failed([d EXCEPT !.file = f])
  <2> HIDE DEF d
  <2>1. PICK f \in Torn(d.file, write) : r = Failed([d EXCEPT !.file = f])
    BY <1>6
  <2>2. /\ f \in Files
        /\ \A o \in Offsets : f[o] = d.file[o] \/ (o \in DOMAIN write /\ f[o] = write[o])
    BY <1>0, TornFacts
  <2>3. r.ok = FALSE /\ r.backend = [d EXCEPT !.file = f]
    BY <2>1 DEF Failed
  <2>4. IsBackend(r.backend) /\ r.backend.buffer = NoWrite /\ r.backend.file = f
    BY <1>0, <2>2, <2>3, WithFile
  <2> QED BY <1>0, <2>2, <2>3, <2>4
<1> QED BY <1>1, <1>2, <1>3, <1>4, <1>5, <1>6 DEF WriteAt, Accepted

LEMMA OpenFacts ==
    ASSUME NEW f \in Files
    PROVE  /\ IsBackend(Open(f)) /\ Open(f).buffer = NoWrite /\ Open(f).file = f
           /\ IsBackend(Shut(f)) /\ Shut(f).buffer = NoWrite /\ Shut(f).file = f
  BY WriteFacts DEF Open, Shut, IsBackend, Backend, Files

(* Drop: one more try to write the buffer. *)
LEMMA DroppedFacts ==
    ASSUME NEW b, IsBackend(b), NEW f \in Dropped(b)
    PROVE  /\ f \in Files
           /\ b.buffer = NoWrite => f = b.file
           /\ \A o \in Offsets : f[o] \in Buffered(b, o)
<1>1. PICK r \in Flush(b) : f = r.backend.file
  BY DEF Dropped
<1>2. IsBackend(r.backend)
  BY FlushFacts
<1>3. r.backend.file \in Files
  BY <1>2, BackendFacts
<1> QED BY <1>1, <1>3, FlushFacts

LEMMA RestoredFacts ==
    ASSUME NEW f \in Files, NEW r, NEW back \in Restored(f), r = Failed(back)
    PROVE  /\ IsBackend(r.backend) /\ r.ok = FALSE
           /\ r.backend.buffer = NoWrite /\ r.backend.file = f
<1>1. back = Open(f) \/ back = Shut(f)
  BY DEF Restored
<1> QED BY <1>1, OpenFacts DEF Failed

(* replace_atomic: no buffer is left, and after Ok the file is the new one. *)
LEMMA ReplaceFacts ==
    ASSUME NEW b, IsBackend(b), NEW new \in Files, NEW r \in ReplaceAtomic(b, new)
    PROVE  /\ IsBackend(r.backend) /\ r.ok \in BOOLEAN
           /\ r.backend.buffer = NoWrite
           /\ r.ok => r.backend.file = new
           /\ \A o \in Offsets : r.backend.file[o] \in Buffered(b, o) \union {new[o]}
           /\ ~r.ok /\ r.backend # Shut(new) => \A o \in Offsets : r.backend.file[o] \in Buffered(b, o)
<1>1. CASE \E f \in Abandoned(b) : \E back \in Restored(f) : r = Failed(back)
  <2>1. PICK f \in Abandoned(b) : \E back \in Restored(f) : r = Failed(back)
    BY <1>1
  <2>2. f \in Files /\ \A o \in Offsets : f[o] \in Buffered(b, o)
    BY TornFacts, BackendFacts DEF Abandoned, Buffered
  <2>3. PICK back \in Restored(f) : r = Failed(back)
    BY <2>1
  <2>4. r.backend.file = f /\ IsBackend(r.backend) /\ r.ok = FALSE /\ r.backend.buffer = NoWrite
    BY <2>2, <2>3, RestoredFacts
  <2> QED BY <2>2, <2>4
<1>2. CASE \E back \in Restored(Drained(b).file) : r = Failed(back)
  <2>1. PICK back \in Restored(Drained(b).file) : r = Failed(back)
    BY <1>2
  <2>2. Drained(b).file \in Files /\ \A o \in Offsets : Drained(b).file[o] \in Buffered(b, o)
    BY DrainedFacts
  <2>3. r.backend.file = Drained(b).file /\ IsBackend(r.backend) /\ r.ok = FALSE /\ r.backend.buffer = NoWrite
    BY <2>1, <2>2, RestoredFacts
  <2> QED BY <2>2, <2>3
<1>3. CASE r = Failed(Shut(new)) \/ r = Done(Open(new))
  <2>1. /\ IsBackend(Open(new)) /\ Open(new).buffer = NoWrite /\ Open(new).file = new
        /\ IsBackend(Shut(new)) /\ Shut(new).buffer = NoWrite /\ Shut(new).file = new
    BY OpenFacts
  <2>2. (r.backend = Shut(new) /\ r.ok = FALSE) \/ (r.backend = Open(new) /\ r.ok = TRUE)
    BY <1>3 DEF Failed, Done
  <2> QED BY <2>1, <2>2
<1> QED BY <1>1, <1>2, <1>3 DEF ReplaceAtomic

(* MountedHdd::flush: dirty is what the caller is told, and Ok means that   *)
(* the file is the image as it was given, or what the mount wrote to it.    *)
LEMMA FlushBackendFacts ==
    ASSUME NEW b, IsBackend(b), NEW data \in Files, NEW isDirty \in BOOLEAN,
           NEW r \in FlushBackend(b, data, isDirty)
    PROVE  /\ IsBackend(r.backend) /\ r.ok \in BOOLEAN /\ r.dirty = ~r.ok
           /\ r.backend.buffer \in {NoWrite, b.buffer}
           /\ r.ok => r.backend.buffer = NoWrite
           /\ r.ok /\ isDirty => r.backend.file = data
           /\ r.ok /\ ~isDirty => r.backend.file = Put(b.file, b.buffer)
           /\ \A o \in Offsets : r.backend.file[o] \in Buffered(b, o) \union {data[o]}
<1>1. PICK replaced \in (IF isDirty THEN ReplaceAtomic(b, data) ELSE {Done(b)}) :
         \E flushed \in Flush(replaced.backend) :
            r = [backend |-> flushed.backend, dirty |-> (isDirty /\ ~replaced.ok) \/ ~flushed.ok,
                 ok |-> replaced.ok /\ flushed.ok]
  BY DEF FlushBackend
<1>2. PICK flushed \in Flush(replaced.backend) :
         r = [backend |-> flushed.backend, dirty |-> (isDirty /\ ~replaced.ok) \/ ~flushed.ok,
              ok |-> replaced.ok /\ flushed.ok]
  BY <1>1
<1>3. /\ r.backend = flushed.backend /\ r.dirty = ((isDirty /\ ~replaced.ok) \/ ~flushed.ok)
      /\ r.ok = (replaced.ok /\ flushed.ok)
  BY <1>2
<1>4. CASE isDirty
  <2>1. replaced \in ReplaceAtomic(b, data)
    BY <1>1, <1>4
  <2>2. /\ IsBackend(replaced.backend) /\ replaced.ok \in BOOLEAN /\ replaced.backend.buffer = NoWrite
        /\ replaced.ok => replaced.backend.file = data
        /\ \A o \in Offsets : replaced.backend.file[o] \in Buffered(b, o) \union {data[o]}
    BY <2>1, ReplaceFacts
  <2>3. /\ IsBackend(flushed.backend) /\ flushed.ok = TRUE
        /\ flushed.backend.buffer = NoWrite /\ flushed.backend.file = replaced.backend.file
    BY <2>2, FlushFacts
  <2> QED BY <1>3, <1>4, <2>2, <2>3
<1>5. CASE ~isDirty
  <2>1. replaced.backend = b /\ replaced.ok = TRUE
    BY <1>1, <1>5 DEF Done
  <2>2. flushed \in Flush(b)
    BY <1>2, <2>1
  <2>3. /\ IsBackend(flushed.backend) /\ flushed.ok \in BOOLEAN
        /\ flushed.ok => flushed.backend.buffer = NoWrite /\ flushed.backend.file = Put(b.file, b.buffer)
        /\ ~flushed.ok => flushed.backend.buffer = b.buffer
        /\ \A o \in Offsets : flushed.backend.file[o] \in Buffered(b, o)
    BY <2>2, FlushFacts
  <2> QED BY <1>3, <1>5, <2>1, <2>3
<1> QED BY <1>4, <1>5

-----------------------------------------------------------------------------
Types ==
    /\ mode \in {"out", "file", "detached", "unwritable", "ram", "readonly"}
    /\ image \in Files /\ since \in [Offsets -> SUBSET Values] /\ unmarked \subseteq Offsets
    /\ dirty \in BOOLEAN /\ synced \in BOOLEAN
    /\ IsBackend(backend)

\* Only the mounted file has a write in its buffer.
NoneBuffered == mode # "file" => backend.buffer = NoWrite

\* All that can still reach the file is recent.
AllRecent ==
    /\ \A s \in Offsets : backend.file[s] \in since[s] /\ image[s] \in since[s]
    /\ \A s \in DOMAIN backend.buffer : backend.buffer[s] \in since[s]

\* flush returns Ok for a clean image whose file could not be opened for writing.
CleanInFile ==
    mode \in {"file", "unwritable"} /\ ~dirty =>
        \A s \in Offsets \ unmarked : Put(backend.file, backend.buffer)[s] = image[s]

DiskInv == Types /\ NoneBuffered /\ AllRecent /\ CleanInFile /\ FlushIsHonest

\* What a call leaves is recent if what it started from was.
LEMMA RecentFacts ==
    ASSUME Types, AllRecent
    PROVE  \A s \in Offsets : Buffered(backend, s) \subseteq since[s]
  BY DEF Types, AllRecent, Buffered

LEMMA SinceFacts ==
    ASSUME NEW f \in Files, NEW g \in Files
    PROVE  /\ [s \in Offsets |-> {f[s]}] \in [Offsets -> SUBSET Values]
           /\ [s \in Offsets |-> {f[s], g[s]}] \in [Offsets -> SUBSET Values]
  BY DEF Files

LEMMA InitDisk == Init => DiskInv
<1> SUFFICES ASSUME Init PROVE DiskInv
  OBVIOUS
<1>1. PICK file \in Files : image = file /\ backend = Shut(file) /\ since = [s \in Sectors |-> {file[s]}]
  BY HddAssumption DEF Init, Files
<1>2. IsBackend(backend) /\ backend.buffer = NoWrite /\ backend.file = file
  BY <1>1, OpenFacts
<1>3. Types
  <2>1. since = [s \in Offsets |-> {file[s]}]
    BY <1>1, HddAssumption
  <2> QED BY <1>1, <1>2, <2>1, SinceFacts DEF Init, Types
<1> QED BY <1>1, <1>2, <1>3, WriteFacts, HddAssumption
        DEF Init, DiskInv, NoneBuffered, AllRecent, CleanInFile, FlushIsHonest

LEMMA MountDisk == DiskInv /\ Mount => DiskInv'
<1> SUFFICES ASSUME DiskInv, NEW how \in Modes, MountAs(how) PROVE DiskInv'
  BY DEF Mount
<1>1. /\ backend.file \in Files /\ IsBackend(backend) /\ backend.buffer = NoWrite
  BY BackendFacts DEF DiskInv, Types, NoneBuffered, MountAs
<1>2. IsBackend(backend') /\ backend'.buffer = NoWrite /\ backend'.file = backend.file
  BY <1>1, OpenFacts DEF MountAs
<1>3. Types'
  <2>1. since' = [s \in Offsets |-> {backend.file[s]}]
    BY HddAssumption DEF MountAs
  <2>2. mode' \in {"out", "file", "detached", "unwritable", "ram", "readonly"}
    BY HddAssumption DEF MountAs
  <2> QED BY <1>1, <1>2, <2>1, <2>2, SinceFacts DEF Types, MountAs
<1>4. Put(backend.file, NoWrite) = backend.file
  BY <1>1, WriteFacts, PutFacts
<1>5. AllRecent'
  BY <1>2, WriteFacts, HddAssumption DEF AllRecent, MountAs
<1>6. CleanInFile'
  BY <1>2, <1>4 DEF CleanInFile, MountAs
<1> QED BY <1>2, <1>3, <1>5, <1>6 DEF DiskInv, NoneBuffered, FlushIsHonest, MountAs

LEMMA MountMigratedDisk == DiskInv /\ MountMigrated => DiskInv'
<1> SUFFICES ASSUME DiskInv, MountMigrated PROVE DiskInv'
  OBVIOUS
<1>0. /\ backend.file \in Files /\ IsBackend(backend) /\ backend.buffer = NoWrite
      /\ unmarked' = {}
  BY BackendFacts DEF DiskInv, Types, NoneBuffered, MountMigrated
<1>1. PICK how \in Modes, data \in Files :
         /\ image' = data
         /\ IF how = "file"
             THEN \E r \in FlushBackend(Open(backend.file), data, TRUE) :
                     /\ dirty' = r.dirty /\ synced' = r.ok
                     /\ mode' = IF r.ok THEN "file" ELSE "detached"
                     /\ \E file \in IF r.ok THEN {r.backend.file} ELSE Dropped(r.backend) :
                           backend' = IF r.ok THEN r.backend ELSE Shut(file)
                     /\ since' = [s \in Sectors |->
                                    {data[s]} \union IF r.ok THEN {} ELSE {backend.file[s]}]
             ELSE /\ mode' = (IF how = "unwritable" THEN "detached" ELSE how)
                  /\ backend' = backend
                  /\ dirty' = FALSE /\ synced' = FALSE
                  /\ since' = [s \in Sectors |-> {data[s], backend.file[s]}]
  BY HddAssumption DEF MountMigrated, Files
<1>2. CASE how = "file"
  <2> DEFINE opened == Open(backend.file)
  <2>1. PICK r \in FlushBackend(opened, data, TRUE) :
           /\ dirty' = r.dirty /\ synced' = r.ok
           /\ mode' = IF r.ok THEN "file" ELSE "detached"
           /\ \E file \in IF r.ok THEN {r.backend.file} ELSE Dropped(r.backend) :
                 backend' = IF r.ok THEN r.backend ELSE Shut(file)
           /\ since' = [s \in Sectors |->
                          {data[s]} \union IF r.ok THEN {} ELSE {backend.file[s]}]
    BY <1>1, <1>2
  <2>2. IsBackend(opened) /\ opened.buffer = NoWrite /\ opened.file = backend.file
    BY <1>0, OpenFacts
  <2>3. \A s \in Offsets : Buffered(opened, s) = {backend.file[s]}
    BY <2>2, WriteFacts DEF Buffered
  <2> HIDE DEF opened
  <2>0. /\ IsBackend(r.backend) /\ r.ok \in BOOLEAN /\ r.dirty = ~r.ok
        /\ r.backend.buffer \in {NoWrite, opened.buffer}
        /\ r.ok => r.backend.file = data
        /\ \A o \in Offsets : r.backend.file[o] \in Buffered(opened, o) \union {data[o]}
    BY <2>2, FlushBackendFacts
  <2>4. /\ IsBackend(r.backend) /\ r.ok \in BOOLEAN /\ r.dirty = ~r.ok
        /\ r.backend.buffer = NoWrite
        /\ r.ok => r.backend.file = data
        /\ \A o \in Offsets : r.backend.file[o] \in {backend.file[o], data[o]}
    BY <2>0, <2>2, <2>3
  <2>5. CASE r.ok
    <3>1. /\ mode' = "file" /\ dirty' = FALSE /\ synced' = TRUE /\ backend' = r.backend
          /\ since' = [s \in Offsets |-> {data[s]}]
      BY <2>1, <2>4, <2>5, HddAssumption
    <3>2. IsBackend(backend') /\ backend'.buffer = NoWrite /\ backend'.file = data
      BY <2>4, <2>5, <3>1
    <3>3. Put(data, NoWrite) = data
      BY WriteFacts, PutFacts
    <3>4. Types'
      BY <1>0, <1>1, <3>1, <3>2, SinceFacts DEF Types
    <3>5. AllRecent'
      BY <1>1, <3>1, <3>2, WriteFacts DEF AllRecent
    <3>6. CleanInFile' /\ FlushIsHonest'
      BY <1>1, <3>2, <3>3, HddAssumption DEF CleanInFile, FlushIsHonest
    <3> QED BY <3>1, <3>2, <3>4, <3>5, <3>6 DEF DiskInv, NoneBuffered
  <2>6. CASE ~r.ok
    <3>1. PICK file \in Dropped(r.backend) : backend' = Shut(file)
      BY <2>1, <2>6
    <3>2. /\ mode' = "detached" /\ dirty' = TRUE /\ synced' = FALSE
          /\ since' = [s \in Offsets |-> {data[s], backend.file[s]}]
      BY <2>1, <2>4, <2>6, HddAssumption
    <3>3. file \in Files /\ file = r.backend.file
      BY <2>4, DroppedFacts
    <3>4. IsBackend(backend') /\ backend'.buffer = NoWrite /\ backend'.file = file
      BY <3>1, <3>3, OpenFacts
    <3>5. Types'
      BY <1>0, <1>1, <3>2, <3>4, SinceFacts DEF Types
    <3>6. AllRecent'
      BY <1>1, <2>4, <3>2, <3>3, <3>4, WriteFacts DEF AllRecent
    <3> QED BY <3>2, <3>4, <3>5, <3>6 DEF DiskInv, NoneBuffered, CleanInFile, FlushIsHonest
  <2> QED BY <2>4, <2>5, <2>6
<1>3. CASE how # "file"
  <2>1. /\ mode' \in {"detached", "ram", "readonly"} /\ backend' = backend
        /\ dirty' = FALSE /\ synced' = FALSE
        /\ since' = [s \in Offsets |-> {data[s], backend.file[s]}]
    BY <1>1, <1>3, HddAssumption
  <2>2. Types'
    BY <1>0, <1>1, <2>1, SinceFacts DEF Types
  <2>3. AllRecent'
    BY <1>0, <1>1, <2>1, WriteFacts DEF AllRecent
  <2> QED BY <1>0, <2>1, <2>2, <2>3 DEF DiskInv, NoneBuffered, CleanInFile, FlushIsHonest
<1> QED BY <1>2, <1>3

\* The image changes: what it holds and what it held stay recent.
LEMMA ChangeFacts ==
    ASSUME DiskInv, NEW write \in Writes, Changes(write)
    PROVE  /\ image' \in Files /\ since' \in [Offsets -> SUBSET Values]
           /\ \A s \in Offsets : /\ image'[s] = IF s \in DOMAIN write THEN write[s] ELSE image[s]
                                 /\ image'[s] \in since'[s]
                                 /\ since[s] \subseteq since'[s]
<1>1. /\ image' \in Files
      /\ \A s \in Offsets : image'[s] = IF s \in DOMAIN write THEN write[s] ELSE image[s]
  BY PutFacts DEF DiskInv, Types, Changes
<1>2. since' = [s \in Offsets |-> since[s] \union {image'[s]}]
  BY HddAssumption DEF Changes
<1>3. \A s \in Offsets : since[s] \subseteq Values /\ image'[s] \in Values
  BY <1>1 DEF DiskInv, Types, Files
<1>4. \A s \in Offsets : (since[s] \union {image'[s]}) \in SUBSET Values
  BY <1>3
<1>5. since' \in [Offsets -> SUBSET Values]
  BY <1>2, <1>4
<1> QED BY <1>1, <1>2, <1>5

\* A change of the image that is written through.
LEMMA WriteThroughDisk ==
    ASSUME DiskInv, NEW write \in Writes, Changes(write), WriteThrough(write),
           unmarked' = unmarked \ DOMAIN write, synced' = FALSE, mode' = mode
    PROVE  DiskInv'
<1>1. /\ IsBackend(backend) /\ backend.file \in Files /\ backend.buffer \in Writes
      /\ dirty \in BOOLEAN
  BY BackendFacts DEF DiskInv, Types
<1>2. CASE HasBackend
  <2>1. PICK r \in WriteAt(backend, write) : backend' = r.backend /\ dirty' = (dirty \/ ~r.ok)
    BY <1>2 DEF WriteThrough
  <2>2. /\ IsBackend(backend') /\ r.ok \in BOOLEAN
        /\ backend'.buffer \in {backend.buffer, NoWrite, write}
        /\ r.ok => \A o \in Offsets :
              Put(backend'.file, backend'.buffer)[o]
                 = IF o \in DOMAIN write THEN write[o] ELSE Put(backend.file, backend.buffer)[o]
        /\ \A o \in Offsets : backend'.file[o] \in
              Buffered(backend, o) \union (IF o \in DOMAIN write THEN {write[o]} ELSE {})
    BY <1>1, <2>1, WriteAtFacts
  <2>3. Types'
    BY <1>1, <2>1, <2>2, ChangeFacts DEF DiskInv, Types
  <2>4. \A s \in Offsets : Buffered(backend, s) \subseteq since[s]
    BY RecentFacts DEF DiskInv
  <2>5. \A s \in Offsets : backend'.file[s] \in since'[s] /\ image'[s] \in since'[s]
    BY <2>2, <2>4, ChangeFacts
  <2>6. \A s \in DOMAIN backend'.buffer : backend'.buffer[s] \in since'[s]
    <3>1. CASE backend'.buffer = backend.buffer
      BY <3>1, <1>1, WriteFacts, ChangeFacts DEF DiskInv, AllRecent
    <3>2. CASE backend'.buffer = NoWrite
      BY <3>2, WriteFacts
    <3>3. CASE backend'.buffer = write
      BY <3>3, WriteFacts, ChangeFacts
    <3> QED BY <2>2, <3>1, <3>2, <3>3
  <2>7. CleanInFile'
    <3> SUFFICES ASSUME ~dirty', NEW s \in Offsets \ unmarked'
                 PROVE  Put(backend'.file, backend'.buffer)[s] = image'[s]
      BY DEF CleanInFile
    <3>1. r.ok /\ ~dirty
      BY <1>1, <2>1, <2>2
    <3>2. s \notin DOMAIN write => Put(backend.file, backend.buffer)[s] = image[s]
      BY <1>2, <3>1 DEF DiskInv, CleanInFile, HasBackend
    <3> QED BY <2>2, <3>1, <3>2, ChangeFacts
  <2> QED BY <1>2, <2>3, <2>5, <2>6, <2>7
          DEF DiskInv, NoneBuffered, AllRecent, FlushIsHonest, HasBackend
<1>3. CASE ~HasBackend
  <2>1. dirty' = TRUE /\ backend' = backend
    BY <1>3 DEF WriteThrough
  <2>2. Types'
    BY <2>1, ChangeFacts DEF DiskInv, Types
  <2>3. AllRecent'
    BY <1>1, <2>1, WriteFacts, ChangeFacts DEF DiskInv, AllRecent
  <2> QED BY <2>1, <2>2, <2>3 DEF DiskInv, NoneBuffered, CleanInFile, FlushIsHonest
<1> QED BY <1>2, <1>3

LEMMA WriteSectorDisk == DiskInv /\ WriteSector => DiskInv'
<1> SUFFICES ASSUME DiskInv, WriteSector PROVE DiskInv'
  OBVIOUS
<1>1. PICK s \in Offsets, v \in Values :
         LET write == [o \in {s} |-> v]
         IN  Changes(write) /\ WriteThrough(write) /\ unmarked' = unmarked \ {s}
  BY HddAssumption DEF WriteSector
<1> DEFINE write == [o \in {s} |-> v]
<1>2. write \in Writes /\ DOMAIN write = {s}
  BY WriteFacts
<1>3. Changes(write) /\ WriteThrough(write) /\ unmarked' = unmarked \ {s}
  BY <1>1
<1> HIDE DEF write
<1>4. synced' = FALSE /\ mode' = mode
  BY DEF WriteSector
<1> QED BY <1>2, <1>3, <1>4, WriteThroughDisk

LEMMA FormatTrackDisk == DiskInv /\ FormatTrack => DiskInv'
<1> SUFFICES ASSUME DiskInv, FormatTrack PROVE DiskInv'
  OBVIOUS
<1>1. PICK start \in FormatStarts :
         LET filled == [o \in Track(start) \intersect Sectors |-> Fill]
         IN  /\ Changes(filled)
             /\ IF Track(start) \subseteq Sectors
                THEN WriteThrough(filled) /\ unmarked' = unmarked \ DOMAIN filled
                ELSE unmarked' = unmarked \union DOMAIN filled /\ UNCHANGED <<backend, dirty>>
  BY DEF FormatTrack
<1> DEFINE where == Track(start) \intersect Sectors
           filled == [o \in where |-> Fill]
<1>2. filled \in Writes /\ DOMAIN filled = where /\ where \subseteq Offsets
  BY WriteFacts, HddAssumption
<1>3. /\ Changes(filled)
      /\ IF Track(start) \subseteq Sectors
         THEN WriteThrough(filled) /\ unmarked' = unmarked \ DOMAIN filled
         ELSE unmarked' = unmarked \union DOMAIN filled /\ UNCHANGED <<backend, dirty>>
  BY <1>1
<1> HIDE DEF filled, where
<1>4. synced' = FALSE /\ mode' = mode
  BY DEF FormatTrack
<1>5. CASE Track(start) \subseteq Sectors
  BY <1>2, <1>3, <1>4, <1>5, WriteThroughDisk
<1>6. CASE ~(Track(start) \subseteq Sectors)
  <2>1. unmarked' = unmarked \union where /\ backend' = backend /\ dirty' = dirty
    BY <1>2, <1>3, <1>6
  <2>2. /\ image' \in Files /\ since' \in [Offsets -> SUBSET Values]
        /\ \A s \in Offsets : /\ image'[s] = IF s \in where THEN filled[s] ELSE image[s]
                              /\ image'[s] \in since'[s]
                              /\ since[s] \subseteq since'[s]
    BY <1>2, <1>3, ChangeFacts
  <2>3. Types'
    BY <1>2, <1>4, <2>1, <2>2 DEF DiskInv, Types
  <2>4. DOMAIN backend.buffer \subseteq Offsets
    BY BackendFacts, WriteFacts DEF DiskInv, Types
  <2>5. AllRecent'
    BY <2>1, <2>2, <2>4 DEF DiskInv, AllRecent
  <2>6. CleanInFile'
    BY <1>4, <2>1, <2>2 DEF DiskInv, CleanInFile
  <2> QED BY <1>4, <2>1, <2>3, <2>5, <2>6 DEF DiskInv, NoneBuffered, FlushIsHonest
<1> QED BY <1>5, <1>6

\* A flush of the mounted file, and what is recent after it.
LEMMA SettledFacts ==
    ASSUME DiskInv, HasBackend, NEW r \in FlushBackend(backend, image, dirty), Settled(r.ok)
    PROVE  /\ IsBackend(r.backend) /\ r.ok \in BOOLEAN /\ r.dirty = ~r.ok
           /\ unmarked' \subseteq Offsets /\ since' \in [Offsets -> SUBSET Values]
           /\ \A s \in Offsets : r.backend.file[s] \in since'[s] /\ image[s] \in since'[s]
           /\ \A s \in DOMAIN r.backend.buffer : r.backend.buffer[s] \in since'[s]
           /\ r.ok => /\ r.backend.buffer = NoWrite
                      /\ \A s \in Offsets \ unmarked' : r.backend.file[s] = image[s]
<1>1. /\ IsBackend(backend) /\ backend.file \in Files /\ backend.buffer \in Writes
      /\ dirty \in BOOLEAN /\ image \in Files /\ unmarked \subseteq Offsets
      /\ since \in [Offsets -> SUBSET Values]
  BY BackendFacts DEF DiskInv, Types
<1>2. /\ IsBackend(r.backend) /\ r.ok \in BOOLEAN /\ r.dirty = ~r.ok
      /\ r.backend.buffer \in {NoWrite, backend.buffer}
      /\ r.ok => r.backend.buffer = NoWrite
      /\ r.ok /\ dirty => r.backend.file = image
      /\ r.ok /\ ~dirty => r.backend.file = Put(backend.file, backend.buffer)
      /\ \A o \in Offsets : r.backend.file[o] \in Buffered(backend, o) \union {image[o]}
  BY <1>1, FlushBackendFacts
<1>3. /\ unmarked' = IF r.ok /\ dirty THEN {} ELSE unmarked
      /\ since' = [s \in Offsets |-> IF r.ok /\ s \notin unmarked' THEN {image[s]} ELSE since[s]]
  BY HddAssumption DEF Settled
<1>4. r.ok => \A s \in Offsets \ unmarked' : r.backend.file[s] = image[s]
  BY <1>1, <1>2, <1>3 DEF DiskInv, CleanInFile, HasBackend
<1>5. \A s \in Offsets : r.backend.file[s] \in since[s] /\ image[s] \in since[s]
  BY <1>2, RecentFacts DEF DiskInv, AllRecent
<1>6. \A s \in Offsets : r.backend.file[s] \in since'[s] /\ image[s] \in since'[s]
  BY <1>3, <1>4, <1>5
<1>7. \A s \in DOMAIN r.backend.buffer : r.backend.buffer[s] \in since'[s]
  <2>1. CASE r.backend.buffer = NoWrite
    BY <2>1, WriteFacts
  <2>2. CASE ~r.ok /\ r.backend.buffer = backend.buffer
    BY <1>1, <1>3, <2>2, WriteFacts DEF DiskInv, AllRecent
  <2> QED BY <1>2, <2>1, <2>2
<1>8. since' \in [Offsets -> SUBSET Values]
  <2>1. \A s \in Offsets : {image[s]} \in SUBSET Values /\ since[s] \in SUBSET Values
    BY <1>1 DEF Files
  <2> QED BY <1>3, <2>1
<1> QED BY <1>1, <1>2, <1>3, <1>4, <1>6, <1>7, <1>8

LEMMA FlushImageDisk == DiskInv /\ FlushImage => DiskInv'
<1> SUFFICES ASSUME DiskInv, FlushImage PROVE DiskInv'
  OBVIOUS
<1>0. mode' = mode /\ image' = image
  BY DEF FlushImage
<1>1. CASE HasBackend
  <2>1. PICK r \in FlushBackend(backend, image, dirty) :
           /\ backend' = r.backend /\ dirty' = r.dirty /\ synced' = r.ok
           /\ Settled(r.ok)
    BY <1>1 DEF FlushImage
  <2>2. /\ IsBackend(backend') /\ synced' \in BOOLEAN /\ dirty' = ~synced'
        /\ unmarked' \subseteq Offsets /\ since' \in [Offsets -> SUBSET Values]
        /\ \A s \in Offsets : backend'.file[s] \in since'[s] /\ image[s] \in since'[s]
        /\ \A s \in DOMAIN backend'.buffer : backend'.buffer[s] \in since'[s]
        /\ synced' => /\ backend'.buffer = NoWrite
                      /\ \A s \in Offsets \ unmarked' : backend'.file[s] = image[s]
    BY <1>1, <2>1, SettledFacts
  <2>3. Types'
    BY <1>0, <2>2 DEF DiskInv, Types
  <2>4. CleanInFile'
    <3>1. Put(backend'.file, NoWrite) = backend'.file
      BY <2>2, BackendFacts, WriteFacts, PutFacts
    <3> QED BY <1>0, <2>2, <3>1 DEF CleanInFile
  <2>5. FlushIsHonest'
    BY <1>0, <2>2, HddAssumption DEF FlushIsHonest
  <2> QED BY <1>0, <1>1, <2>2, <2>3, <2>4, <2>5 DEF DiskInv, NoneBuffered, AllRecent, HasBackend
<1>2. CASE ~HasBackend
  <2>1. /\ backend' = backend /\ dirty' = dirty /\ since' = since /\ unmarked' = unmarked
        /\ synced' = (mode = "unwritable" /\ ~dirty)
    BY <1>2 DEF FlushImage
  <2>2. Types' /\ NoneBuffered' /\ AllRecent' /\ CleanInFile'
    BY <1>0, <2>1 DEF DiskInv, Types, NoneBuffered, AllRecent, CleanInFile
  <2>3. Put(backend.file, backend.buffer) = backend.file
    BY <1>2, BackendFacts, WriteFacts, PutFacts DEF DiskInv, Types, NoneBuffered, HasBackend
  <2>4. FlushIsHonest'
    BY <1>0, <2>1, <2>3, HddAssumption DEF DiskInv, CleanInFile, FlushIsHonest
  <2> QED BY <2>2, <2>4 DEF DiskInv
<1> QED BY <1>1, <1>2

LEMMA EjectDisk == DiskInv /\ Eject => DiskInv'
<1> SUFFICES ASSUME DiskInv, Eject PROVE DiskInv'
  OBVIOUS
<1>0. mode' = "out" /\ image' = image /\ dirty' = FALSE
  BY DEF Eject
<1>1. CASE HasBackend
  <2>1. PICK r \in FlushBackend(backend, image, dirty) :
           /\ synced' = r.ok /\ Settled(r.ok)
           /\ \E file \in Dropped(r.backend) : backend' = Shut(file)
    BY <1>1 DEF Eject
  <2>2. /\ IsBackend(r.backend) /\ r.ok \in BOOLEAN
        /\ unmarked' \subseteq Offsets /\ since' \in [Offsets -> SUBSET Values]
        /\ \A s \in Offsets : r.backend.file[s] \in since'[s] /\ image[s] \in since'[s]
        /\ \A s \in DOMAIN r.backend.buffer : r.backend.buffer[s] \in since'[s]
        /\ r.ok => /\ r.backend.buffer = NoWrite
                   /\ \A s \in Offsets \ unmarked' : r.backend.file[s] = image[s]
    BY <1>1, <2>1, SettledFacts
  <2>3. PICK file \in Dropped(r.backend) : backend' = Shut(file)
    BY <2>1
  <2>4. /\ file \in Files
        /\ r.backend.buffer = NoWrite => file = r.backend.file
        /\ \A o \in Offsets : file[o] \in Buffered(r.backend, o)
    BY <2>2, DroppedFacts
  <2>5. IsBackend(backend') /\ backend'.buffer = NoWrite /\ backend'.file = file
    BY <2>3, <2>4, OpenFacts
  <2>6. Types'
    BY <1>0, <2>1, <2>2, <2>5 DEF DiskInv, Types
  <2>7. \A s \in Offsets : file[s] \in since'[s]
    BY <2>2, <2>4 DEF Buffered
  <2>8. AllRecent'
    BY <1>0, <2>2, <2>5, <2>7, WriteFacts DEF AllRecent
  <2>9. FlushIsHonest'
    BY <1>0, <2>1, <2>2, <2>4, <2>5, HddAssumption DEF FlushIsHonest
  <2> QED BY <1>0, <2>5, <2>6, <2>8, <2>9 DEF DiskInv, NoneBuffered, CleanInFile
<1>2. CASE ~HasBackend
  <2>1. synced' = FALSE /\ backend' = backend /\ since' = since /\ unmarked' = unmarked
    BY <1>2 DEF Eject
  <2> QED BY <1>0, <1>2, <2>1
          DEF DiskInv, Types, NoneBuffered, AllRecent, CleanInFile, FlushIsHonest, HasBackend
<1> QED BY <1>1, <1>2

LEMMA DieDisk == DiskInv /\ Die => DiskInv'
<1> SUFFICES ASSUME DiskInv, Die PROVE DiskInv'
  OBVIOUS
<1>1. /\ mode' = "out" /\ dirty' = FALSE /\ synced' = FALSE
      /\ image' = image /\ since' = since /\ unmarked' = unmarked
      /\ backend' = Shut(backend.file)
  BY DEF Die
<1>2. backend.file \in Files
  BY BackendFacts DEF DiskInv, Types
<1>3. IsBackend(backend') /\ backend'.buffer = NoWrite /\ backend'.file = backend.file
  BY <1>1, <1>2, OpenFacts
<1>4. Types'
  BY <1>1, <1>3 DEF DiskInv, Types
<1>5. AllRecent'
  BY <1>1, <1>3, WriteFacts DEF DiskInv, AllRecent
<1> QED BY <1>1, <1>3, <1>4, <1>5 DEF DiskInv, NoneBuffered, CleanInFile, FlushIsHonest

-----------------------------------------------------------------------------
LEMMA DiskInvariance == Spec => []DiskInv
<1>1. Init => DiskInv
  BY InitDisk
<1>2. DiskInv /\ [Next]_vars => DiskInv'
  <2> SUFFICES ASSUME DiskInv, [Next]_vars PROVE DiskInv'
    OBVIOUS
  <2>1. CASE UNCHANGED vars
    BY <2>1 DEF vars, DiskInv, Types, NoneBuffered, AllRecent, CleanInFile, FlushIsHonest
  <2>2. CASE Next
    BY <2>2, MountDisk, MountMigratedDisk, WriteSectorDisk, FormatTrackDisk, FlushImageDisk,
       EjectDisk, DieDisk DEF Next
  <2> QED BY <2>1, <2>2
<1> QED BY <1>1, <1>2, PTL DEF Spec

(* Whatever write, seek, rename or open fails, and wherever the process    *)
(* dies, each sector of the host file holds a value the guest gave it since *)
(* the last flush that returned Ok, or the value of that flush.             *)
THEOREM HddFileIsRecent == Spec => []FileIsRecent
<1>1. DiskInv => FileIsRecent
  BY HddAssumption DEF DiskInv, AllRecent, FileIsRecent
<1> QED BY <1>1, DiskInvariance, PTL

(* MountedHdd::flush and eject return Ok only if the host file is the image, *)
(* but for the sectors of a format that failed part of the way.              *)
THEOREM HddFlushIsHonest == Spec => []FlushIsHonest
<1>1. DiskInv => FlushIsHonest
  BY DEF DiskInv
<1> QED BY <1>1, DiskInvariance, PTL

(* Between two flushes: a mounted image that is not dirty is in its file and *)
(* the write the BufWriter holds, but for those sectors.                     *)
THEOREM HddCleanIsWritten == Spec => []CleanIsWritten
<1>1. DiskInv => CleanIsWritten
  BY HddAssumption DEF DiskInv, CleanInFile, CleanIsWritten, HasBackend
<1> QED BY <1>1, DiskInvariance, PTL

-----------------------------------------------------------------------------
(* The floppy image, from here on. *)
Image == [shape : Shapes, data : [FloppySectors -> Sector], at : [FloppySectors -> Offsets \union {None}]]

\* The file f holds the sectors and the shape of this image.
Holds(f, img) ==
    /\ img.shape = f[0]
    /\ \A s \in FloppySectors : \A copy \in 0 .. Copies : img.data[s][copy] = f[Location(f[0], s) + copy]

\* An offset is one that a parsed file gave the sector; AtValid: the one of this shape.
AtSome(at) == \A s \in FloppySectors : at[s] # None => \E shape \in Shapes : at[s] = Location(shape, s)
AtValid(at, shape) == \A s \in FloppySectors : at[s] \in {None, Location(shape, s)}

\* All that is or may come into the places of a sector is recent.
Recent(b, recent) ==
    \A s \in FloppySectors : \A o \in Places(b.file[0], s) : Buffered(b, o) \subseteq recent[s]

ImageRecent(data, recent) == \A s \in FloppySectors : Stored(data[s]) \subseteq recent[s]

\* A backend whose file has a shape and whose buffer leaves it alone.
IsFloppy(b) == IsBackend(b) /\ b.file[0] \in Representable /\ 0 \notin DOMAIN b.buffer

FloppyTypes ==
    /\ mode \in {"out", "file", "unwritable", "ram", "readonly"}
    /\ image \in Image /\ AtSome(image.at)
    /\ dirty \in BOOLEAN /\ synced \in BOOLEAN /\ moved \in BOOLEAN
    /\ since \in [FloppySectors -> SUBSET Values]
    /\ IsFloppy(backend)

FloppyRecent ==
    /\ ImageRecent(image.data, since)
    /\ ~moved => AtValid(image.at, backend.file[0]) /\ Recent(backend, since)

\* The image has an error to report as long as it may not know where its sectors are.
MovedIsDirty == moved /\ mode # "out" => dirty

FloppyClean ==
    mode \in {"file", "unwritable", "readonly"} /\ ~dirty
    => Holds(Put(backend.file, backend.buffer), image)

FloppyHonest == synced => Holds(backend.file, image)

FloppyInv ==
    FloppyTypes /\ NoneBuffered /\ FloppyRecent /\ MovedIsDirty /\ FloppyClean /\ FloppyHonest

-----------------------------------------------------------------------------
(* The layout of the file. *)
LEMMA PlacesFacts ==
    ASSUME NEW shape \in Shapes, NEW s \in FloppySectors
    PROVE  /\ Location(shape, s) \in Nat /\ Location(shape, s) > 0
           /\ Copies = 0 => Places(shape, s) = {Location(shape, s)}
           /\ Copies = 1 => Places(shape, s) = {Location(shape, s), Location(shape, s) + 1}
<1>1. shape \in Nat /\ s \in Nat /\ s >= 1
  BY FloppyAssumption
<1>2. CASE Copies = 0
  <2>1. (s - 1) * (1 + 0) = s - 1
    BY <1>1
  <2> QED BY <1>1, <1>2, <2>1 DEF Location, Places
<1>3. CASE Copies = 1
  <2>1. (s - 1) * (1 + 1) = (s - 1) + (s - 1)
    BY <1>1
  <2> QED BY <1>1, <1>3, <2>1 DEF Location, Places
<1> QED BY <1>2, <1>3, FloppyAssumption

LEMMA Apart ==
    ASSUME NEW shape \in Shapes, NEW s \in FloppySectors, NEW t \in FloppySectors,
           NEW o, o \in Places(shape, s), o \in Places(shape, t)
    PROVE  s = t
<1>1. shape \in Nat /\ s \in Nat /\ s >= 1 /\ t \in Nat /\ t >= 1
  BY FloppyAssumption
<1>2. CASE Copies = 0
  <2>1. Location(shape, s) = shape + s /\ Location(shape, t) = shape + t
    BY <1>1, <1>2 DEF Location
  <2> QED BY <1>1, <1>2, <2>1, PlacesFacts
<1>3. CASE Copies = 1
  <2>1. Location(shape, s) = 1 + shape + (s - 1) + (s - 1) /\ Location(shape, t) = 1 + shape + (t - 1) + (t - 1)
    BY <1>1, <1>3 DEF Location
  <2>2. o \in {Location(shape, s), Location(shape, s) + 1} /\ o \in {Location(shape, t), Location(shape, t) + 1}
    BY <1>3, PlacesFacts
  <2> QED BY <1>1, <2>1, <2>2
<1> QED BY <1>2, <1>3, FloppyAssumption

LEMMA LayoutFacts ==
    ASSUME NEW shape \in Shapes, NEW s \in FloppySectors
    PROVE  /\ \A copy \in 0 .. Copies : Location(shape, s) + copy \in Places(shape, s)
           /\ \A o \in Places(shape, s) :
                 /\ o \in Offsets /\ o # 0
                 /\ o - Location(shape, s) \in 0 .. Copies
                 /\ Location(shape, s) + (o - Location(shape, s)) = o
<1>1. Copies \in {0, 1} /\ Places(shape, s) \subseteq Offsets
  BY FloppyAssumption, LayoutAssumption
<1>2. Location(shape, s) \in Nat /\ Location(shape, s) > 0
  BY PlacesFacts
<1>3. CASE Copies = 0
  BY <1>1, <1>2, <1>3, PlacesFacts
<1>4. CASE Copies = 1
  BY <1>1, <1>2, <1>4, PlacesFacts
<1> QED BY <1>1, <1>3, <1>4

LEMMA SectorFacts ==
    ASSUME NEW data \in [FloppySectors -> Sector], NEW s \in FloppySectors
    PROVE  /\ data[s] \in Sector /\ \A copy \in 0 .. Copies : data[s][copy] \in Values
           /\ Stored(data[s]) \subseteq Values
           /\ \A copy \in 0 .. Copies : data[s][copy] \in Stored(data[s])
<1>1. data[s] \in Sector /\ \A copy \in 0 .. Copies : data[s][copy] \in Values
  BY DEF Sector
<1> QED BY <1>1 DEF Stored

LEMMA FilledFacts ==
    ASSUME NEW v \in Values
    PROVE  /\ Filled(v) \in Sector /\ \A copy \in 0 .. Copies : Filled(v)[copy] = v
           /\ Stored(Filled(v)) \subseteq {v}
<1>1. Filled(v) \in Sector /\ \A copy \in 0 .. Copies : Filled(v)[copy] = v
  BY DEF Filled, Sector
<1> QED BY <1>1 DEF Stored

(* to_bytes puts each copy of each sector where the shape wants it. *)
LEMMA BytesFacts ==
    ASSUME NEW data \in [FloppySectors -> Sector], NEW shape \in Representable
    PROVE  /\ ToBytes(data, shape) \in Files /\ ToBytes(data, shape)[0] = shape
           /\ \A s \in FloppySectors : \A copy \in 0 .. Copies :
                 ToBytes(data, shape)[Location(shape, s) + copy] = data[s][copy]
<1> DEFINE f == ToBytes(data, shape)
           Of(o) == CHOOSE s \in FloppySectors : o \in Places(shape, s)
<1>0. shape \in Shapes /\ shape \in Values /\ 0 \in Values /\ 0 \in Offsets
  BY FloppyAssumption, LayoutAssumption
<1>1. ASSUME NEW s \in FloppySectors, NEW o \in Places(shape, s)
      PROVE  f[o] = data[s][o - Location(shape, s)] /\ f[o] \in Values
  <2>1. o \in Offsets /\ o # 0 /\ o - Location(shape, s) \in 0 .. Copies
    BY <1>0, LayoutFacts
  <2>2. Of(o) \in FloppySectors /\ o \in Places(shape, Of(o))
    OBVIOUS
  <2>3. Of(o) = s
    BY <1>0, <2>2, Apart
  <2>4. f[o] = data[Of(o)][o - Location(shape, Of(o))]
    BY <2>1 DEF ToBytes
  <2> QED BY <2>1, <2>3, <2>4, SectorFacts
<1>2. ASSUME NEW o \in Offsets PROVE f[o] \in Values
  <2>1. CASE o = 0
    BY <1>0, <2>1 DEF ToBytes
  <2>2. CASE \E s \in FloppySectors : o \in Places(shape, s)
    BY <1>1, <2>2
  <2>3. CASE o # 0 /\ ~\E s \in FloppySectors : o \in Places(shape, s)
    BY <1>0, <2>3 DEF ToBytes
  <2> QED BY <2>1, <2>2, <2>3
<1>3. f \in Files
  BY <1>2 DEF Files, ToBytes
<1>4. f[0] = shape
  BY <1>0 DEF ToBytes
<1>5. ASSUME NEW s \in FloppySectors, NEW copy \in 0 .. Copies
      PROVE  f[Location(shape, s) + copy] = data[s][copy]
  <2>1. Location(shape, s) + copy \in Places(shape, s) /\ Location(shape, s) \in Nat
    BY <1>0, LayoutFacts, PlacesFacts
  <2>2. (Location(shape, s) + copy) - Location(shape, s) = copy
    BY <2>1, FloppyAssumption
  <2> QED BY <1>1, <2>1, <2>2
<1> QED BY <1>3, <1>4, <1>5

(* load_floppy_image takes the shape, and each sector from its place. *)
LEMMA ParsedFacts ==
    ASSUME NEW f \in Files, f[0] \in Representable
    PROVE  /\ Parsed(f) \in Image /\ Parsed(f).shape = f[0]
           /\ \A s \in FloppySectors : Parsed(f).at[s] = Location(f[0], s)
           /\ Holds(f, Parsed(f))
           /\ \A img \in Image : Holds(f, img) => Parsed(f).data = img.data
<1>0. f[0] \in Shapes
  BY FloppyAssumption
<1> DEFINE data == [s \in FloppySectors |-> [copy \in 0 .. Copies |-> f[Location(f[0], s) + copy]]]
           at == [s \in FloppySectors |-> Location(f[0], s)]
<1>1. Parsed(f) = [shape |-> f[0], data |-> data, at |-> at]
  BY DEF Parsed
<1>2. \A s \in FloppySectors : \A copy \in 0 .. Copies : f[Location(f[0], s) + copy] \in Values
  BY <1>0, LayoutFacts DEF Files
<1>3. \A s \in FloppySectors : [copy \in 0 .. Copies |-> f[Location(f[0], s) + copy]] \in Sector
  BY <1>2 DEF Sector
<1>4. data \in [FloppySectors -> Sector]
  BY <1>3
<1>5. \A s \in FloppySectors : Location(f[0], s) \in Offsets
  <2> SUFFICES ASSUME NEW s \in FloppySectors PROVE Location(f[0], s) \in Offsets
    OBVIOUS
  <2>1. Location(f[0], s) \in Places(f[0], s)
    <3>1. Copies = 0 \/ Copies = 1
      BY FloppyAssumption
    <3> QED BY <1>0, <3>1, PlacesFacts
  <2> QED BY <1>0, <2>1, LayoutFacts
<1>6. at \in [FloppySectors -> Offsets \union {None}] /\ \A s \in FloppySectors : at[s] = Location(f[0], s)
  BY <1>5
<1>7. \A s \in FloppySectors : \A copy \in 0 .. Copies : data[s][copy] = f[Location(f[0], s) + copy]
  OBVIOUS
<1>8. ASSUME NEW img \in Image, Holds(f, img) PROVE data = img.data
  <2>1. img.data \in [FloppySectors -> Sector]
    BY DEF Image
  <2>2. ASSUME NEW s \in FloppySectors PROVE data[s] = img.data[s]
    <3>1. data[s] \in [0 .. Copies -> Values] /\ img.data[s] \in [0 .. Copies -> Values]
      BY <1>4, <2>1 DEF Sector
    <3>2. \A copy \in 0 .. Copies : data[s][copy] = img.data[s][copy]
      BY <1>7, <1>8 DEF Holds
    <3> QED BY <3>1, <3>2
  <2> QED BY <1>4, <2>1, <2>2
<1> HIDE DEF data, at
<1>9. Parsed(f) \in Image /\ Parsed(f).shape = f[0] /\ Parsed(f).data = data /\ Parsed(f).at = at
  BY <1>0, <1>1, <1>4, <1>6 DEF Image
<1> QED BY <1>6, <1>7, <1>8, <1>9 DEF Holds

(* The image that is parsed from its own bytes. *)
LEMMA Reparsed ==
    ASSUME NEW img \in Image, img.shape \in Representable
    PROVE  LET bytes == ToBytes(img.data, img.shape)
           IN  /\ bytes \in Files /\ bytes[0] = img.shape /\ Holds(bytes, img)
               /\ Parsed(bytes) \in Image /\ Parsed(bytes).shape = img.shape
               /\ Parsed(bytes).data = img.data /\ Holds(bytes, Parsed(bytes))
               /\ AtValid(Parsed(bytes).at, img.shape) /\ AtSome(Parsed(bytes).at)
<1> DEFINE bytes == ToBytes(img.data, img.shape)
<1>1. img.data \in [FloppySectors -> Sector] /\ img.shape \in Shapes
  BY DEF Image
<1>2. /\ bytes \in Files /\ bytes[0] = img.shape
      /\ \A s \in FloppySectors : \A copy \in 0 .. Copies : bytes[Location(img.shape, s) + copy] = img.data[s][copy]
  BY <1>1, BytesFacts
<1> HIDE DEF bytes
<1>3. Holds(bytes, img)
  BY <1>2 DEF Holds
<1>4. /\ Parsed(bytes) \in Image /\ Parsed(bytes).shape = img.shape /\ Parsed(bytes).data = img.data
      /\ Holds(bytes, Parsed(bytes))
      /\ \A s \in FloppySectors : Parsed(bytes).at[s] = Location(img.shape, s)
  BY <1>2, <1>3, ParsedFacts
<1>5. AtValid(Parsed(bytes).at, img.shape) /\ AtSome(Parsed(bytes).at)
  BY <1>1, <1>4 DEF AtValid, AtSome
<1> QED BY <1>2, <1>3, <1>4, <1>5 DEF bytes

-----------------------------------------------------------------------------
(* The calls of the backend, on a file with a shape. *)
LEMMA FloppyFields ==
    ASSUME NEW b, IsFloppy(b)
    PROVE  /\ IsBackend(b) /\ b.buffer \in Writes /\ b.file \in Files
           /\ b.file[0] \in Representable /\ b.file[0] \in Shapes /\ 0 \in Offsets
           /\ Buffered(b, 0) = {b.file[0]} /\ Put(b.file, b.buffer)[0] = b.file[0]
<1>1. IsBackend(b) /\ b.buffer \in Writes /\ b.file \in Files /\ b.file[0] \in Representable
  BY BackendFacts DEF IsFloppy
<1>2. b.file[0] \in Shapes /\ 0 \in Offsets
  BY <1>1, FloppyAssumption, LayoutAssumption
<1>3. Buffered(b, 0) = {b.file[0]}
  BY DEF Buffered, IsFloppy
<1>4. Put(b.file, b.buffer)[0] = b.file[0]
  BY <1>1, <1>2, PutFacts DEF IsFloppy
<1> QED BY <1>1, <1>2, <1>3, <1>4

\* A call that at most writes the buffer keeps the shape, and what is recent.
LEMMA KeptShape ==
    ASSUME NEW b, IsFloppy(b), NEW c, IsBackend(c), c.buffer \in {NoWrite, b.buffer},
           \A o \in Offsets : c.file[o] \in Buffered(b, o)
    PROVE  /\ IsFloppy(c) /\ c.file[0] = b.file[0]
           /\ \A recent : Recent(b, recent) => Recent(c, recent)
<1>1. c.file[0] = b.file[0]
  BY FloppyFields
<1>2. 0 \notin DOMAIN c.buffer
  BY WriteFacts DEF IsFloppy
<1>3. \A o \in Offsets : Buffered(c, o) \subseteq Buffered(b, o)
  BY WriteFacts DEF Buffered
<1>4. \A s \in FloppySectors : Places(b.file[0], s) \subseteq Offsets
  BY FloppyFields, LayoutFacts
<1>5. ASSUME NEW recent, Recent(b, recent) PROVE Recent(c, recent)
  BY <1>1, <1>3, <1>4, <1>5 DEF Recent
<1> QED BY <1>1, <1>2, <1>5, FloppyFields DEF IsFloppy

\* A file that holds a recent image is recent.
LEMMA HeldRecent ==
    ASSUME NEW b, IsFloppy(b), b.buffer = NoWrite, NEW img \in Image, Holds(b.file, img),
           NEW recent, ImageRecent(img.data, recent)
    PROVE  Recent(b, recent)
<1> SUFFICES ASSUME NEW s \in FloppySectors, NEW o \in Places(b.file[0], s)
             PROVE  Buffered(b, o) \subseteq recent[s]
  BY DEF Recent
<1> DEFINE copy == o - Location(b.file[0], s)
<1>1. copy \in 0 .. Copies /\ Location(b.file[0], s) + copy = o
  BY FloppyFields, LayoutFacts
<1> HIDE DEF copy
<1>2. img.data[s][copy] = b.file[o]
  BY <1>1 DEF Holds
<1>3. img.data[s][copy] \in Stored(img.data[s])
  BY <1>1, SectorFacts DEF Image
<1>4. Buffered(b, o) = {b.file[o]}
  BY WriteFacts DEF Buffered
<1> QED BY <1>2, <1>3, <1>4 DEF ImageRecent

\* What a call that tried to write v to these offsets may leave.
Wrote(b, r, where, v) ==
    /\ IsFloppy(r.backend) /\ r.ok \in BOOLEAN /\ r.backend.file[0] = b.file[0]
    /\ r.ok => \A o \in Offsets :
          Put(r.backend.file, r.backend.buffer)[o] = IF o \in where THEN v ELSE Put(b.file, b.buffer)[o]
    /\ \A o \in Offsets :
          Buffered(r.backend, o) \subseteq Buffered(b, o) \union (IF o \in where THEN {v} ELSE {})

(* write_at of one value. *)
LEMMA OneWrite ==
    ASSUME NEW b, IsFloppy(b), NEW at \in Offsets, at # 0, NEW v \in Values,
           NEW r \in WriteAt(b, [o \in {at} |-> v])
    PROVE  Wrote(b, r, {at}, v)
<1> DEFINE write == [o \in {at} |-> v]
<1>1. write \in Writes /\ DOMAIN write = {at} /\ write[at] = v
  BY WriteFacts
<1>2. r \in WriteAt(b, write)
  OBVIOUS
<1> HIDE DEF write
<1>3. /\ IsBackend(r.backend) /\ r.ok \in BOOLEAN
      /\ r.backend.buffer \in {b.buffer, NoWrite, write}
      /\ r.ok => \A o \in Offsets :
            Put(r.backend.file, r.backend.buffer)[o]
               = IF o \in DOMAIN write THEN write[o] ELSE Put(b.file, b.buffer)[o]
      /\ \A o \in Offsets :
            r.backend.file[o] \in Buffered(b, o) \union (IF o \in DOMAIN write THEN {write[o]} ELSE {})
  BY <1>1, <1>2, WriteAtFacts DEF IsFloppy
<1>4. /\ r.ok => \A o \in Offsets :
            Put(r.backend.file, r.backend.buffer)[o] = IF o \in {at} THEN v ELSE Put(b.file, b.buffer)[o]
      /\ \A o \in Offsets : r.backend.file[o] \in Buffered(b, o) \union (IF o \in {at} THEN {v} ELSE {})
  BY <1>1, <1>3
<1>5. \A o \in DOMAIN r.backend.buffer :
         r.backend.buffer[o] \in Buffered(b, o) \union (IF o \in {at} THEN {v} ELSE {})
  BY <1>1, <1>3, WriteFacts DEF Buffered
<1>6. \A o \in Offsets :
         Buffered(r.backend, o) \subseteq Buffered(b, o) \union (IF o \in {at} THEN {v} ELSE {})
  BY <1>4, <1>5 DEF Buffered
<1>7. r.backend.file[0] = b.file[0] /\ 0 \notin DOMAIN r.backend.buffer
  BY <1>1, <1>3, <1>4, WriteFacts, FloppyFields DEF IsFloppy
<1>8. IsFloppy(r.backend)
  BY <1>3, <1>7, FloppyFields DEF IsFloppy
<1> QED BY <1>3, <1>4, <1>6, <1>7, <1>8 DEF Wrote

(* A sector and its retry copy, at the places of some shape. *)
LEMMA WriteBackFacts ==
    ASSUME NEW b, IsFloppy(b), NEW shape \in Shapes, NEW s \in FloppySectors, NEW v \in Values,
           NEW r \in WriteBack(b, Location(shape, s), v)
    PROVE  Wrote(b, r, Places(shape, s), v)
<1>1. PICK at \in Nat : at = Location(shape, s)
  BY PlacesFacts
<1>2. \A o \in Places(shape, s) : o \in Offsets /\ o # 0
  BY LayoutFacts
<1>3. r \in WriteBack(b, at, v)
  BY <1>1
<1>4. CASE Copies = 0
  <2>1. Places(shape, s) = {at}
    BY <1>1, <1>4, PlacesFacts
  <2>2. at \in Offsets /\ at # 0
    BY <1>2, <2>1
  <2>3. r \in WriteAt(b, [o \in {at} |-> v])
    BY <1>3, <1>4 DEF WriteBack
  <2>4. Wrote(b, r, {at}, v)
    BY <2>2, <2>3, OneWrite
  <2> QED BY <2>1, <2>4
<1>5. CASE Copies = 1
  <2>1. PICK next \in Nat : next = at + 1
    BY <1>1
  <2>2. Places(shape, s) = {at, next}
    BY <1>1, <1>5, <2>1, PlacesFacts
  <2>3. at \in Offsets /\ at # 0 /\ next \in Offsets /\ next # 0
    BY <1>2, <2>2
  <2>4. PICK q \in WriteAt(b, [o \in {at} |-> v]) :
           (r = q /\ ~q.ok) \/ (q.ok /\ r \in WriteAt(q.backend, [o \in {next} |-> v]))
    BY <1>3, <1>5, <2>1 DEF WriteBack
  <2>5. Wrote(b, q, {at}, v)
    BY <2>3, OneWrite
  <2>6. CASE r = q /\ ~q.ok
    BY <2>2, <2>5, <2>6 DEF Wrote
  <2>7. CASE q.ok /\ r \in WriteAt(q.backend, [o \in {next} |-> v])
    <3>1. IsFloppy(q.backend)
      BY <2>5 DEF Wrote
    <3>2. Wrote(q.backend, r, {next}, v)
      BY <2>3, <2>7, <3>1, OneWrite
    <3> QED BY <2>2, <2>5, <2>7, <3>2 DEF Wrote
  <2> QED BY <2>4, <2>6, <2>7
<1> QED BY <1>4, <1>5, FloppyAssumption

(* The re-emission: after Ok the image is parsed from the new file; after  *)
(* an error the old file is still there, or the image knows of the move.   *)
LEMMA ReplaceFloppy ==
    ASSUME NEW b, IsFloppy(b), NEW old \in Image, AtSome(old.at), old.shape \in Representable,
           moved \in BOOLEAN, NEW q \in Replace(b, old)
    PROVE  /\ IsFloppy(q.backend) /\ q.backend.buffer = NoWrite
           /\ q.ok \in BOOLEAN /\ q.moved \in BOOLEAN /\ (q.moved => ~q.ok)
           /\ q.image \in Image /\ AtSome(q.image.at) /\ q.image.data = old.data
           /\ q.ok => Holds(q.backend.file, q.image) /\ AtValid(q.image.at, q.backend.file[0])
           /\ ~q.ok => q.image = old
           /\ ~q.ok /\ ~q.moved => ~moved /\ \A o \in Offsets : q.backend.file[o] \in Buffered(b, o)
<1> DEFINE bytes == ToBytes(old.data, old.shape)
<1>1. PICK r \in ReplaceAtomic(b, bytes) :
         q = [backend |-> r.backend, image |-> IF r.ok THEN Parsed(bytes) ELSE old, ok |-> r.ok,
              moved |-> ~r.ok /\ (moved \/ r.backend = Shut(bytes))]
  BY DEF Replace
<1>2. /\ bytes \in Files /\ bytes[0] = old.shape
      /\ Parsed(bytes) \in Image /\ Parsed(bytes).data = old.data /\ Holds(bytes, Parsed(bytes))
      /\ AtValid(Parsed(bytes).at, old.shape) /\ AtSome(Parsed(bytes).at)
  BY Reparsed
<1> HIDE DEF bytes
<1>3. /\ IsBackend(r.backend) /\ r.ok \in BOOLEAN /\ r.backend.buffer = NoWrite
      /\ r.ok => r.backend.file = bytes
      /\ \A o \in Offsets : r.backend.file[o] \in Buffered(b, o) \union {bytes[o]}
      /\ ~r.ok /\ r.backend # Shut(bytes) => \A o \in Offsets : r.backend.file[o] \in Buffered(b, o)
  BY <1>2, FloppyFields, ReplaceFacts
<1>4. /\ q.backend = r.backend /\ q.ok = r.ok
      /\ q.image = IF r.ok THEN Parsed(bytes) ELSE old
      /\ q.moved = (~r.ok /\ (moved \/ r.backend = Shut(bytes)))
  BY <1>1
<1>5. IsFloppy(r.backend)
  <2>1. r.backend.file[0] \in {b.file[0], old.shape}
    BY <1>2, <1>3, FloppyFields
  <2> QED BY <1>3, <2>1, FloppyFields, WriteFacts DEF IsFloppy
<1> QED BY <1>2, <1>3, <1>4, <1>5

-----------------------------------------------------------------------------
(* One lemma for each action. *)
LEMMA StoredTypes ==
    ASSUME NEW data \in [FloppySectors -> Sector]
    PROVE  /\ [s \in FloppySectors |-> Stored(data[s])] \in [FloppySectors -> SUBSET Values]
           /\ ImageRecent(data, [s \in FloppySectors |-> Stored(data[s])])
<1>1. \A s \in FloppySectors : Stored(data[s]) \in SUBSET Values
  BY SectorFacts
<1> QED BY <1>1 DEF ImageRecent

LEMMA NotHeldBack ==
    ASSUME NEW b, IsBackend(b), b.buffer = NoWrite
    PROVE  Put(b.file, b.buffer) = b.file
  BY BackendFacts, WriteFacts, PutFacts

LEMMA InitFloppy == FloppyInit => FloppyInv
<1> SUFFICES ASSUME FloppyInit PROVE FloppyInv
  OBVIOUS
<1>1. PICK data \in [FloppySectors -> Sector], shape \in Representable :
         /\ image = Parsed(ToBytes(data, shape))
         /\ backend = Shut(ToBytes(data, shape))
         /\ since = [s \in FloppySectors |-> Stored(data[s])]
  BY DEF FloppyInit
<1> DEFINE f == ToBytes(data, shape)
           img == [shape |-> shape, data |-> data, at |-> [s \in FloppySectors |-> None]]
<1>2. img \in Image /\ img.shape = shape /\ img.data = data
  BY FloppyAssumption DEF Image
<1> HIDE DEF img
<1>3. /\ f \in Files /\ f[0] = shape /\ image \in Image /\ image.data = data
      /\ Holds(f, image) /\ AtValid(image.at, shape) /\ AtSome(image.at)
  BY <1>1, <1>2, Reparsed
<1>4. backend = Shut(f)
  BY <1>1
<1> HIDE DEF f
<1>5. IsBackend(backend) /\ backend.buffer = NoWrite /\ backend.file = f
  BY <1>3, <1>4, OpenFacts
<1>6. IsFloppy(backend)
  BY <1>3, <1>5, WriteFacts DEF IsFloppy
<1>7. since \in [FloppySectors -> SUBSET Values] /\ ImageRecent(image.data, since)
  BY <1>1, <1>3, StoredTypes
<1>8. FloppyTypes
  BY <1>3, <1>6, <1>7 DEF FloppyInit, FloppyTypes
<1>9. FloppyRecent
  BY <1>3, <1>5, <1>6, <1>7, HeldRecent DEF FloppyRecent
<1> QED BY <1>5, <1>8, <1>9
        DEF FloppyInit, FloppyInv, NoneBuffered, MovedIsDirty, FloppyClean, FloppyHonest

LEMMA MountFloppyInv == FloppyInv /\ MountFloppy => FloppyInv'
<1> SUFFICES ASSUME FloppyInv, MountFloppy PROVE FloppyInv'
  OBVIOUS
<1>1. /\ IsFloppy(backend) /\ IsBackend(backend) /\ backend.file \in Files
      /\ backend.file[0] \in Representable /\ backend.file[0] \in Shapes
      /\ backend.buffer = NoWrite
  BY FloppyFields DEF FloppyInv, FloppyTypes, NoneBuffered, MountFloppy
<1>2. /\ mode' \in {"file", "unwritable", "ram", "readonly"}
      /\ image' = Parsed(backend.file)
      /\ backend' = (IF mode' = "file" THEN Open(backend.file) ELSE backend)
      /\ dirty' = FALSE /\ synced' = FALSE /\ moved' = FALSE
      /\ since' = [s \in FloppySectors |-> Stored(image'.data[s])]
  BY FloppyAssumption DEF MountFloppy
<1>3. IsBackend(backend') /\ backend'.buffer = NoWrite /\ backend'.file = backend.file
  BY <1>1, <1>2, OpenFacts
<1>4. IsFloppy(backend')
  BY <1>1, <1>3, WriteFacts DEF IsFloppy
<1>5. /\ image' \in Image /\ Holds(backend'.file, image')
      /\ \A s \in FloppySectors : image'.at[s] = Location(backend'.file[0], s)
  BY <1>1, <1>2, <1>3, ParsedFacts
<1>6. AtSome(image'.at) /\ AtValid(image'.at, backend'.file[0])
  BY <1>1, <1>3, <1>5 DEF AtSome, AtValid
<1>7. since' \in [FloppySectors -> SUBSET Values] /\ ImageRecent(image'.data, since')
  <2>1. image'.data \in [FloppySectors -> Sector]
    BY <1>5 DEF Image
  <2>2. PICK data \in [FloppySectors -> Sector] : data = image'.data
    BY <2>1
  <2> QED BY <1>2, <2>2, StoredTypes
<1>8. FloppyTypes'
  BY <1>2, <1>4, <1>5, <1>6, <1>7 DEF FloppyTypes
<1>9. FloppyRecent'
  BY <1>3, <1>4, <1>5, <1>6, <1>7, HeldRecent DEF FloppyRecent
<1>10. FloppyClean'
  BY <1>3, <1>5, NotHeldBack DEF FloppyClean
<1> QED BY <1>2, <1>3, <1>8, <1>9, <1>10 DEF FloppyInv, NoneBuffered, MovedIsDirty, FloppyHonest

\* A sector of the image becomes full of v, and this is noted.
LEMMA HeldFacts ==
    ASSUME NEW data \in [FloppySectors -> Sector], NEW recent \in [FloppySectors -> SUBSET Values],
           ImageRecent(data, recent), NEW s \in FloppySectors, NEW v \in Values
    PROVE  LET filled == [data EXCEPT ![s] = Filled(v)]
               longer == [recent EXCEPT ![s] = @ \union {v}]
           IN  /\ filled \in [FloppySectors -> Sector] /\ longer \in [FloppySectors -> SUBSET Values]
               /\ ImageRecent(filled, longer) /\ v \in longer[s]
               /\ \A t \in FloppySectors : recent[t] \subseteq longer[t]
<1> DEFINE filled == [data EXCEPT ![s] = Filled(v)]
           more   == recent[s] \union {v}
           longer == [recent EXCEPT ![s] = more]
<1>1. more \in SUBSET Values
  OBVIOUS
<1>2. Filled(v) \in Sector /\ Stored(Filled(v)) \subseteq {v}
  BY FilledFacts
<1>3. longer \in [FloppySectors -> SUBSET Values] /\ \A t \in FloppySectors : longer[t] = IF t = s THEN more ELSE recent[t]
  BY <1>1
<1>4. filled \in [FloppySectors -> Sector] /\ \A t \in FloppySectors : filled[t] = IF t = s THEN Filled(v) ELSE data[t]
  BY <1>2
<1>5. ImageRecent(filled, longer)
  <2> HIDE DEF filled, longer
  <2> QED BY <1>2, <1>3, <1>4 DEF ImageRecent
<1> QED BY <1>3, <1>4, <1>5

LEMMA LongerRecent ==
    ASSUME NEW b, NEW recent, NEW longer, Recent(b, recent),
           \A t \in FloppySectors : recent[t] \subseteq longer[t]
    PROVE  Recent(b, longer)
  BY DEF Recent

LEMMA WriteSectorDataInv == FloppyInv /\ WriteSectorData => FloppyInv'
<1> SUFFICES ASSUME FloppyInv, WriteSectorData PROVE FloppyInv'
  OBVIOUS
<1>1. PICK s \in FloppySectors, v \in Values :
         /\ image' = [image EXCEPT !.data[s] = Filled(v)]
         /\ Held(s, v)
         /\ WriteThroughCopies(image.at[s], v)
  BY DEF WriteSectorData
<1>2. /\ IsFloppy(backend) /\ image \in Image /\ AtSome(image.at)
      /\ image.data \in [FloppySectors -> Sector] /\ dirty \in BOOLEAN /\ moved \in BOOLEAN
      /\ since \in [FloppySectors -> SUBSET Values] /\ ImageRecent(image.data, since)
  BY DEF FloppyInv, FloppyTypes, FloppyRecent, Image
<1>3. PICK data \in [FloppySectors -> Sector] : data = [image.data EXCEPT ![s] = Filled(v)]
  BY <1>2, FilledFacts
<1>4. image' = [image EXCEPT !.data = data]
  BY <1>1, <1>3
<1>5. image' \in Image /\ image'.data = data /\ image'.at = image.at /\ image'.shape = image.shape
  BY <1>2, <1>4 DEF Image
<1>6. /\ since' \in [FloppySectors -> SUBSET Values] /\ ImageRecent(data, since') /\ v \in since'[s]
      /\ \A t \in FloppySectors : since[t] \subseteq since'[t]
  BY <1>1, <1>2, <1>3, HeldFacts DEF Held
<1>7. synced' = FALSE /\ mode' = mode /\ moved' = moved /\ mode \notin {"out", "readonly"}
  BY DEF WriteSectorData, Writable
<1>8. CASE HasBackend /\ image.at[s] # None
  <2>1. PICK shape \in Shapes : image.at[s] = Location(shape, s)
    BY <1>2, <1>8 DEF AtSome
  <2>2. PICK r \in WriteBack(backend, Location(shape, s), v) :
           backend' = r.backend /\ dirty' = (dirty \/ ~r.ok)
    BY <1>1, <1>8, <2>1 DEF WriteThroughCopies
  <2>3. Wrote(backend, r, Places(shape, s), v)
    BY <1>2, WriteBackFacts
  <2>4. IsFloppy(backend') /\ r.ok \in BOOLEAN /\ backend'.file[0] = backend.file[0]
    BY <2>2, <2>3 DEF Wrote
  <2>5. ~moved => Location(shape, s) = Location(backend.file[0], s)
    BY <1>8, <2>1 DEF FloppyInv, FloppyRecent, AtValid
  <2>6. ~moved => Places(shape, s) = Places(backend.file[0], s)
    BY <2>5 DEF Places
  <2>7. FloppyTypes'
    BY <1>2, <1>5, <1>6, <1>7, <2>2, <2>4 DEF FloppyInv, FloppyTypes
  <2>8. ASSUME ~moved PROVE Recent(backend', since')
    <3> SUFFICES ASSUME NEW t \in FloppySectors, NEW o \in Places(backend.file[0], t)
                 PROVE  Buffered(backend', o) \subseteq since'[t]
      BY <2>4 DEF Recent
    <3>1. o \in Offsets /\ Buffered(backend, o) \subseteq since[t]
      BY <1>2, <2>8, FloppyFields, LayoutFacts DEF FloppyInv, FloppyRecent, Recent
    <3>2. o \in Places(shape, s) => t = s
      BY <1>2, <2>6, <2>8, FloppyFields, Apart
    <3>3. Buffered(backend', o) \subseteq Buffered(backend, o) \union (IF o \in Places(shape, s) THEN {v} ELSE {})
      BY <2>2, <2>3, <3>1 DEF Wrote
    <3> QED BY <1>6, <3>1, <3>2, <3>3
  <2>9. FloppyRecent'
    BY <1>5, <1>6, <1>7, <2>4, <2>8 DEF FloppyInv, FloppyRecent
  <2>10. FloppyClean'
    <3> SUFFICES ASSUME ~dirty' PROVE Holds(Put(backend'.file, backend'.buffer), image')
      BY DEF FloppyClean
    <3> DEFINE f == Put(backend.file, backend.buffer)
               g == Put(backend'.file, backend'.buffer)
    <3>1. r.ok /\ ~dirty /\ ~moved
      BY <1>2, <1>7, <2>2, <2>4 DEF FloppyInv, MovedIsDirty
    <3>2. Holds(f, image)
      BY <1>8, <3>1 DEF FloppyInv, FloppyClean, HasBackend
    <3>3. f[0] = backend.file[0] /\ g[0] = backend.file[0] /\ backend.file[0] \in Shapes
      BY <1>2, <2>4, FloppyFields
    <3>4. \A o \in Offsets : g[o] = IF o \in Places(backend.file[0], s) THEN v ELSE f[o]
      BY <2>2, <2>3, <2>6, <3>1 DEF Wrote
    <3> HIDE DEF f, g
    <3>5. ASSUME NEW t \in FloppySectors, NEW copy \in 0 .. Copies
          PROVE  data[t][copy] = g[Location(backend.file[0], t) + copy]
      <4> DEFINE o == Location(backend.file[0], t) + copy
      <4>1. o \in Places(backend.file[0], t) /\ o \in Offsets
        BY <3>3, LayoutFacts
      <4>2. image.data[t][copy] = f[o]
        BY <3>2, <3>3 DEF Holds
      <4> HIDE DEF o
      <4>3. CASE t = s
        BY <1>2, <1>3, <3>4, <4>1, <4>3, FilledFacts DEF o
      <4>4. CASE t # s
        <5>1. o \notin Places(backend.file[0], s)
          BY <3>3, <4>1, <4>4, Apart
        <5>2. data[t] = image.data[t]
          BY <1>2, <1>3, <4>4
        <5> QED BY <3>4, <4>1, <4>2, <5>1, <5>2 DEF o
      <4> QED BY <4>3, <4>4
    <3>6. image'.shape = g[0]
      BY <1>5, <3>2, <3>3 DEF Holds
    <3>7. Holds(g, image')
      BY <1>5, <3>3, <3>5, <3>6 DEF Holds
    <3> QED BY <3>7 DEF g
  <2> QED BY <1>2, <1>7, <1>8, <2>2, <2>4, <2>7, <2>9, <2>10
          DEF FloppyInv, NoneBuffered, MovedIsDirty, FloppyHonest, HasBackend
<1>9. CASE ~(HasBackend /\ image.at[s] # None)
  <2>1. dirty' = TRUE /\ backend' = backend
    BY <1>1, <1>9 DEF WriteThroughCopies
  <2>2. FloppyTypes'
    BY <1>2, <1>5, <1>6, <1>7, <2>1 DEF FloppyInv, FloppyTypes
  <2>3. FloppyRecent'
    BY <1>5, <1>6, <1>7, <2>1, LongerRecent DEF FloppyInv, FloppyRecent
  <2> QED BY <1>7, <2>1, <2>2, <2>3
          DEF FloppyInv, NoneBuffered, MovedIsDirty, FloppyClean, FloppyHonest
<1> QED BY <1>8, <1>9

LEMMA FormatFloppyTrackInv == FloppyInv /\ FormatFloppyTrack => FloppyInv'
<1> SUFFICES ASSUME FloppyInv, FormatFloppyTrack PROVE FloppyInv'
  OBVIOUS
<1>1. PICK s \in FloppySectors, shape \in Shapes :
         /\ Formatted([data  |-> [image.data EXCEPT ![s] = Filled(Fill)],
                       at    |-> [image.at EXCEPT ![s] = None],
                       shape |-> shape])
         /\ Held(s, Fill)
  BY DEF FormatFloppyTrack
<1>2. /\ IsFloppy(backend) /\ image \in Image /\ AtSome(image.at)
      /\ image.data \in [FloppySectors -> Sector]
      /\ image.at \in [FloppySectors -> Offsets \union {None}]
      /\ dirty \in BOOLEAN /\ moved \in BOOLEAN
      /\ since \in [FloppySectors -> SUBSET Values] /\ ImageRecent(image.data, since)
  BY DEF FloppyInv, FloppyTypes, FloppyRecent, Image
<1>3. Fill \in Values
  BY FloppyAssumption
<1>4. PICK data \in [FloppySectors -> Sector] : data = [image.data EXCEPT ![s] = Filled(Fill)]
  BY <1>2, <1>3, FilledFacts
<1>5. PICK at \in [FloppySectors -> Offsets \union {None}] : at = [image.at EXCEPT ![s] = None]
  BY <1>2
<1>6. PICK new \in Image : new = [data |-> data, at |-> at, shape |-> shape]
  BY DEF Image
<1>7. Formatted(new) /\ new.data = data /\ new.at = at /\ new.shape = shape
  BY <1>1, <1>4, <1>5, <1>6
<1>8. /\ AtSome(new.at)
      /\ ~moved => AtValid(new.at, backend.file[0])
  <2>1. \A t \in FloppySectors : at[t] = None \/ at[t] = image.at[t]
    BY <1>2, <1>5
  <2> QED BY <1>2, <1>7, <2>1 DEF FloppyInv, FloppyRecent, AtSome, AtValid
<1>9. /\ since' \in [FloppySectors -> SUBSET Values] /\ ImageRecent(data, since')
      /\ \A t \in FloppySectors : since[t] \subseteq since'[t]
  BY <1>1, <1>2, <1>3, <1>4, HeldFacts DEF Held
<1>10. synced' = FALSE /\ mode' = mode /\ mode \notin {"out", "readonly"}
  BY DEF FormatFloppyTrack, Writable
<1>11. CASE HasBackend /\ Lossless(shape)
  <2>1. PICK q \in Replace(backend, new) :
           backend' = q.backend /\ image' = q.image /\ dirty' = ~q.ok /\ moved' = q.moved
    BY <1>7, <1>11 DEF Formatted
  <2>2. shape \in Representable
    BY <1>11 DEF Lossless
  <2>3. /\ IsFloppy(q.backend) /\ q.backend.buffer = NoWrite
        /\ q.ok \in BOOLEAN /\ q.moved \in BOOLEAN /\ (q.moved => ~q.ok)
        /\ q.image \in Image /\ AtSome(q.image.at) /\ q.image.data = data
        /\ q.ok => Holds(q.backend.file, q.image) /\ AtValid(q.image.at, q.backend.file[0])
        /\ ~q.ok => q.image = new
        /\ ~q.ok /\ ~q.moved => ~moved /\ \A o \in Offsets : q.backend.file[o] \in Buffered(backend, o)
    BY <1>2, <1>7, <1>8, <2>2, ReplaceFloppy
  <2>4. FloppyTypes'
    BY <1>9, <1>10, <2>1, <2>3 DEF FloppyInv, FloppyTypes
  <2>5. ASSUME ~q.moved PROVE AtValid(q.image.at, q.backend.file[0]) /\ Recent(q.backend, since')
    <3>1. CASE q.ok
      BY <1>9, <2>3, <3>1, HeldRecent
    <3>2. CASE ~q.ok
      <4>1. /\ q.backend.file[0] = backend.file[0]
            /\ \A recent : Recent(backend, recent) => Recent(q.backend, recent)
        BY <1>2, <2>3, <2>5, <3>2, KeptShape DEF IsFloppy
      <4>2. Recent(backend, since')
        BY <1>9, <2>3, <2>5, <3>2, LongerRecent DEF FloppyInv, FloppyRecent
      <4> QED BY <1>8, <2>3, <2>5, <3>2, <4>1, <4>2
    <3> QED BY <2>3, <3>1, <3>2
  <2>6. FloppyRecent'
    BY <1>9, <2>1, <2>3, <2>5 DEF FloppyRecent
  <2>7. FloppyClean'
    <3> SUFFICES ASSUME ~dirty' PROVE Holds(Put(backend'.file, backend'.buffer), image')
      BY DEF FloppyClean
    <3>1. Put(q.backend.file, q.backend.buffer) = q.backend.file
      BY <2>3, NotHeldBack DEF IsFloppy
    <3> QED BY <2>1, <2>3, <3>1
  <2> QED BY <1>10, <2>1, <2>3, <2>4, <2>6, <2>7
          DEF FloppyInv, NoneBuffered, MovedIsDirty, FloppyHonest
<1>12. CASE ~(HasBackend /\ Lossless(shape))
  <2>1. image' = new /\ dirty' = TRUE /\ backend' = backend /\ moved' = moved
    BY <1>7, <1>12 DEF Formatted
  <2>2. FloppyTypes'
    BY <1>2, <1>8, <1>9, <1>10, <2>1 DEF FloppyInv, FloppyTypes
  <2>3. FloppyRecent'
    BY <1>7, <1>8, <1>9, <2>1, LongerRecent DEF FloppyInv, FloppyRecent
  <2> QED BY <1>10, <2>1, <2>2, <2>3
          DEF FloppyInv, NoneBuffered, MovedIsDirty, FloppyClean, FloppyHonest
<1> QED BY <1>11, <1>12

(* flush with a backend, and what is recent after it. *)
LEMMA FlushedFacts ==
    ASSUME FloppyInv, HasBackend, NEW r \in FlushFloppyBackend, Flushed(r)
    PROVE  /\ IsFloppy(r.backend) /\ r.ok \in BOOLEAN /\ r.dirty = ~r.ok
           /\ r.moved \in BOOLEAN /\ (r.moved => ~r.ok)
           /\ image' \in Image /\ AtSome(image'.at)
           /\ since' \in [FloppySectors -> SUBSET Values] /\ ImageRecent(image'.data, since')
           /\ ~r.moved => AtValid(image'.at, r.backend.file[0]) /\ Recent(r.backend, since')
           /\ r.ok => r.backend.buffer = NoWrite /\ Holds(r.backend.file, image')
<1>1. /\ IsFloppy(backend) /\ IsBackend(backend) /\ image \in Image /\ AtSome(image.at)
      /\ image.data \in [FloppySectors -> Sector]
      /\ dirty \in BOOLEAN /\ moved \in BOOLEAN /\ (moved => dirty)
      /\ since \in [FloppySectors -> SUBSET Values] /\ ImageRecent(image.data, since)
      /\ ~moved => AtValid(image.at, backend.file[0]) /\ Recent(backend, since)
      /\ ~dirty => Holds(Put(backend.file, backend.buffer), image)
  BY DEF FloppyInv, FloppyTypes, FloppyRecent, MovedIsDirty, FloppyClean, HasBackend, Image, IsFloppy
<1>2. PICK q \in (IF ~dirty THEN {Kept(TRUE)}
                  ELSE IF Lossless(image.shape) THEN Replace(backend, image)
                  ELSE {Kept(FALSE)}) : \E flushed \in Flush(q.backend) :
         r = [backend |-> flushed.backend, image |-> q.image,
              ok |-> q.ok /\ flushed.ok, moved |-> q.moved,
              dirty |-> (dirty /\ ~q.ok) \/ ~flushed.ok]
  BY DEF FlushFloppyBackend
<1>2a. PICK flushed \in Flush(q.backend) :
         r = [backend |-> flushed.backend, image |-> q.image,
              ok |-> q.ok /\ flushed.ok, moved |-> q.moved,
              dirty |-> (dirty /\ ~q.ok) \/ ~flushed.ok]
  BY <1>2
<1>3. /\ r.backend = flushed.backend /\ r.image = q.image /\ r.ok = (q.ok /\ flushed.ok)
      /\ r.moved = q.moved /\ r.dirty = ((dirty /\ ~q.ok) \/ ~flushed.ok)
  BY <1>2, <1>2a
<1>4. image' = q.image
  BY <1>3 DEF Flushed
<1>5. /\ r.ok \in BOOLEAN
      /\ since' = [s \in FloppySectors |-> IF r.ok THEN Stored(image.data[s]) ELSE since[s]]
  BY <1>3 DEF Flushed
<1>6. /\ since' \in [FloppySectors -> SUBSET Values] /\ ImageRecent(image.data, since')
      /\ ~r.ok => since' = since
  <2>1. CASE r.ok
    <3>1. since' = [s \in FloppySectors |-> Stored(image.data[s])]
      BY <1>5, <2>1
    <3> QED BY <1>1, <2>1, <3>1, StoredTypes
  <2>2. CASE ~r.ok
    <3>1. since' = since
      BY <1>1, <1>5, <2>2
    <3> QED BY <1>1, <3>1
  <2> QED BY <1>5, <2>1, <2>2
\* Nothing but the buffer is written: by a clean image, and by one its file cannot hold.
<1>7. ASSUME q.backend = backend, q.image = image, q.moved = moved, q.ok = ~dirty
      PROVE  /\ IsFloppy(r.backend) /\ r.dirty = ~r.ok /\ (r.moved => ~r.ok)
             /\ ~r.moved => AtValid(image'.at, r.backend.file[0]) /\ Recent(r.backend, since')
             /\ r.ok => r.backend.buffer = NoWrite /\ Holds(r.backend.file, image')
  <2>1. flushed \in Flush(backend)
    BY <1>2, <1>2a, <1>7
  <2>2. /\ IsBackend(flushed.backend) /\ flushed.ok \in BOOLEAN
        /\ flushed.ok => flushed.backend.buffer = NoWrite /\ flushed.backend.file = Put(backend.file, backend.buffer)
        /\ ~flushed.ok => flushed.backend.buffer = backend.buffer
        /\ \A o \in Offsets : flushed.backend.file[o] \in Buffered(backend, o)
    BY <1>1, <2>1, FlushFacts
  <2>3. /\ IsFloppy(flushed.backend) /\ flushed.backend.file[0] = backend.file[0]
        /\ \A recent : Recent(backend, recent) => Recent(flushed.backend, recent)
    BY <1>1, <2>2, KeptShape
  <2>4. r.dirty = ~r.ok /\ (r.ok => ~dirty /\ flushed.ok) /\ (r.moved => ~r.ok)
    BY <1>1, <1>3, <1>7, <2>2
  <2>5. r.ok => r.backend.buffer = NoWrite /\ Holds(r.backend.file, image')
    BY <1>1, <1>3, <1>4, <1>7, <2>2, <2>4
  <2>6. ~r.moved => AtValid(image'.at, r.backend.file[0])
    BY <1>1, <1>3, <1>4, <1>7, <2>3
  <2>7. ~r.moved => Recent(r.backend, since')
    <3>1. CASE r.ok
      BY <1>1, <1>3, <1>4, <1>6, <1>7, <2>3, <2>5, <3>1, HeldRecent
    <3>2. CASE ~r.ok
      BY <1>1, <1>3, <1>6, <1>7, <2>3, <3>2
    <3> QED BY <1>5, <3>1, <3>2
  <2> QED BY <1>3, <2>3, <2>4, <2>5, <2>6, <2>7
<1>8. CASE ~dirty \/ (dirty /\ ~Lossless(image.shape))
  <2>1. q = Kept(~dirty)
    BY <1>1, <1>2, <1>2a, <1>8
  <2>2. q.backend = backend /\ q.image = image /\ q.moved = moved /\ q.ok = ~dirty
    BY <2>1 DEF Kept
  <2> QED BY <1>1, <1>3, <1>4, <1>5, <1>6, <1>7, <2>2
<1>9. CASE dirty /\ Lossless(image.shape)
  <2>1. q \in Replace(backend, image) /\ image.shape \in Representable
    BY <1>2, <1>2a, <1>9 DEF Lossless
  <2>2. /\ IsFloppy(q.backend) /\ q.backend.buffer = NoWrite
        /\ q.ok \in BOOLEAN /\ q.moved \in BOOLEAN /\ (q.moved => ~q.ok)
        /\ q.image \in Image /\ AtSome(q.image.at) /\ q.image.data = image.data
        /\ q.ok => Holds(q.backend.file, q.image) /\ AtValid(q.image.at, q.backend.file[0])
        /\ ~q.ok => q.image = image
        /\ ~q.ok /\ ~q.moved => ~moved /\ \A o \in Offsets : q.backend.file[o] \in Buffered(backend, o)
    BY <1>1, <2>1, ReplaceFloppy
  <2>3. /\ IsBackend(flushed.backend) /\ flushed.ok = TRUE
        /\ flushed.backend.buffer = NoWrite /\ flushed.backend.file = q.backend.file
    BY <1>2, <1>2a, <2>2, FlushFacts DEF IsFloppy
  <2>4. IsFloppy(r.backend) /\ r.backend.file = q.backend.file /\ r.backend.buffer = NoWrite
    BY <1>3, <2>2, <2>3 DEF IsFloppy
  <2>5. r.ok = q.ok /\ r.dirty = ~r.ok
    BY <1>3, <1>9, <2>2, <2>3
  <2>6. ASSUME ~r.moved PROVE AtValid(image'.at, r.backend.file[0]) /\ Recent(r.backend, since')
    <3>1. CASE r.ok
      BY <1>4, <1>6, <2>2, <2>4, <2>5, <3>1, HeldRecent
    <3>2. CASE ~r.ok
      <4>1. ~moved /\ \A o \in Offsets : r.backend.file[o] \in Buffered(backend, o)
        BY <1>3, <2>2, <2>4, <2>5, <2>6, <3>2
      <4>2. /\ r.backend.file[0] = backend.file[0]
            /\ \A recent : Recent(backend, recent) => Recent(r.backend, recent)
        BY <1>1, <2>4, <4>1, KeptShape DEF IsFloppy
      <4> QED BY <1>1, <1>4, <1>6, <2>2, <2>5, <3>2, <4>1, <4>2
    <3> QED BY <1>5, <3>1, <3>2
  <2> QED BY <1>3, <1>4, <1>5, <1>6, <2>2, <2>4, <2>5, <2>6
<1> QED BY <1>1, <1>8, <1>9

LEMMA FlushFloppyInv == FloppyInv /\ FlushFloppy => FloppyInv'
<1> SUFFICES ASSUME FloppyInv, FlushFloppy PROVE FloppyInv'
  OBVIOUS
<1>0. mode' = mode
  BY DEF FlushFloppy
<1>1. CASE HasBackend
  <2>1. PICK r \in FlushFloppyBackend : Flushed(r) /\ backend' = r.backend /\ dirty' = r.dirty
    BY <1>1 DEF FlushFloppy
  <2>2. synced' = r.ok /\ moved' = r.moved
    BY <2>1 DEF Flushed
  <2>3. /\ IsFloppy(backend') /\ synced' \in BOOLEAN /\ dirty' = ~synced'
        /\ moved' \in BOOLEAN /\ (moved' => ~synced')
        /\ image' \in Image /\ AtSome(image'.at)
        /\ since' \in [FloppySectors -> SUBSET Values] /\ ImageRecent(image'.data, since')
        /\ ~moved' => AtValid(image'.at, backend'.file[0]) /\ Recent(backend', since')
        /\ synced' => backend'.buffer = NoWrite /\ Holds(backend'.file, image')
    BY <1>1, <2>1, <2>2, FlushedFacts
  <2>4. FloppyTypes' /\ FloppyRecent'
    BY <1>0, <2>3 DEF FloppyInv, FloppyTypes, FloppyRecent
  <2>5. FloppyClean'
    BY <2>3, NotHeldBack DEF FloppyClean, IsFloppy
  <2> QED BY <1>0, <1>1, <2>3, <2>4, <2>5
          DEF FloppyInv, NoneBuffered, MovedIsDirty, FloppyHonest, HasBackend
<1>2. CASE ~HasBackend
  <2>1. /\ image' = image /\ backend' = backend /\ dirty' = dirty /\ since' = since /\ moved' = moved
        /\ synced' = (mode \in {"unwritable", "readonly"} /\ ~dirty)
    BY <1>2 DEF FlushFloppy
  <2>2. FloppyTypes' /\ NoneBuffered' /\ FloppyRecent' /\ MovedIsDirty' /\ FloppyClean'
    BY <1>0, <2>1 DEF FloppyInv, FloppyTypes, NoneBuffered, FloppyRecent, MovedIsDirty, FloppyClean
  <2>3. Put(backend.file, backend.buffer) = backend.file
    BY <1>2, NotHeldBack DEF FloppyInv, FloppyTypes, IsFloppy, NoneBuffered, HasBackend
  <2>4. FloppyHonest'
    BY <2>1, <2>3 DEF FloppyInv, FloppyClean, FloppyHonest
  <2> QED BY <2>2, <2>4 DEF FloppyInv
<1> QED BY <1>1, <1>2

LEMMA EjectFloppyInv == FloppyInv /\ EjectFloppy => FloppyInv'
<1> SUFFICES ASSUME FloppyInv, EjectFloppy PROVE FloppyInv'
  OBVIOUS
<1>0. mode' = "out" /\ dirty' = FALSE
  BY DEF EjectFloppy
<1>1. CASE HasBackend
  <2>1. PICK r \in FlushFloppyBackend :
           Flushed(r) /\ \E file \in Dropped(r.backend) : backend' = Shut(file)
    BY <1>1 DEF EjectFloppy
  <2>2. synced' = r.ok /\ moved' = r.moved
    BY <2>1 DEF Flushed
  <2>3. /\ IsFloppy(r.backend) /\ synced' \in BOOLEAN /\ moved' \in BOOLEAN
        /\ image' \in Image /\ AtSome(image'.at)
        /\ since' \in [FloppySectors -> SUBSET Values] /\ ImageRecent(image'.data, since')
        /\ ~moved' => AtValid(image'.at, r.backend.file[0]) /\ Recent(r.backend, since')
        /\ synced' => r.backend.buffer = NoWrite /\ Holds(r.backend.file, image')
    BY <1>1, <2>1, <2>2, FlushedFacts
  <2>4. PICK file \in Dropped(r.backend) : backend' = Shut(file)
    BY <2>1
  <2>5. /\ file \in Files
        /\ r.backend.buffer = NoWrite => file = r.backend.file
        /\ \A o \in Offsets : file[o] \in Buffered(r.backend, o)
    BY <2>3, DroppedFacts DEF IsFloppy
  <2>6. IsBackend(backend') /\ backend'.buffer = NoWrite /\ backend'.file = file
    BY <2>4, <2>5, OpenFacts
  <2>7. /\ IsFloppy(backend') /\ backend'.file[0] = r.backend.file[0]
        /\ \A recent : Recent(r.backend, recent) => Recent(backend', recent)
    BY <2>3, <2>5, <2>6, KeptShape
  <2>8. FloppyTypes' /\ FloppyRecent'
    BY <1>0, <2>3, <2>7 DEF FloppyTypes, FloppyRecent
  <2> QED BY <1>0, <2>3, <2>5, <2>6, <2>8
          DEF FloppyInv, NoneBuffered, MovedIsDirty, FloppyClean, FloppyHonest
<1>2. CASE ~HasBackend
  <2>1. synced' = FALSE /\ image' = image /\ backend' = backend /\ since' = since /\ moved' = moved
    BY <1>2 DEF EjectFloppy
  <2> QED BY <1>0, <1>2, <2>1
          DEF FloppyInv, FloppyTypes, NoneBuffered, FloppyRecent, MovedIsDirty, FloppyClean,
              FloppyHonest, HasBackend
<1> QED BY <1>1, <1>2

LEMMA DieWithFloppyInv == FloppyInv /\ DieWithFloppy => FloppyInv'
<1> SUFFICES ASSUME FloppyInv, DieWithFloppy PROVE FloppyInv'
  OBVIOUS
<1>1. /\ mode' = "out" /\ dirty' = FALSE /\ synced' = FALSE
      /\ image' = image /\ since' = since /\ moved' = moved
      /\ backend' = Shut(backend.file)
  BY DEF DieWithFloppy
<1>2. IsFloppy(backend) /\ backend.file \in Files
  BY FloppyFields DEF FloppyInv, FloppyTypes
<1>3. IsBackend(backend') /\ backend'.buffer = NoWrite /\ backend'.file = backend.file
  BY <1>1, <1>2, OpenFacts
<1>4. \A o \in Offsets : backend'.file[o] \in Buffered(backend, o)
  BY <1>3 DEF Buffered
<1>5. /\ IsFloppy(backend') /\ backend'.file[0] = backend.file[0]
      /\ \A recent : Recent(backend, recent) => Recent(backend', recent)
  BY <1>2, <1>3, <1>4, KeptShape
<1>6. FloppyTypes' /\ FloppyRecent'
  BY <1>1, <1>5 DEF FloppyInv, FloppyTypes, FloppyRecent
<1> QED BY <1>1, <1>3, <1>6 DEF FloppyInv, NoneBuffered, MovedIsDirty, FloppyClean, FloppyHonest

-----------------------------------------------------------------------------
LEMMA FloppyInvariance == FloppySpec => []FloppyInv
<1>1. FloppyInit => FloppyInv
  BY InitFloppy
<1>2. FloppyInv /\ [FloppyNext]_floppyVars => FloppyInv'
  <2> SUFFICES ASSUME FloppyInv, [FloppyNext]_floppyVars PROVE FloppyInv'
    OBVIOUS
  <2>1. CASE UNCHANGED floppyVars
    BY <2>1 DEF floppyVars, FloppyInv, FloppyTypes, NoneBuffered, FloppyRecent, MovedIsDirty,
                FloppyClean, FloppyHonest
  <2>2. CASE FloppyNext
    BY <2>2, MountFloppyInv, WriteSectorDataInv, FormatFloppyTrackInv, FlushFloppyInv,
       EjectFloppyInv, DieWithFloppyInv DEF FloppyNext
  <2> QED BY <2>1, <2>2
<1> QED BY <1>1, <1>2, PTL DEF FloppySpec

(* Whatever write, seek, rename or open of the floppy's file fails, and    *)
(* wherever the process dies, each copy of a sector in the file is a value *)
(* of this sector since the last flush that returned Ok, or of that flush, *)
(* and write-through goes to the sector's own place; unless the file was   *)
(* replaced and could not be opened again.                                 *)
THEOREM FloppyFileStaysRecent == FloppySpec => []FloppyFileIsRecent
<1>1. ASSUME FloppyInv, ~moved
      PROVE  /\ OffsetsStayValid
             /\ \A s \in FloppySectors : \A o \in Places(backend.file[0], s) : backend.file[o] \in since[s]
  <2>1. AtValid(image.at, backend.file[0]) /\ Recent(backend, since)
    BY <1>1 DEF FloppyInv, FloppyRecent
  <2> QED BY <2>1 DEF OffsetsStayValid, AtValid, Recent, Buffered
<1>2. FloppyInv => FloppyFileIsRecent
  BY <1>1 DEF FloppyFileIsRecent
<1> QED BY <1>2, FloppyInvariance, PTL

(* MountedFloppy::flush and eject return Ok only if parsing the file gives *)
(* the image's shape and every copy of its sectors, whatever failed before *)
(* and also after a move of the sectors that the image was not told of.    *)
THEOREM FloppyFlushStaysHonest == FloppySpec => []FloppyFlushIsHonest
<1>1. ASSUME FloppyInv, synced
      PROVE  Parsed(backend.file).shape = image.shape /\ Parsed(backend.file).data = image.data
  <2>1. Holds(backend.file, image) /\ image \in Image /\ IsFloppy(backend)
    BY <1>1 DEF FloppyInv, FloppyTypes, FloppyHonest
  <2> QED BY <2>1, FloppyFields, ParsedFacts DEF Holds
<1>2. FloppyInv => FloppyFlushIsHonest
  BY <1>1 DEF FloppyFlushIsHonest
<1> QED BY <1>2, FloppyInvariance, PTL
=============================================================================
