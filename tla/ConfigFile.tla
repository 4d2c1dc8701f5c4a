----------------------------- MODULE ConfigFile -----------------------------
(***************************************************************************)
(* The life of one configuration file that several editors (processes of   *)
(* neetan) and other programs read and write: read_document, write_file,   *)
(* create_document and write_atomically of                                 *)
(* crates/user_interface/src/{editor/save,editor/file,config/atomic_file}. *)
(*                                                                         *)
(* Every call to the file system is a step.  The path is the end of its    *)
(* chain of links and its folder exists.  A stamp is the file and how      *)
(* often it was written: two writes never leave the same time and length.  *)
(***************************************************************************)
EXTENDS Naturals, FiniteSets

CONSTANTS
    Editors,
    Exists,       \* is there a file at first? the answers to check
    MaxFiles,     \* bound: files ever created
    MaxTexts,     \* bound: texts ever written by anyone
    MaxReads,     \* MAXIMUM_READ_ATTEMPTS
    Overwrites,   \* may a user ask to write over a change?
    Outsiders,    \* does another program write the file in place? the answers to check
    PowerLoss,    \* may the machine lose power, where no other program writes?
    IoErrors,     \* may a call of a save fail?
    None

ASSUME ConfigAssumption ==
    /\ IsFiniteSet(Editors) /\ MaxFiles \in Nat \ {0} /\ MaxTexts \in Nat \ {0}
    /\ MaxReads \in Nat \ {0}
    /\ Exists \subseteq BOOLEAN /\ Outsiders \subseteq BOOLEAN
    /\ {Overwrites, PowerLoss, IoErrors} \subseteq BOOLEAN
    /\ None \notin Nat

Empty  == 0                 \* the text of a new file
Torn   == MaxTexts + 1      \* a part of a text
Texts  == 0 .. MaxTexts
Inodes == 1 .. MaxFiles

VARIABLES
    path,        \* the file at the path, or None
    outsiders,   \* the answer for this behaviour
    outside,     \* the file another program is writing, or None
    files,       \* the text and the number of writes of every file
    used, texts, \* how many files and texts there were
    \* what a loss of power can bring back
    synced,      \* files whose text is on the disk
    entries,     \* what the path named since its folder was flushed
    \* every editor
    pc, doc, stamp, handle, before, bytes, reads,
    overwrite, creating, temporary, replaced  \* replaced: history

fsVars == <<path, outside, files, used, texts, synced, entries>>
readVars == <<doc, stamp, handle, before, bytes, reads>>
saveVars == <<overwrite, creating, temporary, replaced>>
vars == <<outsiders, fsVars, pc, readVars, saveVars>>

StampOf(f) == IF f = None THEN None ELSE [file |-> f, writes |-> files[f].writes]

Init ==
    /\ \E exists \in Exists :
          path = (IF exists THEN 1 ELSE None) /\ used = (IF exists THEN 1 ELSE 0)
    /\ outsiders \in Outsiders /\ outside = None
    /\ files = [f \in Inodes |-> [text |-> Empty, writes |-> 0]]
    /\ texts = 0
    /\ synced = Inodes /\ entries = {path}
    /\ pc = [p \in Editors |-> "closed"]
    /\ doc = [p \in Editors |-> Empty] /\ stamp = [p \in Editors |-> None]
    /\ handle = [p \in Editors |-> None] /\ before = [p \in Editors |-> None]
    /\ bytes = [p \in Editors |-> Empty] /\ reads = [p \in Editors |-> 0]
    /\ overwrite = [p \in Editors |-> FALSE] /\ creating = [p \in Editors |-> FALSE]
    /\ temporary = [p \in Editors |-> None] /\ replaced = [p \in Editors |-> None]

Goes(p, to) == pc' = [pc EXCEPT ![p] = to]

(* The locals of the read and of the save of p are gone when it returns.    *)
ReadReturns(p) ==
    /\ handle' = [handle EXCEPT ![p] = None] /\ before' = [before EXCEPT ![p] = None]
    /\ bytes' = [bytes EXCEPT ![p] = Empty] /\ reads' = [reads EXCEPT ![p] = 0]
SaveReturns(p) ==
    /\ Goes(p, "open")
    /\ overwrite' = [overwrite EXCEPT ![p] = FALSE] /\ creating' = [creating EXCEPT ![p] = FALSE]
    /\ temporary' = [temporary EXCEPT ![p] = None] /\ replaced' = [replaced EXCEPT ![p] = None]

Links(f) == path' = f /\ entries' = entries \union {f}
Write(f, text) == files' = [files EXCEPT ![f] = [text |-> text, writes |-> @.writes + 1]]

-----------------------------------------------------------------------------
(* read_optional_document *)

OpenMissing(p) ==
    /\ pc[p] = "closed" /\ path = None
    /\ Goes(p, "open")
    /\ doc' = [doc EXCEPT ![p] = Empty] /\ stamp' = [stamp EXCEPT ![p] = None]
    /\ UNCHANGED <<fsVars, handle, before, bytes, reads, saveVars>>

OpenFile(p) ==
    /\ pc[p] = "closed" /\ path # None
    /\ Goes(p, "before")
    /\ handle' = [handle EXCEPT ![p] = path] /\ reads' = [reads EXCEPT ![p] = 0]
    /\ UNCHANGED <<fsVars, doc, stamp, before, bytes, saveVars>>

StampBefore(p) ==
    /\ pc[p] = "before"
    /\ Goes(p, "bytes")
    /\ before' = [before EXCEPT ![p] = StampOf(handle[p])]
    /\ reads' = [reads EXCEPT ![p] = @ + 1]
    /\ UNCHANGED <<fsVars, doc, stamp, handle, bytes, saveVars>>

ReadBytes(p) ==
    /\ pc[p] = "bytes"
    /\ Goes(p, "after")
    /\ bytes' = [bytes EXCEPT ![p] = files[handle[p]].text]
    /\ UNCHANGED <<fsVars, doc, stamp, handle, before, reads, saveVars>>

(* Mutant: the stamp is taken after the read and not compared. *)
StampAfterOnly(p) ==
    /\ pc[p] = "after"
    /\ Goes(p, "open")
    /\ doc' = [doc EXCEPT ![p] = bytes[p]]
    /\ stamp' = [stamp EXCEPT ![p] = StampOf(handle[p])]
    /\ ReadReturns(p)
    /\ UNCHANGED <<fsVars, saveVars>>

(* The same stamp again: the document is complete.  Otherwise once more,   *)
(* or KeptWriting.                                                         *)
StampAfter(p) ==
    /\ pc[p] = "after"
    /\ \/ /\ StampOf(handle[p]) = before[p]
          /\ Goes(p, "open")
          /\ doc' = [doc EXCEPT ![p] = bytes[p]] /\ stamp' = [stamp EXCEPT ![p] = before[p]]
          /\ ReadReturns(p)
       \/ /\ StampOf(handle[p]) # before[p] /\ reads[p] < MaxReads
          /\ Goes(p, "before")
          /\ UNCHANGED readVars
       \/ /\ StampOf(handle[p]) # before[p] /\ reads[p] = MaxReads
          /\ Goes(p, "closed") /\ ReadReturns(p)
          /\ UNCHANGED <<doc, stamp>>
    /\ UNCHANGED <<fsVars, saveVars>>

CloseEditor(p) ==
    /\ pc[p] = "open"
    /\ Goes(p, "closed")
    /\ doc' = [doc EXCEPT ![p] = Empty] /\ stamp' = [stamp EXCEPT ![p] = None]
    /\ UNCHANGED <<fsVars, handle, before, bytes, reads, saveVars>>

-----------------------------------------------------------------------------
(* write_file of an existing or optional file, with a new text in the form *)

(* A changed stamp is ChangedOutside and leaves the editor open.           *)
CheckStamp(p) ==
    /\ pc[p] = "open" /\ texts < MaxTexts
    /\ \E over \in BOOLEAN :
          /\ over => Overwrites
          /\ over \/ StampOf(path) = stamp[p]
          /\ overwrite' = [overwrite EXCEPT ![p] = over]
          /\ creating' = [creating EXCEPT ![p] = ~over /\ stamp[p] = None]
          /\ Goes(p, IF ~over /\ stamp[p] = None THEN "reserve" ELSE "create")
    /\ UNCHANGED <<fsVars, readVars, temporary, replaced>>

(* Mutant: the reservation is opened without create_new. *)
ReserveAnyway(p) ==
    /\ pc[p] = "reserve"
    /\ IF path = None
       THEN /\ used < MaxFiles /\ used' = used + 1
            /\ Links(used') /\ synced' = synced \ {used'}
       ELSE UNCHANGED <<path, entries, used, synced>>
    /\ Goes(p, "create")
    /\ UNCHANGED <<outside, files, texts, readVars, saveVars>>

(* reserve_and_fill: create_new succeeds for one process only.             *)
Reserve(p) ==
    /\ pc[p] = "reserve"
    /\ \/ /\ path = None /\ used < MaxFiles
          /\ used' = used + 1
          /\ Links(used') /\ synced' = synced \ {used'}
          /\ Goes(p, "create") /\ UNCHANGED saveVars
       \/ /\ path # None \/ IoErrors
          /\ SaveReturns(p) /\ UNCHANGED <<path, entries, used, synced>>
    /\ UNCHANGED <<outside, files, texts, readVars>>

(* write_atomically from here on.  File::create of the temporary file.     *)
CreateTemporary(p) ==
    /\ pc[p] = "create" /\ used < MaxFiles
    /\ used' = used + 1
    /\ synced' = synced \ {used'}
    /\ temporary' = [temporary EXCEPT ![p] = used']
    /\ Goes(p, "write")
    /\ UNCHANGED <<path, outside, files, texts, entries, readVars, overwrite, creating, replaced>>

(* write_all *)
WriteAll(p) ==
    /\ pc[p] = "write" /\ texts < MaxTexts
    /\ texts' = texts + 1
    /\ Write(temporary[p], texts')
    /\ Goes(p, "sync")
    /\ UNCHANGED <<path, outside, used, synced, entries, readVars, saveVars>>

(* Mutant: the temporary file is not flushed before the rename. *)
SkipSync(p) ==
    /\ pc[p] = "sync"
    /\ Goes(p, "rename")
    /\ UNCHANGED <<fsVars, readVars, saveVars>>

SyncAll(p) ==
    /\ pc[p] = "sync"
    /\ synced' = synced \union {temporary[p]}
    /\ Goes(p, "rename")
    /\ UNCHANGED <<path, outside, files, used, texts, entries, readVars, saveVars>>

Rename(p) ==
    /\ pc[p] = "rename"
    /\ replaced' = [replaced EXCEPT ![p] = StampOf(path)]
    /\ Links(temporary[p])
    /\ Goes(p, "folder")
    /\ UNCHANGED <<outside, files, used, texts, synced, readVars, overwrite, creating, temporary>>

(* sync_folder, a best effort; the editor then holds what it wrote and the *)
(* stamp of the temporary file.                                            *)
SyncFolder(p) ==
    /\ pc[p] = "folder"
    /\ \/ entries' = {path}
       \/ IoErrors /\ UNCHANGED entries
    /\ doc' = [doc EXCEPT ![p] = files[temporary[p]].text]
    /\ stamp' = [stamp EXCEPT ![p] = StampOf(temporary[p])]
    /\ SaveReturns(p)
    /\ UNCHANGED <<path, outside, files, used, texts, synced, handle, before, bytes, reads>>

(* Any of these calls may fail, write_all in the middle of the text.       *)
SaveFails(p) ==
    /\ IoErrors
    /\ \/ pc[p] \in {"create", "sync", "rename"} /\ UNCHANGED files
       \/ pc[p] = "write" /\ Write(temporary[p], Torn)
    /\ Goes(p, "remove")
    /\ UNCHANGED <<path, outside, used, texts, synced, entries, readVars, saveVars>>

RemoveTemporary(p) ==
    /\ pc[p] = "remove"
    /\ \/ /\ creating[p]
          /\ Goes(p, "unreserve") /\ temporary' = [temporary EXCEPT ![p] = None]
          /\ UNCHANGED <<overwrite, creating, replaced>>
       \/ ~creating[p] /\ SaveReturns(p)
    /\ UNCHANGED <<fsVars, readVars>>

(* The reservation is removed by its name. *)
RemoveReservation(p) ==
    /\ pc[p] = "unreserve"
    /\ Links(None)
    /\ SaveReturns(p)
    /\ UNCHANGED <<outside, files, used, texts, synced, readVars>>

-----------------------------------------------------------------------------
(* External: another program writes the file in place, in two parts.       *)
OutsideBegins ==
    /\ outsiders /\ outside = None /\ path # None /\ texts < MaxTexts
    /\ outside' = path
    /\ Write(path, Torn)
    /\ UNCHANGED <<path, used, texts, synced, entries, pc, readVars, saveVars>>

OutsideEnds ==
    /\ outside # None /\ texts < MaxTexts
    /\ outside' = None /\ texts' = texts + 1
    /\ Write(outside, texts')
    /\ UNCHANGED <<path, used, synced, entries, pc, readVars, saveVars>>

(* External: power is lost.  The path names something it named since the   *)
(* folder was flushed, and a file that was not flushed may hold a part.    *)
LosePower ==
    /\ PowerLoss /\ ~outsiders
    /\ \E f \in entries, lost \in SUBSET {g \in Inodes \ synced : files[g].text # Empty} :
          /\ path' = f /\ entries' = {f}
          /\ files' = [g \in Inodes |->
                         IF g \in lost THEN [files[g] EXCEPT !.text = Torn] ELSE files[g]]
    /\ synced' = Inodes
    /\ pc' = [p \in Editors |-> "closed"]
    /\ doc' = [p \in Editors |-> Empty] /\ stamp' = [p \in Editors |-> None]
    /\ handle' = [p \in Editors |-> None] /\ before' = [p \in Editors |-> None]
    /\ bytes' = [p \in Editors |-> Empty] /\ reads' = [p \in Editors |-> 0]
    /\ overwrite' = [p \in Editors |-> FALSE] /\ creating' = [p \in Editors |-> FALSE]
    /\ temporary' = [p \in Editors |-> None] /\ replaced' = [p \in Editors |-> None]
    /\ outside' = None
    /\ UNCHANGED <<used, texts>>

Edit(p) ==
    \/ OpenMissing(p) \/ OpenFile(p) \/ StampBefore(p) \/ ReadBytes(p) \/ StampAfter(p)
    \/ CloseEditor(p)
Save(p) ==
    \/ CheckStamp(p) \/ Reserve(p) \/ CreateTemporary(p) \/ WriteAll(p) \/ SyncAll(p) \/ Rename(p)
    \/ SyncFolder(p) \/ SaveFails(p) \/ RemoveTemporary(p) \/ RemoveReservation(p)

Next ==
    /\ \/ \E p \in Editors : Edit(p) \/ Save(p)
       \/ OutsideBegins \/ OutsideEnds \/ LosePower
    /\ UNCHANGED outsiders

Spec == Init /\ [][Next]_vars

-----------------------------------------------------------------------------
Stamps == [file : Inodes, writes : Nat] \union {None}

TypeOK ==
    /\ outsiders \in BOOLEAN
    /\ path \in Inodes \union {None} /\ outside \in Inodes \union {None}
    /\ files \in [Inodes -> [text : Texts \union {Torn}, writes : Nat]]
    /\ used \in 0 .. MaxFiles /\ texts \in Texts
    /\ synced \subseteq Inodes
    /\ entries \subseteq Inodes \union {None} /\ path \in entries
    /\ pc \in [Editors -> {"closed", "before", "bytes", "after", "open", "reserve", "create",
                           "write", "sync", "rename", "folder", "remove", "unreserve"}]
    /\ doc \in [Editors -> Texts \union {Torn}] /\ stamp \in [Editors -> Stamps]
    /\ handle \in [Editors -> Inodes \union {None}] /\ before \in [Editors -> Stamps]
    /\ bytes \in [Editors -> Texts \union {Torn}] /\ reads \in [Editors -> 0 .. MaxReads]
    /\ overwrite \in [Editors -> BOOLEAN] /\ creating \in [Editors -> BOOLEAN]
    /\ temporary \in [Editors -> Inodes \union {None}]
    /\ replaced \in [Editors -> Stamps]

(* "A change of either tells that a program wrote the file": as long as a  *)
(* file has the stamp an editor keeps, it has the text the editor shows,   *)
(* whatever was written while the editor read it or saved it.              *)
StampTellsContent ==
    \A p \in Editors :
        pc[p] = "open" /\ stamp[p] # None /\ StampOf(stamp[p].file) = stamp[p]
            => files[stamp[p].file].text = doc[p]

(* The reservation of a new file keeps others from creating it: no two     *)
(* editors are between their create_new and the end of their save.         *)
Filling(p) ==
    creating[p] /\ pc[p] \in {"create", "write", "sync", "rename", "folder", "remove", "unreserve"}
OneCreator == \A p, q \in Editors : Filling(p) /\ Filling(q) => p = q

(* create_document: "The write never replaces a file."  What its rename    *)
(* replaces is its own empty reservation.                                  *)
NeverReplaces ==
    \A p \in Editors :
        pc[p] = "folder" /\ creating[p] /\ replaced[p] # None => replaced[p].writes = 0

(* write_file: "A file whose stamp differs from `stamp` changed since the  *)
(* editor read it and stays as it is, unless `overwrite` asks to write     *)
(* over the change."                                                       *)
ChangesStay ==
    \A p \in Editors :
        pc[p] = "folder" /\ ~overwrite[p] /\ ~creating[p] => replaced[p] = stamp[p]

(* Where no other program writes in place, the file at the path is a cell  *)
(* that is replaced atomically and survives a loss of power as far as its  *)
(* folder was flushed.                                                     *)
Text(f) == IF f = None \/ outsiders THEN None ELSE files[f].text

Cell == INSTANCE DurableCell WITH
            Contents   <- Texts \union {None},
            value      <- Text(path),
            candidates <- {Text(f) : f \in entries}

ReplacesAtomically == Cell!Spec
=============================================================================
