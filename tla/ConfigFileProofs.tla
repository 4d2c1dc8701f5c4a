-------------------------- MODULE ConfigFileProofs --------------------------
(***************************************************************************)
(* The configuration file of any number of editors: a stamp tells the      *)
(* text, one editor at a time creates the file, and where no other program *)
(* writes in place the file is a DurableCell.                              *)
(*                                                                         *)
(* FileInv says what the steps of one editor may take for granted whatever *)
(* the others do: a file is written more often than any stamp of it says   *)
(* or still has the text of the stamp, the path names a file while one is  *)
(* being created, and a temporary file has no other user and no name that  *)
(* the path ever had.                                                      *)
(***************************************************************************)
EXTENDS ConfigFile, TLAPS

Names == Inodes \union {None}
Any   == Texts \union {Torn}
Steps == {"closed", "before", "bytes", "after", "open", "reserve", "create",
          "write", "sync", "rename", "folder", "remove", "unreserve"}

Types ==
    /\ outsiders \in BOOLEAN
    /\ path \in Names /\ outside \in Names /\ path \in entries
    /\ files \in [Inodes -> [text : Any, writes : Nat]]
    /\ used \in 0 .. MaxFiles /\ texts \in Texts
    /\ synced \subseteq Inodes /\ entries \subseteq Names
    /\ pc \in [Editors -> Steps]
    /\ doc \in [Editors -> Any] /\ stamp \in [Editors -> Stamps]
    /\ handle \in [Editors -> Names] /\ before \in [Editors -> Stamps]
    /\ bytes \in [Editors -> Any] /\ creating \in [Editors -> BOOLEAN]
    /\ temporary \in [Editors -> Names]

\* The file a step works on is there.
Locals ==
    \A p \in Editors :
        /\ pc[p] \in {"before", "bytes", "after"} => handle[p] \in Inodes
        /\ pc[p] \in {"write", "sync", "rename", "folder"} => temporary[p] \in Inodes
        /\ pc[p] = "unreserve" => creating[p]

\* The stamp s was taken of file f, and not of a later text of it.
Taken(fs, s, f) == s \in [file : {f}, writes : Nat] /\ s.writes =< fs[f].writes

\* The file f still has the text t unless it was written since.
Tells(fs, s, f, t) == Taken(fs, s, f) /\ (s.writes = fs[f].writes => fs[f].text = t)

Reading ==
    \A p \in Editors :
        /\ pc[p] = "bytes" => Taken(files, before[p], handle[p])
        /\ pc[p] = "after" => Tells(files, before[p], handle[p], bytes[p])

Keeping == \A p \in Editors : stamp[p] # None => Tells(files, stamp[p], stamp[p].file, doc[p])

Creating == OneCreator /\ \A p \in Editors : Filling(p) => path # None

Temporaries ==
    /\ \A p \in Editors : temporary[p] # None => temporary[p] =< used
    /\ \A p, q \in Editors : p # q /\ temporary[p] # None => temporary[p] # temporary[q]
    /\ \A p \in Editors : pc[p] \in {"write", "sync", "rename"} => temporary[p] \notin entries
    /\ \A f \in Inodes : f > used => files[f].text = Empty
    /\ \A f \in entries : f # None => f =< used
    /\ outside # None => outside =< used

\* What the path named since the folder was flushed is whole and on the disk.
Durable ==
    ~outsiders =>
        /\ outside = None
        /\ \A f \in entries : f # None =>
              files[f].text \in Texts /\ (f \in synced \/ files[f].text = Empty)
        /\ \A p \in Editors : pc[p] \in {"sync", "rename"} => files[temporary[p]].text \in Texts
        /\ \A p \in Editors : pc[p] = "rename" => temporary[p] \in synced

FileInv == Types /\ Locals /\ Reading /\ Keeping /\ Creating /\ Temporaries /\ Durable

USE DEF fsVars, readVars, saveVars, Goes, ReadReturns, SaveReturns, Links

LEMMA ConstantFacts ==
    /\ MaxFiles \in Nat \ {0} /\ MaxTexts \in Nat \ {0} /\ MaxReads \in Nat \ {0}
    /\ None \notin Inodes /\ Empty \in Any /\ Torn \in Any /\ Empty \in Texts
    /\ Inodes \subseteq Nat /\ \A n \in 0 .. MaxFiles :
          n \in Nat /\ (n < MaxFiles => n + 1 \in Inodes /\ n + 1 \in 0 .. MaxFiles)
    /\ \A n \in Texts : n < MaxTexts => n + 1 \in Texts
  BY ConfigAssumption DEF Inodes, Empty, Torn, Any, Texts

LEMMA WriteFacts ==
    ASSUME Types, NEW f \in Inodes, NEW t \in Any, Write(f, t)
    PROVE  /\ files' \in [Inodes -> [text : Any, writes : Nat]]
           /\ files'[f].text = t /\ files'[f].writes = files[f].writes + 1
           /\ \A g \in Inodes : g # f => files'[g] = files[g]
  BY DEF Types, Write

LEMMA StampFacts ==
    ASSUME Types
    PROVE  /\ \A f \in Names : StampOf(f) \in Stamps
           /\ \A f \in Inodes : /\ StampOf(f) \in [file : {f}, writes : Nat]
                                /\ StampOf(f).writes = files[f].writes
  BY ConstantFacts DEF Types, StampOf, Stamps, Names

-----------------------------------------------------------------------------
LEMMA InitInv == Init => FileInv
<1> SUFFICES ASSUME Init PROVE FileInv
  OBVIOUS
<1>1. Types
  BY ConstantFacts, ConfigAssumption DEF Init, Types, Names, Any, Steps, Stamps, Inodes, Texts, Empty
<1>2. Locals /\ Reading /\ Keeping /\ Creating
  BY DEF Init, Locals, Reading, Keeping, Creating, OneCreator, Filling
<1>3. Temporaries
  BY ConstantFacts DEF Init, Temporaries, Inodes
<1>4. Durable
  BY ConstantFacts DEF Init, Durable
<1> QED BY <1>1, <1>2, <1>3, <1>4 DEF FileInv

LEMMA EditTypes ==
    ASSUME FileInv, outsiders' = outsiders, NEW p \in Editors, Edit(p)
    PROVE  Types'
<1> USE DEF FileInv, Types, Steps
<1>1. CASE OpenMissing(p)
  BY <1>1, ConstantFacts DEF OpenMissing, Stamps
<1>2. CASE OpenFile(p)
  BY <1>2 DEF OpenFile
<1>3. CASE StampBefore(p)
  BY <1>3, StampFacts DEF StampBefore
<1>4. CASE ReadBytes(p)
  BY <1>4 DEF ReadBytes, Locals
<1>5. CASE StampAfter(p)
  BY <1>5, ConstantFacts DEF StampAfter, Stamps, Names
<1>6. CASE CloseEditor(p)
  BY <1>6, ConstantFacts DEF CloseEditor, Stamps
<1> QED BY <1>1, <1>2, <1>3, <1>4, <1>5, <1>6 DEF Edit

LEMMA SaveTypes ==
    ASSUME FileInv, outsiders' = outsiders, NEW p \in Editors, Save(p)
    PROVE  Types'
<1> USE DEF FileInv, Types, Steps
<1>1. CASE CheckStamp(p)
  BY <1>1 DEF CheckStamp
<1>2. CASE Reserve(p)
  <2>1. CASE path = None /\ used < MaxFiles /\ used' = used + 1
    <3>1. used' \in Inodes /\ used' \in 0 .. MaxFiles
      BY <2>1, ConstantFacts
    <3> QED BY <1>2, <3>1 DEF Reserve, Names
  <2>2. CASE ~(path = None /\ used < MaxFiles /\ used' = used + 1)
    BY <1>2, <2>2 DEF Reserve, Names
  <2> QED BY <2>1, <2>2
<1>3. CASE CreateTemporary(p)
  <2>1. used' \in Inodes /\ used' \in 0 .. MaxFiles
    BY <1>3, ConstantFacts DEF CreateTemporary
  <2> QED BY <1>3, <2>1 DEF CreateTemporary, Names
<1>4. CASE WriteAll(p)
  BY <1>4, ConstantFacts, WriteFacts DEF WriteAll, Locals, Any
<1>5. CASE SyncAll(p)
  BY <1>5 DEF SyncAll, Locals
<1>6. CASE Rename(p)
  BY <1>6 DEF Rename, Locals
<1>7. CASE SyncFolder(p)
  BY <1>7, StampFacts DEF SyncFolder, Locals, Names
<1>8. CASE SaveFails(p)
  BY <1>8, ConstantFacts, WriteFacts DEF SaveFails, Locals
<1>9. CASE RemoveTemporary(p)
  BY <1>9 DEF RemoveTemporary, Names
<1>10. CASE RemoveReservation(p)
  BY <1>10 DEF RemoveReservation, Names
<1> QED BY <1>1, <1>2, <1>3, <1>4, <1>5, <1>6, <1>7, <1>8, <1>9, <1>10 DEF Save

LEMMA OtherTypes ==
    ASSUME FileInv, outsiders' = outsiders, OutsideBegins \/ OutsideEnds \/ LosePower
    PROVE  Types'
<1> USE DEF FileInv, Types, Steps
<1>1. CASE OutsideBegins
  BY <1>1, ConstantFacts, WriteFacts DEF OutsideBegins, Names
<1>2. CASE OutsideEnds
  BY <1>2, ConstantFacts, WriteFacts DEF OutsideEnds, Names, Any
<1>3. CASE LosePower
  BY <1>3, ConstantFacts DEF LosePower, Names, Stamps, Any
<1> QED BY <1>1, <1>2, <1>3

-----------------------------------------------------------------------------
(* The file a step works on, and the creation of the file at the path.      *)

LEMMA EditLocals ==
    ASSUME FileInv, NEW p \in Editors, Edit(p)
    PROVE  Locals' /\ Creating'
<1> USE DEF FileInv, Types, Locals, Creating, OneCreator, Filling
<1>1. CASE OpenMissing(p)
  BY <1>1 DEF OpenMissing
<1>2. CASE OpenFile(p)
  BY <1>2 DEF OpenFile, Names
<1>3. CASE StampBefore(p)
  BY <1>3 DEF StampBefore
<1>4. CASE ReadBytes(p)
  BY <1>4 DEF ReadBytes
<1>5. CASE StampAfter(p)
  BY <1>5 DEF StampAfter
<1>6. CASE CloseEditor(p)
  BY <1>6 DEF CloseEditor
<1> QED BY <1>1, <1>2, <1>3, <1>4, <1>5, <1>6 DEF Edit

LEMMA SaveLocals ==
    ASSUME FileInv, NEW p \in Editors, Save(p)
    PROVE  Locals' /\ Creating'
<1> USE DEF FileInv, Types, Locals, Creating, OneCreator, Filling
<1>1. CASE CheckStamp(p)
  <2>1. /\ pc'[p] \in {"reserve", "create"} /\ (creating'[p] => pc'[p] = "reserve")
        /\ \A q \in Editors : q # p => pc'[q] = pc[q] /\ creating'[q] = creating[q]
        /\ path' = path /\ handle' = handle /\ temporary' = temporary
    BY <1>1 DEF CheckStamp
  <2> QED BY <2>1
<1>2. CASE Reserve(p)
  BY <1>2, ConstantFacts DEF Reserve
<1>3. CASE CreateTemporary(p)
  BY <1>3, ConstantFacts DEF CreateTemporary
<1>4. CASE WriteAll(p)
  BY <1>4 DEF WriteAll
<1>5. CASE SyncAll(p)
  BY <1>5 DEF SyncAll
<1>6. CASE Rename(p)
  BY <1>6, ConstantFacts DEF Rename
<1>7. CASE SyncFolder(p)
  BY <1>7 DEF SyncFolder
<1>8. CASE SaveFails(p)
  BY <1>8 DEF SaveFails
<1>9. CASE RemoveTemporary(p)
  BY <1>9 DEF RemoveTemporary
<1>10. CASE RemoveReservation(p)
  <2>1. \A q \in Editors : Filling(q) => q = p
    BY <1>10 DEF RemoveReservation
  <2>2. \A q \in Editors : ~Filling(q)'
    BY <1>10, <2>1 DEF RemoveReservation
  <2>3. Locals'
    BY <1>10 DEF RemoveReservation
  <2> QED BY <2>2, <2>3
<1> QED BY <1>1, <1>2, <1>3, <1>4, <1>5, <1>6, <1>7, <1>8, <1>9, <1>10 DEF Save

LEMMA OtherLocals ==
    ASSUME FileInv, OutsideBegins \/ OutsideEnds \/ LosePower
    PROVE  Locals' /\ Creating'
  BY DEF FileInv, Locals, Creating, OneCreator, Filling, OutsideBegins, OutsideEnds, LosePower

-----------------------------------------------------------------------------
(* Stamps *)

\* A step that is not a loss of power leaves every file or counts a write of it.
Grows == \A f \in Inodes : files'[f] = files[f] \/ files'[f].writes > files[f].writes

LEMMA StampGrows ==
    ASSUME Types, Types', Grows, NEW s, NEW f \in Inodes
    PROVE  /\ Taken(files, s, f) => Taken(files', s, f)
           /\ \A t : Tells(files, s, f, t) => Tells(files', s, f, t)
<1>1. files'[f] = files[f] \/ files'[f].writes > files[f].writes
  BY DEF Grows
<1>2. files[f].writes \in Nat /\ files'[f].writes \in Nat
  BY DEF Types
<1>3. s \in [file : {f}, writes : Nat] => s.writes \in Nat
  OBVIOUS
<1> QED BY <1>1, <1>2, <1>3 DEF Taken, Tells

LEMMA WriteGrows ==
    ASSUME Types, NEW f \in Inodes, NEW t \in Any, Write(f, t)
    PROVE  Grows
<1>1. files[f].writes \in Nat
  BY DEF Types
<1> QED BY <1>1, WriteFacts DEF Grows

LEMMA StepsGrow ==
    ASSUME FileInv, (\E p \in Editors : Edit(p) \/ Save(p)) \/ OutsideBegins \/ OutsideEnds
    PROVE  Grows
<1>1. CASE \E p \in Editors : Edit(p)
  BY <1>1 DEF Edit, OpenMissing, OpenFile, StampBefore, ReadBytes, StampAfter, CloseEditor, Grows
<1>2. ASSUME NEW p \in Editors, Save(p) PROVE Grows
  <2>1. CASE WriteAll(p)
    BY <2>1, WriteGrows, ConstantFacts DEF FileInv, Locals, Types, WriteAll, Any
  <2>2. CASE SaveFails(p)
    BY <2>2, WriteGrows, ConstantFacts DEF FileInv, Locals, SaveFails, Grows
  <2>3. CASE ~WriteAll(p) /\ ~SaveFails(p)
    BY <1>2, <2>3 DEF Save, CheckStamp, Reserve, CreateTemporary, SyncAll, Rename, SyncFolder,
                      RemoveTemporary, RemoveReservation, Grows
  <2> QED BY <2>1, <2>2, <2>3
<1>3. CASE OutsideBegins
  BY <1>3, WriteGrows, ConstantFacts DEF FileInv, Types, OutsideBegins, Names
<1>4. CASE OutsideEnds
  BY <1>4, WriteGrows, ConstantFacts DEF FileInv, Types, OutsideEnds, Names, Any
<1> QED BY <1>1, <1>2, <1>3, <1>4

\* An editor whose read and whose stamp the step leaves alone.
LEMMA StampFrame ==
    ASSUME FileInv, Types', Grows, NEW q \in Editors
    PROVE  /\ handle'[q] = handle[q] /\ before'[q] = before[q] =>
                 /\ pc[q] = "bytes" => Taken(files', before'[q], handle'[q])
                 /\ pc[q] = "after" /\ bytes'[q] = bytes[q] =>
                       Tells(files', before'[q], handle'[q], bytes'[q])
           /\ stamp'[q] = stamp[q] /\ doc'[q] = doc[q] /\ stamp'[q] # None =>
                 Tells(files', stamp'[q], stamp'[q].file, doc'[q])
<1>1. ASSUME handle'[q] = handle[q], before'[q] = before[q], pc[q] = "bytes"
      PROVE  Taken(files', before'[q], handle'[q])
  BY <1>1, StampGrows DEF FileInv, Locals, Reading
<1>2. ASSUME handle'[q] = handle[q], before'[q] = before[q], bytes'[q] = bytes[q], pc[q] = "after"
      PROVE  Tells(files', before'[q], handle'[q], bytes'[q])
  BY <1>2, StampGrows DEF FileInv, Locals, Reading
<1>3. ASSUME stamp'[q] = stamp[q], doc'[q] = doc[q], stamp'[q] # None
      PROVE  Tells(files', stamp'[q], stamp'[q].file, doc'[q])
  <2>1. stamp[q].file \in Inodes /\ Tells(files, stamp[q], stamp[q].file, doc[q])
    BY <1>3 DEF FileInv, Types, Stamps, Keeping
  <2> QED BY <1>3, <2>1, StampGrows DEF FileInv
<1> QED BY <1>1, <1>2, <1>3

LEMMA EditStamps ==
    ASSUME FileInv, Types', NEW p \in Editors, Edit(p)
    PROVE  Reading' /\ Keeping'
<1>0. Grows
  BY StepsGrow
<1> SUFFICES ASSUME NEW q \in Editors
    PROVE  /\ pc'[q] = "bytes" => Taken(files', before'[q], handle'[q])
           /\ pc'[q] = "after" => Tells(files', before'[q], handle'[q], bytes'[q])
           /\ stamp'[q] # None => Tells(files', stamp'[q], stamp'[q].file, doc'[q])
  BY DEF Reading, Keeping
<1> USE DEF FileInv, Types
<1>1. CASE OpenMissing(p)
  BY <1>0, <1>1, StampFrame DEF OpenMissing
<1>2. CASE OpenFile(p)
  BY <1>0, <1>2, StampFrame DEF OpenFile
<1>3. CASE StampBefore(p)
  <2>1. Taken(files, StampOf(handle[p]), handle[p])
    BY <1>3, StampFacts DEF StampBefore, Locals, Taken
  <2> QED BY <1>0, <1>3, <2>1, StampFrame DEF StampBefore
<1>4. CASE ReadBytes(p)
  <2>1. Tells(files, before[p], handle[p], files[handle[p]].text)
    BY <1>4 DEF ReadBytes, Reading, Tells
  <2> QED BY <1>0, <1>4, <2>1, StampFrame DEF ReadBytes
<1>5. CASE StampAfter(p)
  <2>1. Tells(files, before[p], handle[p], bytes[p])
    BY <1>5 DEF StampAfter, Reading
  <2>2. Tells(files, before[p], before[p].file, bytes[p])
    BY <2>1 DEF Tells, Taken
  <2>3. files' = files /\ pc'[p] \notin {"bytes", "after"}
    BY <1>5 DEF StampAfter
  <2>4. stamp'[p] # None => Tells(files', stamp'[p], stamp'[p].file, doc'[p])
    <3>1. CASE stamp'[p] = before[p] /\ doc'[p] = bytes[p]
      BY <2>2, <2>3, <3>1
    <3>2. CASE stamp'[p] = stamp[p] /\ doc'[p] = doc[p]
      BY <1>0, <3>2, StampFrame
    <3> QED BY <1>5, <3>1, <3>2 DEF StampAfter
  <2>5. q # p => /\ pc'[q] = pc[q] /\ handle'[q] = handle[q] /\ before'[q] = before[q]
                 /\ bytes'[q] = bytes[q] /\ stamp'[q] = stamp[q] /\ doc'[q] = doc[q]
    BY <1>5 DEF StampAfter
  <2> QED BY <1>0, <2>3, <2>4, <2>5, StampFrame
<1>6. CASE CloseEditor(p)
  BY <1>0, <1>6, StampFrame DEF CloseEditor
<1> QED BY <1>1, <1>2, <1>3, <1>4, <1>5, <1>6 DEF Edit

LEMMA SaveStamps ==
    ASSUME FileInv, Types', NEW p \in Editors, Save(p)
    PROVE  Reading' /\ Keeping'
<1>0. Grows
  BY StepsGrow
<1> SUFFICES ASSUME NEW q \in Editors
    PROVE  /\ pc'[q] = "bytes" => Taken(files', before'[q], handle'[q])
           /\ pc'[q] = "after" => Tells(files', before'[q], handle'[q], bytes'[q])
           /\ stamp'[q] # None => Tells(files', stamp'[q], stamp'[q].file, doc'[q])
  BY DEF Reading, Keeping
<1>1. pc'[q] \in {"bytes", "after"} => pc[q] = pc'[q]
  BY DEF FileInv, Types, Save, CheckStamp, Reserve, CreateTemporary, WriteAll, SyncAll, Rename,
         SyncFolder, SaveFails, RemoveTemporary, RemoveReservation
<1>2. handle' = handle /\ before' = before /\ bytes' = bytes
  BY DEF Save, CheckStamp, Reserve, CreateTemporary, WriteAll, SyncAll, Rename,
         SyncFolder, SaveFails, RemoveTemporary, RemoveReservation
<1>3. CASE SyncFolder(p) /\ q = p
  <2>1. stamp'[p] = StampOf(temporary[p]) /\ doc'[p] = files[temporary[p]].text /\ files' = files
    BY <1>3 DEF FileInv, Types, SyncFolder
  <2>2. temporary[p] \in Inodes
    BY <1>3 DEF FileInv, Locals, SyncFolder
  <2>3. Tells(files, StampOf(temporary[p]), StampOf(temporary[p]).file, files[temporary[p]].text)
    BY <2>2, StampFacts DEF FileInv, Types, Tells, Taken
  <2> QED BY <1>0, <1>1, <1>2, <1>3, <2>1, <2>3, StampFrame
<1>4. CASE ~(SyncFolder(p) /\ q = p)
  <2>1. stamp'[q] = stamp[q] /\ doc'[q] = doc[q]
    BY <1>4 DEF FileInv, Types, Save, CheckStamp, Reserve, CreateTemporary, WriteAll, SyncAll,
                Rename, SyncFolder, SaveFails, RemoveTemporary, RemoveReservation
  <2> QED BY <1>0, <1>1, <1>2, <2>1, StampFrame
<1> QED BY <1>3, <1>4

LEMMA OtherStamps ==
    ASSUME FileInv, Types', OutsideBegins \/ OutsideEnds \/ LosePower
    PROVE  Reading' /\ Keeping'
<1>1. CASE LosePower
  BY <1>1 DEF LosePower, Reading, Keeping
<1>2. CASE OutsideBegins \/ OutsideEnds
  <2>1. Grows
    BY <1>2, StepsGrow
  <2>2. UNCHANGED <<pc, readVars>>
    BY <1>2 DEF OutsideBegins, OutsideEnds
  <2> QED BY <2>1, <2>2, StampFrame DEF Reading, Keeping
<1> QED BY <1>1, <1>2

-----------------------------------------------------------------------------
(* Temporary files, and the files the path named. *)

LEMMA EditTemporaries ==
    ASSUME FileInv, outsiders' = outsiders, NEW p \in Editors, Edit(p)
    PROVE  Temporaries' /\ Durable'
<1>1. /\ UNCHANGED <<fsVars, temporary>>
      /\ \A q \in Editors : pc'[q] \in {"write", "sync", "rename"} => pc[q] = pc'[q]
  BY DEF FileInv, Types, Edit, OpenMissing, OpenFile, StampBefore, ReadBytes, StampAfter, CloseEditor
<1> QED BY <1>1 DEF FileInv, Temporaries, Durable

\* The files of the others stay what they were when one editor gets a new one.
LEMMA NewFile ==
    ASSUME FileInv, used < MaxFiles, used' = used + 1
    PROVE  /\ used' \in Inodes /\ used' \notin entries /\ used' \notin {path, outside}
           /\ \A q \in Editors : temporary[q] # used'
           /\ files[used'].text = Empty
           /\ \A n \in Inodes : n =< used => n =< used' /\ n # used'
           /\ \A n \in Inodes : n > used' => n > used
<1>1. used \in Nat /\ used' \in Inodes /\ Inodes \subseteq Nat /\ None \notin Inodes
  BY ConstantFacts DEF FileInv, Types
<1>2. \A n \in Inodes : (n =< used => n =< used' /\ n # used') /\ (n > used' => n > used)
  BY <1>1
<1>3. used' > used
  BY <1>1
<1>4. used' \notin entries /\ used' \notin {path, outside}
  BY <1>1, <1>2 DEF FileInv, Types, Temporaries
<1>5. \A q \in Editors : temporary[q] # used'
  BY <1>1, <1>2 DEF FileInv, Types, Temporaries
<1>6. files[used'].text = Empty
  BY <1>1, <1>3 DEF FileInv, Temporaries
<1> QED BY <1>1, <1>2, <1>4, <1>5, <1>6

\* A write of a temporary file, which nothing but its editor refers to.
LEMMA WriteTemporary ==
    ASSUME FileInv, NEW p \in Editors, pc[p] = "write", NEW t \in Any, Write(temporary[p], t),
           NEW to \in {"sync", "remove"}, t = Torn => to = "remove", Goes(p, to),
           UNCHANGED <<outsiders, path, outside, used, synced, entries, temporary>>
    PROVE  Temporaries' /\ Durable'
<1> DEFINE f == temporary[p]
<1>1. f \in Inodes /\ f =< used /\ f \notin entries /\ used \in Nat /\ Inodes \subseteq Nat
      /\ None \notin Inodes
  BY ConstantFacts DEF FileInv, Types, Locals, Temporaries
<1>2. /\ files'[f].text = t
      /\ \A g \in Inodes : g # f => files'[g] = files[g]
  BY <1>1, WriteFacts DEF FileInv
<1>3. pc'[p] = to /\ \A q \in Editors : q # p => pc'[q] = pc[q]
  BY DEF FileInv, Types
<1>4. \A q \in Editors : q # p => temporary[q] # f
  BY <1>1 DEF FileInv, Temporaries
<1> HIDE DEF f
<1>5. \A g \in Inodes : g > used => files'[g].text = Empty
  BY <1>1, <1>2 DEF FileInv, Temporaries
<1>6. Temporaries'
  BY <1>3, <1>5 DEF FileInv, Temporaries
<1>7. \A g \in entries : g # None => g \in Inodes /\ files'[g] = files[g]
  BY <1>1, <1>2 DEF FileInv, Types, Names
<1>8. \A q \in Editors : q # p /\ pc[q] \in {"sync", "rename"} => files'[temporary[q]] = files[temporary[q]]
  BY <1>2, <1>4 DEF FileInv, Locals
<1>9. to = "sync" => files'[temporary[p]].text \in Texts
  BY <1>2 DEF Any, f
<1>10. Durable'
  BY <1>3, <1>7, <1>8, <1>9 DEF FileInv, Durable
<1> QED BY <1>6, <1>10

LEMMA SaveTemporaries ==
    ASSUME FileInv, outsiders' = outsiders, NEW p \in Editors, Save(p)
    PROVE  Temporaries' /\ Durable'
<1>1. CASE CheckStamp(p)
  <2>1. /\ UNCHANGED <<fsVars, temporary>>
        /\ \A q \in Editors : pc'[q] \in {"write", "sync", "rename"} => pc[q] = pc'[q]
    BY <1>1 DEF FileInv, Types, CheckStamp
  <2> QED BY <2>1 DEF FileInv, Temporaries, Durable
<1>2. CASE Reserve(p)
  <2>1. CASE used < MaxFiles /\ used' = used + 1 /\ Links(used') /\ synced' = synced \ {used'}
             /\ Goes(p, "create") /\ UNCHANGED <<temporary, files, outside>>
    <3>1. \A q \in Editors : pc'[q] \in {"write", "sync", "rename"} => pc[q] = pc'[q]
      BY <2>1 DEF FileInv, Types
    <3>2. Temporaries'
      BY <2>1, <3>1, NewFile DEF FileInv, Types, Names, Temporaries
    <3>3. Durable'
      BY <2>1, <3>1, NewFile, ConstantFacts DEF FileInv, Durable
    <3> QED BY <3>2, <3>3
  <2>2. CASE SaveReturns(p) /\ UNCHANGED fsVars
    <3>1. \A q \in Editors : /\ pc'[q] \in {"write", "sync", "rename"} => pc[q] = pc'[q] /\ q # p
                             /\ temporary'[q] = IF q = p THEN None ELSE temporary[q]
      BY <2>2 DEF FileInv, Types
    <3> QED BY <2>2, <3>1 DEF FileInv, Temporaries, Durable
  <2> QED BY <1>2, <2>1, <2>2 DEF Reserve
<1>3. CASE CreateTemporary(p)
  <2>1. /\ used < MaxFiles /\ used' = used + 1 /\ synced' = synced \ {used'}
        /\ UNCHANGED <<path, outside, files, entries>>
    BY <1>3 DEF CreateTemporary
  <2>2. \A q \in Editors : /\ q # p => pc'[q] = pc[q] /\ temporary'[q] = temporary[q]
                           /\ pc'[p] = "write" /\ temporary'[p] = used'
    BY <1>3 DEF FileInv, Types, CreateTemporary
  <2>3. Temporaries'
    BY <2>1, <2>2, NewFile DEF FileInv, Types, Names, Temporaries
  <2>4. Durable'
    BY <2>1, <2>2, NewFile DEF FileInv, Durable
  <2> QED BY <2>3, <2>4
<1>4. CASE WriteAll(p)
  <2>1. texts' \in Any /\ texts' # Torn
    BY <1>4, ConstantFacts DEF FileInv, Types, WriteAll, Any, Texts, Torn
  <2> QED BY <1>4, <2>1, WriteTemporary DEF WriteAll
<1>5. CASE SyncAll(p)
  <2>1. /\ pc[p] = "sync" /\ pc'[p] = "rename" /\ synced' = synced \union {temporary[p]}
        /\ \A q \in Editors : q # p => pc'[q] = pc[q]
        /\ UNCHANGED <<path, outside, files, used, entries, temporary>>
    BY <1>5 DEF FileInv, Types, SyncAll
  <2> QED BY <2>1 DEF FileInv, Temporaries, Durable
<1>6. CASE Rename(p)
  <2>1. /\ pc[p] = "rename" /\ pc'[p] = "folder"
        /\ entries' = entries \union {temporary[p]}
        /\ \A q \in Editors : q # p => pc'[q] = pc[q]
        /\ UNCHANGED <<outside, files, used, synced, temporary>>
    BY <1>6 DEF FileInv, Types, Rename
  <2>2. temporary[p] \in Inodes /\ temporary[p] # None
    BY <2>1, ConstantFacts DEF FileInv, Locals
  <2>3. Temporaries'
    BY <2>1, <2>2 DEF FileInv, Temporaries
  <2>4. Durable'
    BY <2>1, <2>2 DEF FileInv, Durable
  <2> QED BY <2>3, <2>4
<1>7. CASE SyncFolder(p) \/ RemoveReservation(p)
  <2>1. /\ entries' \subseteq entries \union {None}
        /\ UNCHANGED <<outside, files, used, synced>>
        /\ \A q \in Editors : /\ pc'[q] \in {"write", "sync", "rename"} => pc[q] = pc'[q] /\ q # p
                              /\ temporary'[q] = IF q = p THEN None ELSE temporary[q]
    BY <1>7 DEF FileInv, Types, SyncFolder, RemoveReservation
  <2>2. \A q \in Editors : pc[q] \in {"write", "sync", "rename"} => temporary[q] # None
    BY ConstantFacts DEF FileInv, Locals
  <2>3. Temporaries'
    BY <2>1, <2>2 DEF FileInv, Temporaries
  <2>4. Durable'
    BY <2>1 DEF FileInv, Durable
  <2> QED BY <2>3, <2>4
<1>8. CASE SaveFails(p)
  <2>1. CASE pc[p] = "write"
    BY <1>8, <2>1, ConstantFacts, WriteTemporary DEF SaveFails
  <2>2. CASE pc[p] # "write"
    <3>1. /\ UNCHANGED <<fsVars, temporary>>
          /\ \A q \in Editors : pc'[q] \in {"write", "sync", "rename"} => pc[q] = pc'[q]
      BY <1>8, <2>2 DEF FileInv, Types, SaveFails
    <3> QED BY <3>1 DEF FileInv, Temporaries, Durable
  <2> QED BY <2>1, <2>2
<1>9. CASE RemoveTemporary(p)
  <2>1. /\ UNCHANGED fsVars
        /\ \A q \in Editors : /\ pc'[q] \in {"write", "sync", "rename"} => pc[q] = pc'[q] /\ q # p
                              /\ temporary'[q] = IF q = p THEN None ELSE temporary[q]
    BY <1>9 DEF FileInv, Types, RemoveTemporary
  <2> QED BY <2>1 DEF FileInv, Temporaries, Durable
<1> QED BY <1>1, <1>2, <1>3, <1>4, <1>5, <1>6, <1>7, <1>8, <1>9 DEF Save

LEMMA OtherTemporaries ==
    ASSUME FileInv, outsiders' = outsiders, OutsideBegins \/ OutsideEnds \/ LosePower
    PROVE  Temporaries' /\ Durable'
<1>0. None \notin Inodes /\ Inodes \subseteq Nat /\ used \in Nat /\ Torn \in Any
  BY ConstantFacts DEF FileInv, Types
<1>1. ASSUME NEW f \in Inodes, f =< used, NEW t \in Any, Write(f, t)
      PROVE  \A g \in Inodes : g > used => files'[g].text = Empty
  <2>1. \A g \in Inodes : g > used => g # f
    BY <1>0, <1>1
  <2> QED BY <1>1, <2>1, WriteFacts DEF FileInv, Temporaries
<1>2. CASE OutsideBegins
  <2>1. /\ outsiders /\ path \in Inodes /\ path \in entries /\ outside' = path /\ Write(path, Torn)
        /\ UNCHANGED <<path, used, entries, pc, temporary>>
    BY <1>2 DEF FileInv, Types, Names, OutsideBegins
  <2>2. path =< used
    BY <1>0, <2>1 DEF FileInv, Temporaries
  <2>3. \A g \in Inodes : g > used => files'[g].text = Empty
    BY <1>0, <1>1, <2>1, <2>2
  <2> QED BY <2>1, <2>2, <2>3 DEF FileInv, Temporaries, Durable
<1>3. CASE OutsideEnds
  <2>1. texts' \in Any /\ outside \in Inodes /\ outside # None
    BY <1>3, ConstantFacts DEF FileInv, Types, Names, OutsideEnds, Any
  <2>2. \A g \in Inodes : g > used => files'[g].text = Empty
    BY <1>1, <1>3, <2>1 DEF FileInv, Temporaries, OutsideEnds
  <2>3. outsiders
    BY <2>1 DEF FileInv, Types, Durable
  <2> QED BY <1>3, <2>2, <2>3 DEF FileInv, Temporaries, Durable, OutsideEnds
<1>4. CASE LosePower
  <2>1. PICK f \in entries, lost \in SUBSET {g \in Inodes \ synced : files[g].text # Empty} :
           /\ path' = f /\ entries' = {f}
           /\ files' = [g \in Inodes |->
                          IF g \in lost THEN [files[g] EXCEPT !.text = Torn] ELSE files[g]]
    BY <1>4 DEF LosePower
  <2>2. /\ synced' = Inodes /\ outside' = None /\ used' = used /\ ~outsiders
        /\ \A q \in Editors : pc'[q] = "closed" /\ temporary'[q] = None
    BY <1>4 DEF LosePower
  <2>3. \A g \in Inodes : files[g].text = Empty \/ g \in synced => files'[g] = files[g]
    BY <2>1
  <2>4. f # None => f \in Inodes /\ files'[f] = files[f]
    BY <2>2, <2>3 DEF FileInv, Types, Names, Durable
  <2>5. Temporaries'
    BY <2>1, <2>2, <2>3 DEF FileInv, Temporaries
  <2>6. Durable'
    BY <2>1, <2>2, <2>4 DEF FileInv, Durable
  <2> QED BY <2>5, <2>6
<1> QED BY <1>2, <1>3, <1>4

-----------------------------------------------------------------------------
LEMMA StepInv == FileInv /\ [Next]_vars => FileInv'
<1> SUFFICES ASSUME FileInv, [Next]_vars PROVE FileInv'
  OBVIOUS
<1>1. CASE UNCHANGED vars
  BY <1>1 DEF vars, FileInv, Types, Locals, Reading, Keeping, Creating, OneCreator, Filling,
              Temporaries, Durable
<1>2. CASE Next
  <2>1. ASSUME NEW p \in Editors, Edit(p), outsiders' = outsiders PROVE FileInv'
    BY <2>1, EditTypes, EditLocals, EditStamps, EditTemporaries DEF FileInv
  <2>2. ASSUME NEW p \in Editors, Save(p), outsiders' = outsiders PROVE FileInv'
    BY <2>2, SaveTypes, SaveLocals, SaveStamps, SaveTemporaries DEF FileInv
  <2>3. ASSUME OutsideBegins \/ OutsideEnds \/ LosePower, outsiders' = outsiders PROVE FileInv'
    BY <2>3, OtherTypes, OtherLocals, OtherStamps, OtherTemporaries DEF FileInv
  <2> QED BY <1>2, <2>1, <2>2, <2>3 DEF Next
<1> QED BY <1>1, <1>2

LEMMA FileInvariance == Spec => []FileInv
  BY InitInv, StepInv, PTL DEF Spec

(* read_document and write_file: as long as the file of an editor's stamp   *)
(* has that stamp it has the text the editor shows, for any number of       *)
(* editors, whatever others wrote during the read.                          *)
THEOREM StampsTellContent == Spec => []StampTellsContent
<1>1. FileInv => StampTellsContent
  <2> SUFFICES ASSUME FileInv, NEW p \in Editors, stamp[p] # None,
                      StampOf(stamp[p].file) = stamp[p]
               PROVE  files[stamp[p].file].text = doc[p]
    BY DEF StampTellsContent
  <2>1. stamp[p].file \in Inodes
    BY DEF FileInv, Types, Stamps
  <2>2. stamp[p].writes = files[stamp[p].file].writes
    BY <2>1, StampFacts DEF FileInv
  <2> QED BY <2>2 DEF FileInv, Keeping, Tells
<1> QED BY <1>1, FileInvariance, PTL

(* create_new lets one editor at a time fill the new file, also when        *)
(* another one saves over the reservation, the reservation is removed or    *)
(* power is lost.                                                           *)
THEOREM OneCreatorAtATime == Spec => []OneCreator
<1>1. FileInv => OneCreator
  BY DEF FileInv, Creating
<1> QED BY <1>1, FileInvariance, PTL

-----------------------------------------------------------------------------
(* The refinement of DurableCell. *)

\* The value and the candidates of the cell.
CellValue      == Text(path)
CellCandidates == {Text(f) : f \in entries}

LEMMA CellInit == Init => Cell!Init
<1> SUFFICES ASSUME Init PROVE Cell!Init
  OBVIOUS
<1>1. FileInv /\ entries = {path}
  BY InitInv DEF Init
<1>2. Text(path) \in Texts \union {None}
  BY <1>1 DEF FileInv, Types, Names, Durable, Text
<1>3. {Text(f) : f \in entries} = {Text(path)}
  BY <1>1
<1> QED BY <1>2, <1>3 DEF Cell!Init

LEMMA CellStep ==
    ASSUME FileInv, FileInv', [Next]_vars
    PROVE  [Cell!Next]_<<CellValue, CellCandidates>>
<1>0. outsiders' = outsiders
  BY DEF Next, vars
<1>1. Text(path)' \in Texts \union {None}
  BY DEF FileInv, Types, Names, Durable, Text
<1>2. CASE outsiders
  <2>1. \A f : Text(f) = None /\ Text(f)' = None
    BY <1>0, <1>2 DEF Text
  <2>2. entries # {} /\ entries' # {}
    BY DEF FileInv, Types
  <2>3. CellCandidates = {None} /\ CellCandidates' = {None}
    BY <2>1, <2>2 DEF CellCandidates
  <2> QED BY <2>1, <2>3 DEF CellValue
<1>3. CASE ~outsiders /\ entries' = entries /\ path' = path
           /\ \A f \in entries : f # None => files'[f].text = files[f].text
  <2>1. \A f \in entries : Text(f)' = Text(f)
    BY <1>0, <1>3 DEF Text
  <2>2. CellCandidates' = CellCandidates /\ CellValue' = CellValue
    BY <1>3, <2>1 DEF FileInv, Types, CellCandidates, CellValue
  <2> QED BY <2>2
<1>4. CASE ~outsiders /\ entries' = entries \union {path'}
           /\ \A f \in entries : f # None => files'[f].text = files[f].text
  <2>1. \A f \in entries : Text(f)' = Text(f)
    BY <1>0, <1>4 DEF Text
  <2>2. CellCandidates' = CellCandidates \union {CellValue'}
    BY <1>4, <2>1 DEF CellCandidates, CellValue
  <2> QED BY <1>1, <2>2 DEF Cell!Next, Cell!Replace, CellCandidates, CellValue
<1>5. CASE ~outsiders /\ entries' = {path} /\ path' = path /\ files' = files
  <2>1. CellCandidates' = {CellValue} /\ CellValue' = CellValue
    BY <1>0, <1>5 DEF Text, CellCandidates, CellValue
  <2> QED BY <2>1 DEF Cell!Next, Cell!MakeDurable, CellCandidates, CellValue
<1>6. CASE ~outsiders /\ path' \in entries /\ entries' = {path'}
           /\ \A f \in entries : f # None => files'[f].text = files[f].text
  <2>1. \A f \in entries : Text(f)' = Text(f)
    BY <1>0, <1>6 DEF Text
  <2>2. CellValue' \in CellCandidates /\ CellCandidates' = {CellValue'}
    BY <1>6, <2>1 DEF CellCandidates, CellValue
  <2> QED BY <2>2 DEF Cell!Next, Cell!LosePower, CellCandidates, CellValue
<1>7. ASSUME ~outsiders, NEW p \in Editors, Write(temporary[p], texts') \/ Write(temporary[p], Torn),
             texts' \in Any, pc[p] = "write"
      PROVE  \A f \in entries : f # None => files'[f].text = files[f].text
  <2>1. temporary[p] \in Inodes /\ temporary[p] \notin entries
    BY <1>7 DEF FileInv, Locals, Temporaries
  <2>2. \A f \in Inodes : f # temporary[p] => files'[f] = files[f]
    BY <1>7, <2>1, WriteFacts, ConstantFacts DEF FileInv
  <2> QED BY <2>1, <2>2 DEF FileInv, Types, Names
<1>8. ASSUME ~outsiders, NEW p \in Editors, Save(p)
      PROVE  [Cell!Next]_<<CellValue, CellCandidates>>
  <2>1. CASE WriteAll(p)
    <3>1. texts' \in Any
      BY <2>1, ConstantFacts DEF FileInv, Types, WriteAll, Any
    <3> QED BY <1>3, <1>7, <1>8, <2>1, <3>1 DEF WriteAll
  <2>2. CASE SaveFails(p)
    <3>1. CASE pc[p] = "write"
      <4>1. texts' \in Any
        BY <2>2 DEF FileInv, Types, SaveFails, Any
      <4> QED BY <1>3, <1>7, <1>8, <2>2, <3>1, <4>1 DEF SaveFails
    <3>2. CASE pc[p] # "write"
      BY <1>3, <1>8, <2>2, <3>2 DEF SaveFails
    <3> QED BY <3>1, <3>2
  <2>3. CASE Reserve(p) \/ Rename(p) \/ RemoveReservation(p)
    <3>1. files' = files /\ (entries' = entries \union {path'} \/ (entries' = entries /\ path' = path))
      BY <2>3 DEF Reserve, Rename, RemoveReservation
    <3> QED BY <1>3, <1>4, <1>8, <3>1
  <2>4. CASE SyncFolder(p)
    BY <1>3, <1>5, <1>8, <2>4 DEF SyncFolder
  <2>5. CASE CheckStamp(p) \/ CreateTemporary(p) \/ SyncAll(p) \/ RemoveTemporary(p)
    BY <1>3, <1>8, <2>5 DEF CheckStamp, CreateTemporary, SyncAll, RemoveTemporary
  <2> QED BY <1>8, <2>1, <2>2, <2>3, <2>4, <2>5 DEF Save
<1>9. CASE ~outsiders /\ ((\E p \in Editors : Edit(p)) \/ UNCHANGED vars)
  <2>1. path' = path /\ entries' = entries /\ files' = files
    BY <1>9 DEF Edit, OpenMissing, OpenFile, StampBefore, ReadBytes, StampAfter, CloseEditor, vars
  <2> QED BY <1>3, <1>9, <2>1
<1>10. CASE ~outsiders /\ (OutsideBegins \/ OutsideEnds)
  BY <1>10 DEF FileInv, Durable, OutsideBegins, OutsideEnds
<1>11. CASE ~outsiders /\ LosePower
  <2>1. PICK f \in entries, lost \in SUBSET {g \in Inodes \ synced : files[g].text # Empty} :
           /\ path' = f /\ entries' = {f}
           /\ files' = [g \in Inodes |->
                          IF g \in lost THEN [files[g] EXCEPT !.text = Torn] ELSE files[g]]
    BY <1>11 DEF LosePower
  <2>2. \A g \in entries : g # None => g \in Inodes /\ g \notin lost
    BY <1>11 DEF FileInv, Types, Names, Durable
  <2>3. \A g \in entries : g # None => files'[g].text = files[g].text
    BY <2>1, <2>2
  <2> QED BY <1>6, <1>11, <2>1, <2>3
<1> QED BY <1>2, <1>8, <1>9, <1>10, <1>11 DEF Next

(* Where no other program writes in place, write_atomically replaces the    *)
(* file in one step, and after a loss of power the path names nothing or a  *)
(* whole text it had since its folder was last flushed.                     *)
THEOREM ReplacementIsAtomic == Spec => ReplacesAtomically
<1>1. Init => Cell!Init
  BY CellInit
<1>2. FileInv /\ FileInv' /\ [Next]_vars => [Cell!Next]_<<CellValue, CellCandidates>>
  BY CellStep
<1> QED BY <1>1, <1>2, FileInvariance, PTL DEF Spec, ReplacesAtomically, Cell!Spec, CellValue, CellCandidates
=============================================================================
