----------------------------- MODULE ImageStore ----------------------------
(***************************************************************************)
(* write_jpeg of main.c over FatFs: finding a file name for the next       *)
(* image, writing it and closing it, with the failures each call can       *)
(* report and a power cut or reset between any two disk accesses.          *)
(* image000000.jpg is the name 0; image i is the sequence of the pieces    *)
(* <<i, 1>>, <<i, 2>>, ..., one for each cluster it fills.                 *)
(***************************************************************************)
EXTENDS FatFs, Sequences

CONSTANTS
  IndexLimit,  \* the search for a name stops here (1000000 in the code)
  MaxShots,    \* bound: images the camera delivers
  MaxLength    \* bound: clusters of an image

ASSUME StoreAssumption ==
  IndexLimit \in Nat /\ MaxShots \in Nat /\ MaxLength \in Nat \ {0}

VARIABLES
  image_index,
  length,   \* history: the length of each image taken
  pc

vars == <<card, data, fs, fil, fr, image_index, length, pc>>

\* The image in OV5640_ram_buffer, and the piece of it f_write is at.
Shot == Len(length)
Piece(k) == <<Shot, k>>

\* Every name the index can reach.
Names == 0 .. IndexLimit + MaxShots

\* The next image is in the buffer: cmd_image drops the volume and calls
\* write_jpeg.
cmd_image ==
  /\ pc = "idle" /\ Shot < MaxShots
  /\ \E n \in 1 .. MaxLength : length' = Append(length, n)
  /\ f_mount
  /\ pc' = "open"
  /\ UNCHANGED image_index

OpenFirst ==
  /\ pc = "open"
  /\ \/ OpenExisting(image_index) /\ pc' = "search"
     \/ OpenCreates(image_index) /\ pc' = "extend"
     \/ OpenFails(image_index) /\ pc' = "nofile"
  /\ UNCHANGED <<image_index, length>>

\* Slip: the index starts over at the limit.
OpenNextWraps ==
  /\ pc = "search"
  /\ image_index' = (image_index + 1) % (IndexLimit + 1)
  /\ \/ OpenExisting(image_index') /\ pc' = "search"
     \/ OpenCreates(image_index') /\ pc' = "extend"
     \/ OpenFails(image_index') /\ pc' = "nofile"
  /\ UNCHANGED length

OpenNext ==
  /\ pc = "search" /\ image_index < IndexLimit
  /\ image_index' = image_index + 1
  /\ \/ OpenExisting(image_index') /\ pc' = "search"
     \/ OpenCreates(image_index') /\ pc' = "extend"
     \/ OpenFails(image_index') /\ pc' = "nofile"
  /\ UNCHANGED length

\* f_write is called whatever f_open returned; without a file it fails.
WriteWithoutFile ==
  /\ pc = "nofile" \/ (pc = "search" /\ image_index >= IndexLimit)
  /\ WriteInvalid
  /\ pc' = "idle"
  /\ UNCHANGED <<image_index, length>>

WriteExtend ==
  /\ pc = "extend"
  /\ ExtendChain
  /\ pc' = "link"
  /\ UNCHANGED <<image_index, length>>

WriteLink ==
  /\ pc = "link"
  /\ LinkCluster
  /\ pc' = "data"
  /\ UNCHANGED <<image_index, length>>

WritePiece ==
  /\ pc = "data" /\ fil.size + 1 < length[Shot]
  /\ WriteSectors(Piece(fil.size + 1))
  /\ pc' = "extend"
  /\ UNCHANGED <<image_index, length>>

\* All is written: the index moves on before the file is closed.
WriteLastPiece ==
  /\ pc = "data" /\ fil.size + 1 = length[Shot]
  /\ WriteSectors(Piece(fil.size + 1)) \/ BufferTail
  /\ image_index' = image_index + 1
  /\ pc' = "buffer"
  /\ UNCHANGED length

\* Slip: a short write is closed like a complete one.
WriteFailedCloses ==
  /\ \/ pc \in {"extend", "link"} /\ WriteFatFails /\ pc' = "idle"
     \/ pc = "data" /\ WriteDataFails /\ pc' = "idle"
     \/ pc = "extend" /\ (fs.free_clst = 0 \/ FreeIn(fs.fat) = {})
        /\ fil.size > 0 /\ pc' = "buffer"
        /\ UNCHANGED <<card, data, fs, fil, fr>>
  /\ UNCHANGED <<image_index, length>>

\* Slip: a failed write gives back a name it has not taken.
WriteFailedGivesBack ==
  /\ \/ pc \in {"extend", "link"} /\ WriteFatFails
     \/ pc = "data" /\ WriteDataFails
     \/ pc = "extend" /\ DiskFull
  /\ image_index' = image_index - 1
  /\ pc' = "idle"
  /\ UNCHANGED length

\* Slip: a failed write uses up its name.
WriteFailedSkips ==
  /\ \/ pc \in {"extend", "link"} /\ WriteFatFails
     \/ pc = "data" /\ WriteDataFails
     \/ pc = "extend" /\ DiskFull
  /\ image_index' = image_index + 1
  /\ pc' = "idle"
  /\ UNCHANGED length

\* After an error, or with the disk full, the file is left open.
WriteFailed ==
  /\ \/ pc \in {"extend", "link"} /\ WriteFatFails
     \/ pc = "data" /\ WriteDataFails
     \/ pc = "extend" /\ DiskFull
  /\ pc' = "idle"
  /\ UNCHANGED <<image_index, length>>

CloseBuffer ==
  /\ pc = "buffer"
  /\ SyncBuffer(Piece(fil.size))
  /\ pc' = "entry"
  /\ UNCHANGED <<image_index, length>>

CloseEntry ==
  /\ pc = "entry"
  /\ SyncEntry
  /\ pc' = "window"
  /\ UNCHANGED <<image_index, length>>

CloseWindow ==
  /\ pc = "window"
  /\ SyncFs
  /\ pc' = "fsinfo"
  /\ UNCHANGED <<image_index, length>>

CloseInfo ==
  /\ pc = "fsinfo"
  /\ SyncFsInfo
  /\ pc' = "idle"
  /\ UNCHANGED <<image_index, length>>

\* f_close fails: the code prints the result and goes on.
CloseFailed ==
  /\ \/ pc = "buffer" /\ fil.dirty /\ WriteDataFails
     \/ pc \in {"entry", "window"} /\ SyncFails
  /\ pc' = "idle"
  /\ UNCHANGED <<image_index, length>>

write_jpeg ==
  \/ OpenFirst \/ OpenNext \/ WriteWithoutFile
  \/ WriteExtend \/ WriteLink \/ WritePiece \/ WriteLastPiece \/ WriteFailed
  \/ CloseBuffer \/ CloseEntry \/ CloseWindow \/ CloseInfo \/ CloseFailed

\* cmd_reset, a halted assertion or a power cut: RAM is lost.
Reset ==
  /\ fs' = Unmounted /\ fil' = NoFile /\ fr' = "FR_OK"
  /\ image_index' = 0
  /\ pc' = "idle"
  /\ UNCHANGED <<card, data, length>>

Init == FatInit /\ image_index = 0 /\ length = <<>> /\ pc = "idle"

Next == cmd_image \/ write_jpeg \/ Reset

\* write_jpeg runs to its end unless a reset cuts it off.
Spec == Init /\ [][Next]_vars /\ WF_vars(write_jpeg)

(***************************************************************************)
(* Properties.                                                             *)
(***************************************************************************)

TypeOK ==
  /\ FatTypeOK
  /\ image_index \in Names
  /\ length \in Seq(1 .. MaxLength) /\ Shot <= MaxShots
  /\ pc \in {"idle", "open", "search", "nofile", "extend", "link", "data",
             "buffer", "entry", "window", "fsinfo"}

\* The image a reader finds under a name: its number, 0 for none or an empty
\* file, Broken for anything that is not an image from its first to its last
\* piece.
Broken == -1
StoredAs(n) ==
  LET entries == {card.dir[s] : s \in SlotsOf(card.dir, n)}
      found(e) == ChainFrom(card.fat, e.sclust, e.size)
      holds(e, i) == /\ e.size = length[i]
                     /\ \A k \in 1 .. e.size : /\ found(e)[k] \in Clusters
                                               /\ data[found(e)[k]] = <<i, k>>
      files == {e \in entries : e.size > 0}
  IN IF files = {} THEN 0
     ELSE IF \E i \in 1 .. Shot : \E e \in files : holds(e, i)
     THEN CHOOSE i \in 1 .. Shot : \E e \in files : holds(e, i)
     ELSE Broken

Card == INSTANCE Album
        WITH album <- [n \in Names |-> StoredAs(n)], shot <- Shot

\* The card implements the album, whatever fails and whenever the power is
\* cut: an image is there whole or not at all, it is never overwritten or
\* lost, and file names follow the order in which the images were taken, even
\* though image_index starts at 0 again after a reset (main.c 256-290).
ImplementsAlbum == Card!Spec

\* The names on the card have no gap: a new image gets the first unused one
\* ("search for first unused index", main.c 260), also after failed writes,
\* failed closes and resets.
NoGaps ==
  LET used == {card.dir[s].name : s \in Slots} \ {NoEntry.name}
  IN \A i \in used : 0 .. i \subseteq used

\* The clusters of the files on the card, and those of the file that is being
\* written: its chain so far, and the cluster that is being linked to it.
Reachable ==
  LET clusters(fat, c, n) == {ChainFrom(fat, c, n)[k] : k \in 1 .. n}
      filed == UNION {clusters(card.fat, card.dir[s].sclust, card.dir[s].size) :
                        s \in Slots}
      own == clusters(fs.fat, fil.sclust,
                      IF pc = "data" THEN fil.size + 1 ELSE fil.size)
  IN filed
     \cup (IF pc \in {"extend", "link", "data", "buffer", "entry", "window"}
           THEN own ELSE {})
     \cup (IF pc = "link" THEN {fil.next} ELSE {})

\* The clusters marked as used that nothing leads to.
Lost ==
  LET fat == IF fs.fs_type THEN fs.fat ELSE card.fat
  IN (Clusters \ FreeIn(fat)) \ Reachable

\* Only a write or a close that fails, a full disk and a reset lose clusters:
\* neither an image that is stored nor an open that fails leaves a cluster
\* marked that no chain leads to (ff.c 1347-1441, main.c 256-290).
LosesByFailureOnly ==
  [][Lost' \subseteq Lost \/ WriteFailed \/ CloseFailed \/ Reset]_vars

\* The search ends, with or without a name: on a full volume too
\* (main.c 261-265).
WriteEnds == pc = "open" ~> pc = "idle"
=============================================================================
