------------------------------- MODULE FatFs -------------------------------
(***************************************************************************)
(* The part of FatFs (ext/fatfs/src/ff.c) that stores a new file on a      *)
(* FAT16 or FAT32 volume with a fixed root directory: mounting, creating   *)
(* an entry, allocating clusters, writing data and closing.                *)
(*                                                                         *)
(* FatFs keeps one sector of the FAT or of the directory in memory, the    *)
(* window, and writes it back only when another sector is needed or the    *)
(* file is synchronised.  fs.fat and fs.dir are the tables as FatFs reads  *)
(* them: the window's sector from memory, every other sector from the      *)
(* card.  card holds what survives a power cut.  A sector write happens    *)
(* completely or not at all.  The three directory records of a long name   *)
(* count as one slot, and sizes are counted in clusters.                   *)
(***************************************************************************)
EXTENDS Integers, FiniteSetsExt

CONSTANTS
  NClusters,     \* data clusters of the volume
  FatPerSector,  \* FAT entries in a sector
  NRootDir,      \* slots of the root directory
  DirPerSector   \* slots in a sector

ASSUME FatAssumption ==
  \A n \in {NClusters, FatPerSector, NRootDir, DirPerSector} : n \in Nat \ {0}

VARIABLES
  card,   \* the FAT, the directory and FSInfo's free count, as stored
  data,   \* what is stored in each cluster
  fs,     \* the FATFS object SDC_FS
  fil,    \* the FIL object; f_write's local clst is its field next
  fr      \* result of the last call

fatVars == <<card, data, fs, fil, fr>>

Clusters == 2 .. NClusters + 1
Slots == 0 .. NRootDir - 1

\* A FAT entry is free, the end of a chain, or the next cluster.
Unused == 0
EOC == 1

\* A free count above the number of clusters is not known.
Unknown == NClusters + 1

NoEntry == [name |-> -1, sclust |-> 0, size |-> 0]
Blank == <<0, 0>>
NoFile == [slot |-> -1, sclust |-> 0, clust |-> 0, next |-> 0, size |-> 0,
           dirty |-> FALSE]

\* Sectors: FSInfo, then the FAT, then the directory.
NoSector == -1
FsInfoSect == 0
FatSect(c) == 1 + c \div FatPerSector
DirSect(s) == FatSect(NClusters + 1) + 1 + s \div DirPerSector

FreeIn(fat) == {c \in Clusters : fat[c] = Unused}
SlotsOf(dir, name) == {s \in Slots : dir[s].name = name}

\* SDC_FS when no volume is mounted: nothing in its window counts.
Unmounted ==
  [fs_type |-> FALSE, fat |-> [c \in Clusters |-> Unused],
   dir |-> [s \in Slots |-> NoEntry], winsect |-> NoSector, wflag |-> FALSE,
   free_clst |-> Unknown]

\* sync_window: the window goes back to the card if it is dirty.
SyncWindow(v) ==
  IF ~v.wflag THEN card
  ELSE [card EXCEPT
    !.fat = [c \in Clusters |->
               IF FatSect(c) = v.winsect THEN v.fat[c] ELSE @[c]],
    !.dir = [s \in Slots |->
               IF DirSect(s) = v.winsect THEN v.dir[s] ELSE @[s]]]

\* move_window: nothing happens when the sector is already in the window.
MoveWindow(v, sect) ==
  /\ card' = IF sect = v.winsect THEN card ELSE SyncWindow(v)
  /\ fs' = IF sect = v.winsect THEN v
           ELSE [v EXCEPT !.winsect = sect, !.wflag = FALSE]

\* A disk access of move_window fails: the dirty window is kept, or it was
\* written and its place could not be filled.
MoveWindowFails(v) ==
  \/ card' = card /\ fs' = v
  \/ card' = SyncWindow(v)
     /\ fs' = [v EXCEPT !.winsect = NoSector, !.wflag = FALSE]

\* f_mount(fs, path, 0) only registers the object and invalidates it.
f_mount == fs' = Unmounted /\ UNCHANGED <<card, data, fil, fr>>

\* find_volume: an object that is not valid is filled from the card.
Volume ==
  IF fs.fs_type THEN fs
  ELSE [fs_type |-> TRUE, fat |-> card.fat, dir |-> card.dir,
        winsect |-> FsInfoSect, wflag |-> FALSE, free_clst |-> card.free]

(***************************************************************************)
(* f_open(fil, name, FA_WRITE | FA_CREATE_NEW)                             *)
(***************************************************************************)

OpenExisting(name) ==
  \E s \in SlotsOf(Volume.dir, name) :
    /\ MoveWindow(Volume, DirSect(s))
    /\ fr' = "FR_EXIST" /\ fil' = NoFile
    /\ UNCHANGED data

\* dir_register: the first unused slot; the entry stays in the window.
OpenCreates(name) ==
  LET unused == SlotsOf(Volume.dir, NoEntry.name)
      s == Min(unused)
  IN /\ SlotsOf(Volume.dir, name) = {} /\ unused # {}
     /\ card' = SyncWindow(Volume)
     /\ fs' = [Volume EXCEPT !.winsect = DirSect(s), !.wflag = TRUE,
                             !.dir[s] = [NoEntry EXCEPT !.name = name]]
     /\ fil' = [NoFile EXCEPT !.slot = s]
     /\ fr' = "FR_OK"
     /\ UNCHANGED data

\* No slot is left, or the volume or the directory cannot be read.
OpenFails(name) ==
  /\ \/ /\ SlotsOf(Volume.dir, name) \cup SlotsOf(Volume.dir, NoEntry.name) = {}
        /\ MoveWindow(Volume, DirSect(NRootDir - 1))
        /\ fr' = "FR_DENIED"
     \/ card' = card /\ fs' = Unmounted /\ fr' = "FR_DISK_ERR"
     \/ MoveWindowFails(Volume) /\ fr' = "FR_DISK_ERR"
  /\ fil' = NoFile
  /\ UNCHANGED data

(***************************************************************************)
(* f_write, one cluster at a time                                          *)
(***************************************************************************)

\* validate: the object of a failed f_open has no volume.
WriteInvalid ==
  /\ fil = NoFile
  /\ fr' = "FR_INVALID_OBJECT"
  /\ UNCHANGED <<card, data, fs, fil>>

\* create_chain: mark a free cluster as the end of a chain.  Which one is
\* free first depends on last_clst, a hint.  Reading the FAT writes the window
\* back as soon as it leaves the sector in it.
ExtendChain ==
  /\ fs.free_clst > 0
  /\ \E ncl \in FreeIn(fs.fat) :
       LET stays == FatSect(ncl) = fs.winsect
                    /\ (fil.clust # 0 => FatSect(fil.clust) = fs.winsect)
       IN /\ card' \in {SyncWindow(fs)} \cup (IF stays THEN {card} ELSE {})
          /\ fs' = [fs EXCEPT !.winsect = FatSect(ncl), !.wflag = TRUE,
                              !.fat[ncl] = EOC]
          /\ fil' = [fil EXCEPT !.next = ncl]
          /\ UNCHANGED <<data, fr>>

\* Slip: the count goes down once for each FAT entry written.
OneLessTwice(v) ==
  IF v.free_clst <= NClusters THEN v.free_clst - 2 ELSE v.free_clst

\* free_clst after an allocation: an unknown count stays unknown.
OneLess(v) == IF v.free_clst <= NClusters THEN v.free_clst - 1 ELSE v.free_clst

\* Slip: the entry of the previous cluster is changed in the old window.
LinkClusterInPlace ==
  /\ fs' = [fs EXCEPT !.fat = IF fil.clust = 0 THEN @
                              ELSE [@ EXCEPT ![fil.clust] = fil.next],
                      !.free_clst = OneLess(fs)]
  /\ fil' = [fil EXCEPT !.clust = fil.next,
               !.sclust = IF fil.sclust = 0 THEN fil.next ELSE @]
  /\ UNCHANGED <<card, data, fr>>

\* create_chain: link the new cluster from the previous one, if there is one,
\* and make it f_write's current cluster.
LinkCluster ==
  LET link == fil.clust # 0
      moves == link /\ FatSect(fil.clust) # fs.winsect
  IN /\ card' = IF moves THEN SyncWindow(fs) ELSE card
     /\ fs' = [fs EXCEPT
          !.winsect = IF link THEN FatSect(fil.clust) ELSE @,
          !.fat = IF link THEN [@ EXCEPT ![fil.clust] = fil.next] ELSE @,
          !.free_clst = OneLess(fs)]
     /\ fil' = [fil EXCEPT !.clust = fil.next,
                  !.sclust = IF fil.sclust = 0 THEN fil.next ELSE @]
     /\ UNCHANGED <<data, fr>>

\* Slip: the file does not grow.
WriteSectorsUncounted(piece) ==
  data' = [data EXCEPT ![fil.clust] = piece] /\ UNCHANGED <<card, fs, fil, fr>>

\* disk_write of the whole sectors of a cluster.
WriteSectors(piece) ==
  /\ data' = [data EXCEPT ![fil.clust] = piece]
  /\ fil' = [fil EXCEPT !.size = @ + 1]
  /\ UNCHANGED <<card, fs, fr>>

\* The last sector is not full: it waits in fil.buf.
BufferTail ==
  /\ fil' = [fil EXCEPT !.size = @ + 1, !.dirty = TRUE]
  /\ UNCHANGED <<card, data, fs, fr>>

\* No free cluster: f_write returns FR_OK with fewer bytes written.
DiskFull ==
  /\ fs.free_clst = 0 \/ FreeIn(fs.fat) = {}
  /\ \/ card' = card /\ fs' = fs
     \/ card' = SyncWindow(fs)
        /\ fs' = [fs EXCEPT !.wflag = FALSE, !.winsect = FatSect(2)]
  /\ fil' = NoFile
  /\ UNCHANGED <<data, fr>>

\* ABORT after an error in the FAT or the directory.
WriteFatFails ==
  /\ MoveWindowFails(fs)
  /\ fil' = NoFile /\ fr' = "FR_DISK_ERR"
  /\ UNCHANGED data

\* ABORT after an error in the data: the cluster holds anything.
WriteDataFails ==
  /\ data' \in {data, [data EXCEPT ![fil.clust] = Blank]}
  /\ fil' = NoFile /\ fr' = "FR_DISK_ERR"
  /\ UNCHANGED <<card, fs>>

(***************************************************************************)
(* f_close: f_sync, then the file object is invalid                        *)
(***************************************************************************)

\* f_sync writes the buffered tail.
SyncBuffer(piece) ==
  /\ data' = IF fil.dirty THEN [data EXCEPT ![fil.clust] = piece] ELSE data
  /\ fil' = [fil EXCEPT !.dirty = FALSE]
  /\ UNCHANGED <<card, fs, fr>>

\* Slip: the entry is written while the FAT is still in the window.
SyncEntryFirst ==
  /\ card' = [card EXCEPT !.dir[fil.slot].sclust = fil.sclust,
                          !.dir[fil.slot].size = fil.size]
  /\ fs' = [fs EXCEPT !.dir = card'.dir]
  /\ UNCHANGED <<data, fil, fr>>

\* The directory sector comes into the window and its entry is updated; that
\* writes the last FAT sector.
SyncEntry ==
  /\ card' = IF fs.winsect = DirSect(fil.slot) THEN card ELSE SyncWindow(fs)
  /\ fs' = [fs EXCEPT !.winsect = DirSect(fil.slot), !.wflag = TRUE,
                      !.dir[fil.slot].sclust = fil.sclust,
                      !.dir[fil.slot].size = fil.size]
  /\ UNCHANGED <<data, fil, fr>>

\* sync_fs: the window, with the entry, goes to the card.
SyncFs ==
  /\ card' = SyncWindow(fs)
  /\ fs' = [fs EXCEPT !.wflag = FALSE]
  /\ UNCHANGED <<data, fil, fr>>

\* sync_fs, FAT32: FSInfo is written, whatever disk_write returns.  The last
\* request, CTRL_SYNC, may fail.
SyncFsInfo ==
  /\ card' \in {card, [card EXCEPT !.free = fs.free_clst]}
  /\ fs' = [fs EXCEPT !.winsect = FsInfoSect]
  /\ fil' = NoFile
  /\ fr' \in {"FR_OK", "FR_DISK_ERR"}
  /\ UNCHANGED data

\* An access of f_sync fails; the caller cannot tell how far it came.
SyncFails ==
  /\ MoveWindowFails(fs)
  /\ fil' = NoFile /\ fr' = "FR_DISK_ERR"
  /\ UNCHANGED data

FatInit ==
  /\ card \in [fat : {[c \in Clusters |-> Unused]},
               dir : {[s \in Slots |-> NoEntry]}, free : {NClusters, Unknown}]
  /\ data = [c \in Clusters |-> Blank]
  /\ fs = Unmounted /\ fil = NoFile /\ fr = "FR_OK"

(***************************************************************************)
(* What a reader of the card finds.                                        *)
(***************************************************************************)

\* The first n clusters of the chain that starts at c, as the FAT links them.
ChainFrom(fat, c, n) ==
  LET chain[k \in 1 .. n] ==
        IF k = 1 THEN c
        ELSE IF chain[k - 1] \in Clusters THEN fat[chain[k - 1]] ELSE Unused
  IN chain

FatTypeOK ==
  LET Fat == [Clusters -> {Unused, EOC} \cup Clusters]
      Dir == [Slots -> [name : Int, sclust : {0} \cup Clusters, size : Nat]]
  IN /\ card.fat \in Fat /\ card.dir \in Dir /\ card.free \in 0 .. Unknown
     /\ fs.fat \in Fat /\ fs.dir \in Dir /\ fs.free_clst \in 0 .. Unknown
     /\ fs.fs_type \in BOOLEAN /\ fs.wflag \in BOOLEAN
     /\ fs.winsect \in {NoSector} \cup 0 .. DirSect(NRootDir - 1)
     /\ fil.slot \in {-1} \cup Slots /\ fil.size \in Nat
     /\ {fil.sclust, fil.clust, fil.next} \subseteq {0} \cup Clusters
     /\ fil.dirty \in BOOLEAN
     /\ fr \in {"FR_OK", "FR_EXIST", "FR_DENIED", "FR_DISK_ERR",
               "FR_INVALID_OBJECT"}

\* A mounted volume differs from the card only in the window's sector, and
\* only when that is marked dirty: what move_window drops is never needed
\* (ff.c 892-913).
OneDirtySector ==
  fs.fs_type =>
    /\ \A c \in Clusters : fs.fat[c] # card.fat[c] =>
         fs.wflag /\ FatSect(c) = fs.winsect
    /\ \A s \in Slots : fs.dir[s] # card.dir[s] =>
         fs.wflag /\ DirSect(s) = fs.winsect

\* On the card every entry with a size has a chain of that many clusters that
\* ends there, and no cluster belongs to two entries: at every moment, so
\* after a power cut between any two writes too (ff.c 1347-1441, 3774-3843).
ChainsWhole ==
  LET chain(s) == ChainFrom(card.fat, card.dir[s].sclust, card.dir[s].size)
      clusters(s) == {chain(s)[k] : k \in 1 .. card.dir[s].size}
      files == {s \in Slots : card.dir[s].size > 0}
  IN \A s \in files :
       /\ clusters(s) \subseteq Clusters
       /\ card.fat[chain(s)[card.dir[s].size]] = EOC
       /\ \A t \in files \ {s} : clusters(s) \cap clusters(t) = {}

\* The free count never falls below what the FAT holds, so FatFs does not call
\* a volume full that has room (ff.c 1367, 1432-1434; 940-950).
FreeNotUnderstated ==
  /\ Cardinality(FreeIn(card.fat)) <= card.free
  /\ fs.fs_type => Cardinality(FreeIn(fs.fat)) <= fs.free_clst
=============================================================================
