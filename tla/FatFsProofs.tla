---------------------------- MODULE FatFsProofs ----------------------------
(***************************************************************************)
(* Lemmas about the operations of FatFs, for every volume: where its       *)
(* sectors are, what writing the window back leaves on the card, and what  *)
(* each call does to the tables.                                           *)
(***************************************************************************)
EXTENDS FatFs, FiniteSetTheorems, NaturalsInduction, WellFoundedInduction, TLAPS

(***************************************************************************)
(* Shapes.                                                                 *)
(***************************************************************************)

FatTable == [Clusters -> {Unused, EOC} \cup Clusters]
Entry == [name : Int, sclust : {0} \cup Clusters, size : Nat]
DirTable == [Slots -> Entry]
Sectors == {NoSector} \cup 0 .. DirSect(NRootDir - 1)

CardState == [fat : FatTable, dir : DirTable, free : 0 .. Unknown]
FsState ==
  [fs_type : BOOLEAN, fat : FatTable, dir : DirTable, winsect : Sectors,
   wflag : BOOLEAN, free_clst : 0 .. Unknown]
FileState ==
  [slot : {-1} \cup Slots, sclust : {0} \cup Clusters, clust : {0} \cup Clusters,
   next : {0} \cup Clusters, size : Nat, dirty : BOOLEAN]
Results == {"FR_OK", "FR_EXIST", "FR_DENIED", "FR_DISK_ERR", "FR_INVALID_OBJECT"}

\* Everything has its fields, and they have their types.
Shaped ==
  /\ card \in CardState /\ data \in [Clusters -> Nat \X Nat]
  /\ fs \in FsState /\ fil \in FileState /\ fr \in Results

(***************************************************************************)
(* Sectors.                                                                *)
(***************************************************************************)

\* A quotient grows with its dividend.
LEMMA QuotientGrows ==
  ASSUME NEW d \in Nat \ {0}, NEW a \in Nat, NEW b \in Nat, a <= b
  PROVE  a \div d \in Nat /\ b \div d \in Nat /\ a \div d <= b \div d
<1> DEFINE p == a \div d  q == b \div d
<1>1. /\ p \in Int /\ d * p <= a /\ a < d * p + d
      /\ q \in Int /\ d * q <= b /\ b < d * q + d
  OBVIOUS
<1> HIDE DEF p, q
<1>2. \A n \in Int : n < 0 => d * n + d <= 0
  <2> SUFFICES ASSUME NEW n \in Int, n < 0 PROVE d * n + d <= 0
    OBVIOUS
  <2>1. PICK m \in Nat : n = -(m + 1)
    <3>1. -(n + 1) \in Nat /\ n = -(-(n + 1) + 1)
      OBVIOUS
    <3> QED
      BY <3>1
  <2>2. d * n = -(d * m) - d /\ d * m \in Nat
    BY <2>1
  <2> QED
    BY <2>2
<1>3. p >= 0 /\ q >= 0
  BY <1>1, <1>2
<1>4. p <= q
  <2> SUFFICES ASSUME p > q PROVE FALSE
    BY <1>1
  <2>1. PICK m \in Nat : p = q + 1 + m
    <3>1. p - q - 1 \in Nat /\ p = q + 1 + (p - q - 1)
      BY <1>1
    <3> QED
      BY <3>1
  <2>2. d * p = d * q + d + d * m /\ d * m \in Nat
    BY <1>1, <2>1
  <2> QED
    BY <1>1, <2>2
<1> QED
  BY <1>1, <1>3, <1>4 DEF p, q

\* The directory lies behind the FAT, and the FAT behind FSInfo.
LEMMA SectorLayout ==
  /\ \A c \in Clusters : FatSect(c) \in Sectors /\ FatSect(c) > 0
  /\ \A s \in Slots : DirSect(s) \in Sectors /\ DirSect(s) > 0
  /\ \A c \in Clusters, s \in Slots : FatSect(c) < DirSect(s)
  /\ FsInfoSect \in Sectors /\ NoSector \in Sectors
<1> USE FatAssumption DEF Clusters, Slots
<1>1. NRootDir - 1 \in Slots /\ NClusters + 1 \in Nat
  OBVIOUS
<1>2. \A c \in Clusters : /\ c \div FatPerSector \in Nat
                          /\ (NClusters + 1) \div FatPerSector \in Nat
                          /\ c \div FatPerSector <= (NClusters + 1) \div FatPerSector
  BY QuotientGrows
<1>3. \A s \in Slots : /\ s \div DirPerSector \in Nat
                       /\ (NRootDir - 1) \div DirPerSector \in Nat
                       /\ s \div DirPerSector <= (NRootDir - 1) \div DirPerSector
  BY QuotientGrows
<1>4. (NClusters + 1) \div FatPerSector \in Nat
  BY <1>2
<1> QED
  BY <1>1, <1>2, <1>3, <1>4 DEF FatSect, DirSect, Sectors, NoSector, FsInfoSect

(***************************************************************************)
(* The window.                                                             *)
(***************************************************************************)

\* A volume in memory differs from the tables of a card only in its dirty window.
Agrees(k, v) ==
  /\ \A c \in Clusters : v.fat[c] # k.fat[c] => v.wflag /\ FatSect(c) = v.winsect
  /\ \A s \in Slots : v.dir[s] # k.dir[s] => v.wflag /\ DirSect(s) = v.winsect

\* Writing the window back makes the card's tables those of the volume.
LEMMA Synced ==
  ASSUME card \in CardState, NEW v \in FsState, Agrees(card, v)
  PROVE  /\ SyncWindow(v) \in CardState
         /\ SyncWindow(v).fat = v.fat /\ SyncWindow(v).dir = v.dir
         /\ SyncWindow(v).free = card.free
<1>1. /\ card.fat \in FatTable /\ card.dir \in DirTable /\ card.free \in 0 .. Unknown
      /\ v.fat \in FatTable /\ v.dir \in DirTable /\ v.wflag \in BOOLEAN
  BY DEF CardState, FsState
<1> DEFINE wfat == [c \in Clusters |->
                      IF FatSect(c) = v.winsect THEN v.fat[c] ELSE card.fat[c]]
           wdir == [s \in Slots |->
                      IF DirSect(s) = v.winsect THEN v.dir[s] ELSE card.dir[s]]
<1>2. CASE v.wflag
  <2>1. wfat = v.fat
    BY <1>1 DEF Agrees, FatTable
  <2>2. wdir = v.dir
    BY <1>1 DEF Agrees, DirTable
  <2>3. SyncWindow(v) = [card EXCEPT !.fat = wfat, !.dir = wdir]
    BY <1>2 DEF SyncWindow
  <2> HIDE DEF wfat, wdir
  <2> QED
    BY <1>1, <2>1, <2>2, <2>3 DEF CardState
<1>3. CASE ~v.wflag
  <2>1. v.fat = card.fat
    BY <1>1, <1>3 DEF Agrees, FatTable
  <2>2. v.dir = card.dir
    BY <1>1, <1>3 DEF Agrees, DirTable
  <2> QED
    BY <1>3, <2>1, <2>2 DEF SyncWindow
<1> QED
  BY <1>1, <1>2, <1>3

\* The tables of v are on the card now.
Written(v) == card'.fat = v.fat /\ card'.dir = v.dir /\ card'.free = card.free

\* v stays in memory, its window perhaps written back.
Kept(v) ==
  /\ card' \in CardState /\ fs' \in FsState /\ Agrees(card', fs')
  /\ fs'.fat = v.fat /\ fs'.dir = v.dir /\ fs'.free_clst = v.free_clst
  /\ fs'.fs_type = v.fs_type
  /\ card' = card \/ Written(v)
  /\ fs'.wflag => v.wflag

\* Moving the window keeps the tables, also when a disk access fails.
LEMMA WindowMoves ==
  ASSUME card \in CardState, NEW v \in FsState, Agrees(card, v),
         MoveWindowFails(v) \/ \E sect \in Sectors : MoveWindow(v, sect)
  PROVE  Kept(v)
<1>1. CASE card' = card /\ fs' = v
  BY <1>1 DEF Kept
<1>2. ASSUME NEW sect \in Sectors, card' = SyncWindow(v),
             fs' = [v EXCEPT !.winsect = sect, !.wflag = FALSE]
      PROVE  Kept(v)
  <2>1. card' \in CardState /\ Written(v)
    BY <1>2, Synced DEF Written
  <2>2. /\ fs' \in FsState /\ fs'.fat = v.fat /\ fs'.dir = v.dir
        /\ fs'.free_clst = v.free_clst /\ fs'.fs_type = v.fs_type /\ ~fs'.wflag
    BY <1>2 DEF FsState
  <2>3. Agrees(card', fs')
    BY <2>1, <2>2 DEF Agrees, Written
  <2> QED
    BY <2>1, <2>2, <2>3 DEF Kept
<1> QED
  BY <1>1, <1>2, SectorLayout DEF MoveWindow, MoveWindowFails

\* The volume a call works on agrees with the card.
LEMMA VolumeAgrees ==
  ASSUME Shaped, OneDirtySector
  PROVE  /\ Volume \in FsState /\ Volume.fs_type /\ Agrees(card, Volume)
         /\ ~fs.fs_type => /\ Volume.fat = card.fat /\ Volume.dir = card.dir
                           /\ Volume.free_clst = card.free /\ ~Volume.wflag
         /\ fs.fs_type => Volume = fs
<1>1. CASE fs.fs_type
  BY <1>1 DEF Volume, Shaped, OneDirtySector, Agrees
<1>2. CASE ~fs.fs_type
  <2>1. Volume = [fs_type |-> TRUE, fat |-> card.fat, dir |-> card.dir,
                  winsect |-> FsInfoSect, wflag |-> FALSE, free_clst |-> card.free]
    BY <1>2 DEF Volume
  <2>2. card.fat \in FatTable /\ card.dir \in DirTable /\ card.free \in 0 .. Unknown
    BY DEF Shaped, CardState
  <2>3. Volume \in FsState
    BY <2>1, <2>2, SectorLayout DEF FsState
  <2> QED
    BY <1>2, <2>1, <2>3 DEF Agrees
<1> QED
  BY <1>1, <1>2

\* An object that is not mounted has the shape of one.
LEMMA UnmountedShape ==
  /\ Unmounted \in FsState /\ ~Unmounted.fs_type
  /\ NoFile \in FileState /\ NoEntry \in Entry
<1>1. Unknown \in 0 .. Unknown
  BY FatAssumption DEF Unknown
<1>2. NoEntry \in Entry /\ NoFile \in FileState
  BY DEF NoEntry, Entry, NoFile, FileState
<1>3. /\ [c \in Clusters |-> Unused] \in FatTable
      /\ [s \in Slots |-> NoEntry] \in DirTable
  BY <1>2 DEF FatTable, DirTable
<1> QED
  BY <1>1, <1>2, <1>3, SectorLayout DEF Unmounted, FsState

(***************************************************************************)
(* f_open.                                                                 *)
(***************************************************************************)

\* Looking for a name that exists only moves the window.
LEMMA OpenExistingEffect ==
  ASSUME Shaped, OneDirtySector, NEW name, OpenExisting(name)
  PROVE  /\ Kept(Volume) /\ SlotsOf(Volume.dir, name) # {}
         /\ fil' = NoFile /\ fr' \in Results /\ data' = data
<1>1. PICK s \in SlotsOf(Volume.dir, name) : MoveWindow(Volume, DirSect(s))
  BY DEF OpenExisting
<1>2. DirSect(s) \in Sectors
  BY <1>1, SectorLayout DEF SlotsOf
<1> QED
  BY <1>1, <1>2, VolumeAgrees, WindowMoves DEF Shaped, OpenExisting, Results

\* An open that fails leaves the tables alone.
LEMMA OpenFailsEffect ==
  ASSUME Shaped, OneDirtySector, NEW name, OpenFails(name)
  PROVE  /\ Kept(Volume) \/ (card' = card /\ fs' = Unmounted)
         /\ fil' = NoFile /\ fr' \in Results /\ data' = data
<1>1. NRootDir - 1 \in Slots
  BY FatAssumption DEF Slots
<1>2. DirSect(NRootDir - 1) \in Sectors
  BY <1>1, SectorLayout
<1> QED
  BY <1>2, VolumeAgrees, WindowMoves DEF Shaped, OpenFails, Results

\* A set of numbers that is not empty has a least one.
LEMMA LeastNumber ==
  ASSUME NEW S \in SUBSET Nat, S # {}
  PROVE  \E n \in S : \A m \in S : n <= m
<1>1. IsWellFoundedOn(OpToRel(<, Nat), Nat)
  BY NatLessThanWellFounded
<1>2. PICK n \in S : \A m \in S : ~(<<m, n>> \in OpToRel(<, Nat))
  BY <1>1, WFMin, Zenon
<1>3. \A m \in S : ~(m < n)
  BY <1>2, Zenon DEF OpToRel
<1> QED
  BY <1>3

\* The first of a non-empty set of slots is one of them.
LEMMA FirstSlot ==
  ASSUME NEW S \in SUBSET Slots, S # {}
  PROVE  Min(S) \in S
<1>1. S \in SUBSET Nat
  BY FatAssumption DEF Slots
<1>2. \E n \in S : \A m \in S : n <= m
  BY <1>1, LeastNumber
<1> QED
  BY <1>2 DEF Min

\* A new entry replaces an unused one, in memory only.
LEMMA OpenCreatesEffect ==
  ASSUME Shaped, OneDirtySector, NEW name \in Int, OpenCreates(name)
  PROVE  \E s \in Slots :
           /\ SlotsOf(Volume.dir, name) = {} /\ Volume.dir[s].name = NoEntry.name
           /\ card' \in CardState /\ Written(Volume)
           /\ fs' \in FsState /\ fs'.fs_type /\ fs'.wflag
           /\ fs'.winsect = DirSect(s)
           /\ fs'.fat = Volume.fat /\ fs'.free_clst = Volume.free_clst
           /\ fs'.dir = [Volume.dir EXCEPT ![s] = [NoEntry EXCEPT !.name = name]]
           /\ fil' = [NoFile EXCEPT !.slot = s] /\ fil' \in FileState
           /\ fr' \in Results /\ data' = data
<1> DEFINE s == Min(SlotsOf(Volume.dir, NoEntry.name))
<1>1. s \in SlotsOf(Volume.dir, NoEntry.name)
  BY FirstSlot DEF OpenCreates, SlotsOf
<1>2. s \in Slots /\ Volume.dir[s].name = NoEntry.name
  BY <1>1 DEF SlotsOf
<1>3. /\ card' = SyncWindow(Volume)
      /\ fs' = [Volume EXCEPT !.winsect = DirSect(s), !.wflag = TRUE,
                              !.dir[s] = [NoEntry EXCEPT !.name = name]]
      /\ fil' = [NoFile EXCEPT !.slot = s] /\ fr' = "FR_OK" /\ data' = data
      /\ SlotsOf(Volume.dir, name) = {}
  BY DEF OpenCreates
<1> HIDE DEF s
<1>4. card' \in CardState /\ Written(Volume)
  BY <1>3, VolumeAgrees, Synced DEF Shaped, Written
<1>5. [NoEntry EXCEPT !.name = name] \in Entry
  BY DEF NoEntry, Entry
<1>6. Volume \in FsState /\ Volume.fs_type /\ Volume.dir \in DirTable
  BY VolumeAgrees DEF FsState
<1>7. [Volume.dir EXCEPT ![s] = [NoEntry EXCEPT !.name = name]] \in DirTable
  BY <1>2, <1>5, <1>6 DEF DirTable
<1>8. DirSect(s) \in Sectors
  BY <1>2, SectorLayout
<1>9. /\ fs' \in FsState /\ fs'.fs_type /\ fs'.wflag /\ fs'.winsect = DirSect(s)
      /\ fs'.fat = Volume.fat /\ fs'.free_clst = Volume.free_clst
      /\ fs'.dir = [Volume.dir EXCEPT ![s] = [NoEntry EXCEPT !.name = name]]
  BY <1>3, <1>6, <1>7, <1>8 DEF FsState
<1>10. fil' \in FileState
  BY <1>2, <1>3 DEF NoFile, FileState
<1> QED
  BY <1>2, <1>3, <1>4, <1>9, <1>10 DEF Results

(***************************************************************************)
(* f_write and f_close.                                                    *)
(***************************************************************************)

\* Allocating marks a free cluster in memory; the window is written back
\* unless it holds that cluster's sector.
LEMMA ExtendEffect ==
  ASSUME Shaped, OneDirtySector, fs.fs_type, ExtendChain
  PROVE  \E ncl \in Clusters :
           /\ fs.fat[ncl] = Unused /\ fs.free_clst > 0
           /\ card' \in CardState
           /\ Written(fs) \/ (card' = card /\ fs.winsect = FatSect(ncl))
           /\ fs' \in FsState /\ fs'.fs_type /\ Agrees(card', fs')
           /\ fs'.wflag /\ fs'.winsect = FatSect(ncl)
           /\ fs'.fat = [fs.fat EXCEPT ![ncl] = EOC]
           /\ fs'.dir = fs.dir /\ fs'.free_clst = fs.free_clst
           /\ fil' \in FileState /\ fil' = [fil EXCEPT !.next = ncl]
           /\ data' = data /\ fr' = fr
<1>1. PICK ncl \in FreeIn(fs.fat) :
        /\ card' = SyncWindow(fs) \/ (card' = card /\ fs.winsect = FatSect(ncl))
        /\ fs' = [fs EXCEPT !.winsect = FatSect(ncl), !.wflag = TRUE,
                            !.fat[ncl] = EOC]
        /\ fil' = [fil EXCEPT !.next = ncl]
        /\ data' = data /\ fr' = fr
  BY DEF ExtendChain
<1>2. ncl \in Clusters /\ fs.fat[ncl] = Unused /\ fs.free_clst > 0
  BY DEF FreeIn, ExtendChain
<1>3. fs \in FsState /\ fs.fat \in FatTable /\ fil \in FileState
  BY DEF Shaped, FsState
<1>4. [fs.fat EXCEPT ![ncl] = EOC] \in FatTable /\ FatSect(ncl) \in Sectors
  BY <1>2, <1>3, SectorLayout DEF FatTable
<1>5. /\ fs' \in FsState /\ fs'.fs_type /\ fs'.wflag /\ fs'.winsect = FatSect(ncl)
      /\ fs'.fat = [fs.fat EXCEPT ![ncl] = EOC]
      /\ fs'.dir = fs.dir /\ fs'.free_clst = fs.free_clst
  BY <1>1, <1>3, <1>4 DEF FsState
<1>6. fil' \in FileState
  BY <1>1, <1>2, <1>3 DEF FileState
<1>7. Agrees(card, fs)
  BY DEF OneDirtySector, Agrees
<1>8. CASE card' = SyncWindow(fs)
  <2>1. card' \in CardState /\ Written(fs)
    BY <1>3, <1>7, <1>8, Synced DEF Shaped, Written
  <2>2. Agrees(card', fs')
    BY <1>2, <1>3, <1>5, <2>1 DEF Agrees, Written, FatTable
  <2> QED
    BY <1>1, <1>2, <1>5, <1>6, <2>1, <2>2
<1>9. CASE card' = card /\ fs.winsect = FatSect(ncl)
  <2>1. Agrees(card', fs')
    BY <1>2, <1>3, <1>5, <1>7, <1>9 DEF Agrees, FatTable
  <2> QED
    BY <1>1, <1>2, <1>5, <1>6, <1>9, <2>1 DEF Shaped
<1> QED
  BY <1>1, <1>8, <1>9

\* Linking writes the entry of the previous cluster, if there is one, after
\* that entry's sector has come into the window.
LEMMA LinkEffect ==
  ASSUME Shaped, OneDirtySector, fs.fs_type, fs.wflag, fil.next \in Clusters,
         fs.free_clst > 0, LinkCluster
  PROVE  /\ card' \in CardState /\ (card' = card \/ Written(fs))
         /\ fs' \in FsState /\ fs'.fs_type /\ Agrees(card', fs')
         /\ fs'.fat = IF fil.clust = 0 THEN fs.fat
                      ELSE [fs.fat EXCEPT ![fil.clust] = fil.next]
         /\ fs'.dir = fs.dir /\ fs'.free_clst = OneLess(fs) /\ fs'.wflag
         /\ fil' \in FileState /\ fil'.clust = fil.next /\ fil'.slot = fil.slot
         /\ fil'.size = fil.size /\ fil'.dirty = fil.dirty
         /\ fil'.sclust = IF fil.sclust = 0 THEN fil.next ELSE fil.sclust
         /\ data' = data /\ fr' = fr
<1> DEFINE link == fil.clust # 0
           nsect == IF link THEN FatSect(fil.clust) ELSE fs.winsect
           nfat == IF link THEN [fs.fat EXCEPT ![fil.clust] = fil.next] ELSE fs.fat
<1>1. /\ card' = IF link /\ FatSect(fil.clust) # fs.winsect THEN SyncWindow(fs)
                 ELSE card
      /\ fs' = [fs EXCEPT !.winsect = nsect, !.fat = nfat, !.free_clst = OneLess(fs)]
      /\ fil' = [fil EXCEPT !.clust = fil.next,
                   !.sclust = IF fil.sclust = 0 THEN fil.next ELSE fil.sclust]
      /\ data' = data /\ fr' = fr
  BY DEF LinkCluster
<1>2. /\ fs \in FsState /\ fs.fat \in FatTable /\ fil \in FileState
      /\ fil.clust \in {0} \cup Clusters /\ fs.winsect \in Sectors
      /\ fs.free_clst \in 0 .. Unknown
  BY DEF Shaped, FsState, FileState
<1>3. nsect \in Sectors
  BY <1>2, SectorLayout
<1>4. nfat \in FatTable
  BY <1>2 DEF FatTable
<1>5. OneLess(fs) \in 0 .. Unknown
  BY <1>2, FatAssumption DEF OneLess, Unknown
<1>6. nfat = IF fil.clust = 0 THEN fs.fat ELSE [fs.fat EXCEPT ![fil.clust] = fil.next]
  OBVIOUS
<1>7. Agrees(card, fs)
  BY DEF OneDirtySector, Agrees
<1>8. link => fil.clust \in Clusters
  BY <1>2
<1>9. nsect = IF fil.clust = 0 THEN fs.winsect ELSE FatSect(fil.clust)
  OBVIOUS
<1> HIDE DEF nsect, nfat
<1>10. /\ fs' \in FsState /\ fs'.fs_type /\ fs'.wflag /\ fs'.winsect = nsect
       /\ fs'.fat = nfat /\ fs'.dir = fs.dir /\ fs'.free_clst = OneLess(fs)
  BY <1>1, <1>2, <1>3, <1>4, <1>5 DEF FsState
<1>11. /\ fil' \in FileState /\ fil'.clust = fil.next /\ fil'.slot = fil.slot
       /\ fil'.size = fil.size /\ fil'.dirty = fil.dirty
       /\ fil'.sclust = IF fil.sclust = 0 THEN fil.next ELSE fil.sclust
  BY <1>1, <1>2 DEF FileState
<1>12. CASE link /\ FatSect(fil.clust) # fs.winsect
  <2>1. card' \in CardState /\ Written(fs)
    BY <1>1, <1>2, <1>7, <1>12, Synced DEF Shaped, Written
  <2>2. Agrees(card', fs')
    BY <1>2, <1>6, <1>8, <1>9, <1>10, <1>12, <2>1 DEF Agrees, Written, FatTable
  <2> QED
    BY <1>1, <1>6, <1>10, <1>11, <2>1, <2>2
<1>13. CASE ~(link /\ FatSect(fil.clust) # fs.winsect)
  <2>1. card' = card
    BY <1>1, <1>13
  <2>2. Agrees(card', fs')
    BY <1>2, <1>6, <1>7, <1>8, <1>9, <1>10, <1>13, <2>1 DEF Agrees, FatTable
  <2> QED
    BY <1>1, <1>6, <1>10, <1>11, <2>1, <2>2 DEF Shaped
<1> QED
  BY <1>12, <1>13

\* A full disk or a failed access leaves the tables as they are.
LEMMA FailureEffect ==
  ASSUME Shaped, OneDirtySector, fs.fs_type, DiskFull \/ WriteFatFails \/ SyncFails
  PROVE  Kept(fs) /\ fil' = NoFile /\ fr' \in Results /\ data' = data
<1>1. Agrees(card, fs) /\ card \in CardState /\ fs \in FsState
  BY DEF OneDirtySector, Agrees, Shaped
<1>2. CASE WriteFatFails \/ SyncFails
  BY <1>1, <1>2, WindowMoves DEF WriteFatFails, SyncFails, Results
<1>3. CASE DiskFull
  <2>1. 2 \in Clusters
    BY FatAssumption DEF Clusters
  <2>2. FatSect(2) \in Sectors
    BY <2>1, SectorLayout
  <2>3. CASE card' = card /\ fs' = fs
    BY <1>1, <1>3, <2>3 DEF DiskFull, Kept, Shaped
  <2>4. CASE card' = SyncWindow(fs)
             /\ fs' = [fs EXCEPT !.wflag = FALSE, !.winsect = FatSect(2)]
    <3>1. card' \in CardState /\ Written(fs)
      BY <1>1, <2>4, Synced DEF Written
    <3>2. /\ fs' \in FsState /\ fs'.fat = fs.fat /\ fs'.dir = fs.dir
          /\ fs'.free_clst = fs.free_clst /\ fs'.fs_type = fs.fs_type /\ ~fs'.wflag
      BY <1>1, <2>2, <2>4 DEF FsState
    <3>3. Agrees(card', fs')
      BY <3>1, <3>2 DEF Agrees, Written
    <3> QED
      BY <1>3, <3>1, <3>2, <3>3 DEF DiskFull, Kept, Shaped
  <2> QED
    BY <1>3, <2>3, <2>4 DEF DiskFull
<1> QED
  BY <1>2, <1>3

\* Writing data touches the current cluster of the file and nothing else.
LEMMA DataEffect ==
  ASSUME Shaped, fil.clust \in Clusters, NEW piece \in Nat \X Nat,
         \/ WriteSectors(piece) \/ BufferTail \/ SyncBuffer(piece) \/ WriteDataFails
  PROVE  /\ data' \in [Clusters -> Nat \X Nat]
         /\ \A c \in Clusters : c # fil.clust => data'[c] = data[c]
         /\ fil' \in FileState /\ fr' \in Results
         /\ card' = card /\ fs' = fs
<1>1. data \in [Clusters -> Nat \X Nat] /\ fil \in FileState /\ fr \in Results
  BY DEF Shaped
<1>2. Blank \in Nat \X Nat
  BY DEF Blank
<1>3. data' \in {data, [data EXCEPT ![fil.clust] = piece],
                 [data EXCEPT ![fil.clust] = Blank]}
  BY DEF WriteSectors, BufferTail, SyncBuffer, WriteDataFails
<1>4. fil' \in FileState
  <2>1. CASE WriteSectors(piece)
    BY <1>1, <2>1 DEF WriteSectors, FileState
  <2>2. CASE BufferTail
    <3>1. fil.size + 1 \in Nat /\ TRUE \in BOOLEAN
      BY <1>1 DEF FileState
    <3>2. fil' = [fil EXCEPT !.size = fil.size + 1, !.dirty = TRUE]
      BY <2>2 DEF BufferTail
    <3> QED
      BY <1>1, <3>1, <3>2, Zenon DEF FileState
  <2>3. CASE SyncBuffer(piece)
    BY <1>1, <2>3 DEF SyncBuffer, FileState
  <2>4. CASE WriteDataFails
    BY <2>4, UnmountedShape DEF WriteDataFails
  <2> QED
    BY <2>1, <2>2, <2>3, <2>4
<1>5. card' = card /\ fs' = fs /\ fr' \in Results
  BY <1>1 DEF WriteSectors, BufferTail, SyncBuffer, WriteDataFails, Results
<1>6. /\ data' \in [Clusters -> Nat \X Nat]
      /\ \A c \in Clusters : c # fil.clust => data'[c] = data[c]
  BY <1>1, <1>2, <1>3
<1> QED
  BY <1>4, <1>5, <1>6

\* The entry is completed in memory; the FAT is on the card then.
LEMMA SyncEntryEffect ==
  ASSUME Shaped, OneDirtySector, fs.fs_type, fil.slot \in Slots, SyncEntry
  PROVE  /\ card' \in CardState
         /\ Written(fs) \/ (card' = card /\ fs.winsect = DirSect(fil.slot))
         /\ card'.fat = fs.fat
         /\ fs' \in FsState /\ fs'.fs_type /\ Agrees(card', fs')
         /\ fs'.winsect = DirSect(fil.slot)
         /\ fs'.fat = fs.fat /\ fs'.free_clst = fs.free_clst
         /\ fs'.dir[fil.slot].name = fs.dir[fil.slot].name
         /\ fs'.dir[fil.slot].sclust = fil.sclust
         /\ fs'.dir[fil.slot].size = fil.size
         /\ \A s \in Slots \ {fil.slot} : fs'.dir[s] = fs.dir[s]
         /\ data' = data /\ fil' = fil /\ fr' = fr
<1> DEFINE e == [fs.dir[fil.slot] EXCEPT !.sclust = fil.sclust, !.size = fil.size]
<1>1. /\ fs \in FsState /\ fs.fat \in FatTable /\ fs.dir \in DirTable
      /\ fil \in FileState /\ card \in CardState /\ Agrees(card, fs)
      /\ fs.dir[fil.slot] \in Entry
  BY DEF Shaped, FsState, DirTable, OneDirtySector, Agrees
<1>2. e \in Entry
  BY <1>1 DEF Entry, FileState
<1>3. e.name = fs.dir[fil.slot].name /\ e.sclust = fil.sclust /\ e.size = fil.size
  BY <1>1 DEF Entry
<1>4. fs' = [fs EXCEPT !.winsect = DirSect(fil.slot), !.wflag = TRUE,
                       !.dir = [fs.dir EXCEPT ![fil.slot] = e]]
  <2>1. fs' = [fs EXCEPT !.winsect = DirSect(fil.slot), !.wflag = TRUE,
                         !.dir[fil.slot].sclust = fil.sclust,
                         !.dir[fil.slot].size = fil.size]
    BY DEF SyncEntry
  <2> QED
    BY <1>1, <2>1 DEF FsState, DirTable
<1> HIDE DEF e
<1>5. DirSect(fil.slot) \in Sectors
  BY SectorLayout
<1>6. [fs.dir EXCEPT ![fil.slot] = e] \in DirTable
  BY <1>1, <1>2 DEF DirTable
<1>7. /\ fs' \in FsState /\ fs'.fs_type /\ fs'.wflag
      /\ fs'.winsect = DirSect(fil.slot)
      /\ fs'.fat = fs.fat /\ fs'.free_clst = fs.free_clst
      /\ fs'.dir = [fs.dir EXCEPT ![fil.slot] = e]
  BY <1>1, <1>4, <1>5, <1>6 DEF FsState
<1>8. /\ fs'.dir[fil.slot].name = fs.dir[fil.slot].name
       /\ fs'.dir[fil.slot].sclust = fil.sclust
       /\ fs'.dir[fil.slot].size = fil.size
       /\ \A s \in Slots \ {fil.slot} : fs'.dir[s] = fs.dir[s]
  BY <1>1, <1>3, <1>7 DEF DirTable
<1>9. CASE fs.winsect = DirSect(fil.slot)
  <2>1. card' = card
    BY <1>9 DEF SyncEntry
  <2>2. \A c \in Clusters : FatSect(c) # fs.winsect
    <3> SUFFICES ASSUME NEW c \in Clusters, FatSect(c) = DirSect(fil.slot) PROVE FALSE
      BY <1>9
    <3>1. FatSect(c) < DirSect(fil.slot)
      BY SectorLayout
    <3>2. FatSect(c) \in Int
      BY SectorLayout DEF Sectors, NoSector
    <3> QED
      BY <3>1, <3>2
  <2>3. card.fat = fs.fat
    BY <1>1, <2>2 DEF Agrees, CardState, FatTable
  <2>4. Agrees(card', fs')
    BY <1>1, <1>7, <1>9, <2>1 DEF Agrees, DirTable
  <2> QED
    BY <1>1, <1>7, <1>8, <1>9, <2>1, <2>3, <2>4 DEF SyncEntry
<1>10. CASE fs.winsect # DirSect(fil.slot)
  <2>1. card' \in CardState /\ Written(fs)
    BY <1>1, <1>10, Synced DEF SyncEntry, Written
  <2>2. Agrees(card', fs')
    BY <1>1, <1>7, <2>1 DEF Agrees, Written, DirTable
  <2> QED
    BY <1>7, <1>8, <2>1, <2>2 DEF SyncEntry, Written
<1> QED
  BY <1>9, <1>10

\* The window with the entry goes to the card.
LEMMA SyncFsEffect ==
  ASSUME Shaped, OneDirtySector, fs.fs_type, SyncFs
  PROVE  Kept(fs) /\ Written(fs) /\ ~fs'.wflag /\ data' = data /\ fil' = fil /\ fr' = fr
<1>1. Agrees(card, fs) /\ card \in CardState /\ fs \in FsState
  BY DEF OneDirtySector, Agrees, Shaped
<1>2. card' \in CardState /\ Written(fs)
  BY <1>1, Synced DEF SyncFs, Written
<1>3. /\ fs' \in FsState /\ fs'.fat = fs.fat /\ fs'.dir = fs.dir
      /\ fs'.free_clst = fs.free_clst /\ fs'.fs_type = fs.fs_type /\ ~fs'.wflag
  BY <1>1 DEF SyncFs, FsState
<1>4. Agrees(card', fs')
  BY <1>2, <1>3 DEF Agrees, Written
<1> QED
  BY <1>2, <1>3, <1>4 DEF SyncFs, Kept

\* FSInfo takes the count of a volume whose tables are on the card.
LEMMA SyncFsInfoEffect ==
  ASSUME Shaped, OneDirtySector, fs.fs_type, ~fs.wflag, SyncFsInfo
  PROVE  /\ card' \in CardState /\ card'.fat = card.fat /\ card'.dir = card.dir
         /\ card.fat = fs.fat /\ card.dir = fs.dir
         /\ card'.free \in {card.free, fs.free_clst}
         /\ fs' \in FsState /\ fs'.fat = fs.fat /\ fs'.dir = fs.dir
         /\ fs'.free_clst = fs.free_clst /\ fs'.fs_type /\ ~fs'.wflag
         /\ data' = data /\ fil' = NoFile /\ fr' \in Results
<1>1. Agrees(card, fs) /\ card \in CardState /\ fs \in FsState
  BY DEF OneDirtySector, Agrees, Shaped
<1>2. card.fat = fs.fat /\ card.dir = fs.dir
  BY <1>1 DEF Agrees, CardState, FsState, FatTable, DirTable
<1>3. /\ card' \in CardState /\ card'.fat = card.fat /\ card'.dir = card.dir
      /\ card'.free \in {card.free, fs.free_clst}
  BY <1>1 DEF SyncFsInfo, CardState, FsState
<1>4. /\ fs' \in FsState /\ fs'.fat = fs.fat /\ fs'.dir = fs.dir
      /\ fs'.free_clst = fs.free_clst /\ fs'.fs_type /\ ~fs'.wflag
  BY <1>1, SectorLayout DEF SyncFsInfo, FsState
<1> QED
  BY <1>2, <1>3, <1>4 DEF SyncFsInfo, Results
=============================================================================
