-------------------------- MODULE ImageStoreProofs -------------------------
(***************************************************************************)
(* Proofs about the image store, for every volume, limit and number of     *)
(* images: its types, the free count, the names and the chains on the      *)
(* card, that the card implements the album whatever fails, and that only  *)
(* failures and resets lose clusters.                                      *)
(***************************************************************************)
EXTENDS ImageStore, FatFsProofs

(***************************************************************************)
(* The inductive invariant.                                                *)
(***************************************************************************)

\* A file is being written: from its creation until its entry is on the card.
Filling == {"extend", "link", "data"}
Closing == {"buffer", "entry", "window"}
Writing == Filling \cup Closing

\* What each control point knows of the volume and of the file.
Control ==
  /\ pc \in Writing \cup {"idle", "open", "search", "nofile", "fsinfo"}
  /\ pc = "open" => ~fs.fs_type
  /\ pc = "search" => fs.fs_type /\ ~fs.wflag
  /\ pc \in {"search", "nofile"} => fil = NoFile
  /\ pc \in Writing \cup {"fsinfo"} => fs.fs_type /\ fil.slot \in Slots
  /\ pc = "fsinfo" => ~fs.wflag
  /\ pc = "link" => /\ fil.next \in Clusters /\ fs.fat[fil.next] = EOC
                    /\ fs.free_clst > 0 /\ fs.wflag
  /\ pc \in {"data"} \cup Closing => fil.clust \in Clusters

\* Each image moves the index one step at most beyond the limit.
Index ==
  /\ image_index \in Nat /\ image_index <= IndexLimit + Shot
  /\ length \in Seq(1 .. MaxLength) /\ Shot <= MaxShots
  /\ pc \in Filling \cup {"open", "search", "nofile"} =>
       Shot >= 1 /\ image_index <= IndexLimit + Shot - 1
  /\ pc \in Closing => Shot >= 1 /\ image_index >= 1

\* The free count: between the two FAT writes of an allocation it is one
\* ahead, and memory never has a free cluster that the card has not.
Counting ==
  /\ FreeNotUnderstated
  /\ fs.fs_type => FreeIn(fs.fat) \subseteq FreeIn(card.fat)
  /\ pc = "link" => Cardinality(FreeIn(fs.fat)) < fs.free_clst

Used(dir) == {dir[s].name : s \in Slots} \ {NoEntry.name}

\* The names on the card: all different, without a gap, and every name below
\* the index is taken.
Naming ==
  /\ \A s \in Slots : /\ card.dir[s].name \in Nat \cup {NoEntry.name}
                      /\ card.dir[s].name = NoEntry.name => card.dir[s].size = 0
  /\ \A s, t \in Slots : card.dir[s].name = card.dir[t].name =>
       s = t \/ card.dir[s].name = NoEntry.name
  /\ NoGaps
  /\ 0 .. image_index - 1 \subseteq Used(card.dir)
  /\ pc = "search" => image_index \in Used(card.dir)

\* The name of the file that is being written.
Top == IF pc \in Filling THEN image_index ELSE image_index - 1

\* The entry of the file that is being written has the highest name; it is on
\* the card, empty, once the first cluster is allocated.
OwnEntry == pc \in Writing =>
  /\ \A s \in Slots \ {fil.slot} : /\ fs.dir[s] = card.dir[s]
                                   /\ card.dir[s].name < Top
  /\ fs.dir[fil.slot].name = Top
  /\ card.dir[fil.slot].name \in {NoEntry.name, Top}
  /\ card.dir[fil.slot].size = 0
  /\ pc = "extend" /\ fil.clust = 0 => fs.wflag /\ fs.winsect = DirSect(fil.slot)
  /\ pc # "extend" \/ fil.clust # 0 => card.dir[fil.slot].name = Top
  /\ pc # "window" => fs.dir[fil.slot].size = 0
  /\ pc = "window" => /\ fs.dir[fil.slot].sclust = fil.sclust
                      /\ fs.dir[fil.slot].size = fil.size

\* ch is the chain of n clusters from c to its end.
Linked(fat, c, n, ch) ==
  /\ n \in Nat \ {0} /\ ch \in [1 .. n -> Clusters]
  /\ ch[1] = c /\ fat[ch[n]] = EOC
  /\ \A k \in 1 .. n - 1 : fat[ch[k]] = ch[k + 1]

Files == {s \in Slots : card.dir[s].size > 0}
Spans(s) == 1 .. card.dir[s].size
ChainOf(s) == ChainFrom(card.fat, card.dir[s].sclust, card.dir[s].size)

\* File s is image i, whole.
Holds(s, i) ==
  /\ i \in 1 .. Shot /\ card.dir[s].size = length[i]
  /\ \A k \in Spans(s) : data[ChainOf(s)[k]] = <<i, k>>

\* The files on the card: whole, without a common cluster, each an image,
\* and none of them the image that is being written.
Filed ==
  /\ \A s \in Files :
       Linked(card.fat, card.dir[s].sclust, card.dir[s].size, ChainOf(s))
  /\ \A s, t \in Files : \A j \in Spans(s), k \in Spans(t) :
       ChainOf(s)[j] = ChainOf(t)[k] => s = t
  /\ \A s \in Files : \E i \in 1 .. Shot : Holds(s, i)
  /\ pc \in Writing \cup {"open", "search"} => \A s \in Files : ~Holds(s, Shot)

\* Memory has the chains of the files as the card has them.
Apart == pc \in Writing =>
  \A s \in Files : \A k \in Spans(s) :
    /\ fs.fat[ChainOf(s)[k]] = card.fat[ChainOf(s)[k]]
    /\ fil.clust # ChainOf(s)[k]
    /\ pc = "link" => fil.next # ChainOf(s)[k]

\* How many clusters the file that is being written has, and whether f_write
\* has more to write.
WorkLen == IF pc = "data" THEN fil.size + 1 ELSE fil.size
Unfinished == pc \in Filling => fil.size < length[Shot] /\ ~fil.dirty

\* ch is the chain of the file that is being written, with its image in it.
Work(ch) ==
  /\ WorkLen > 0 => Linked(fs.fat, fil.sclust, WorkLen, ch) /\ ch[WorkLen] = fil.clust
  /\ WorkLen = 0 => fil.clust = 0 /\ fil.sclust = 0
  /\ \A j \in 1 .. WorkLen, s \in Files : \A k \in Spans(s) : ch[j] # ChainOf(s)[k]
  /\ pc = "link" => \A j \in 1 .. WorkLen : ch[j] # fil.next
  /\ \A j \in 1 .. fil.size :
       j < fil.size \/ ~fil.dirty => data[ch[j]] = <<Shot, j>>

Working == pc \in Writing =>
  /\ Unfinished
  /\ pc \in Closing => fil.size = length[Shot]
  /\ pc \in {"entry", "window"} => ~fil.dirty
  /\ \E ch \in [1 .. WorkLen -> Clusters] : Work(ch)

SInv ==
  /\ Shaped /\ OneDirtySector /\ Control /\ Index /\ Counting /\ Naming
  /\ OwnEntry /\ Filed /\ Apart /\ Working

(***************************************************************************)
(* Chains.                                                                 *)
(***************************************************************************)

\* The chain from c to its end is what ChainFrom reads.
LEMMA ChainIs ==
  ASSUME NEW fat, NEW c, NEW n, NEW ch, Linked(fat, c, n, ch)
  PROVE  ChainFrom(fat, c, n) = ch
<1> DEFINE Reads(f) == f = [k \in 1 .. n |->
                             IF k = 1 THEN c
                             ELSE IF f[k - 1] \in Clusters THEN fat[f[k - 1]]
                             ELSE Unused]
<1>1. n \in Nat /\ n > 0 /\ ch \in [1 .. n -> Clusters]
  BY DEF Linked
<1>2. Reads(ch)
  <2>1. \A k \in 1 .. n : ch[k] = IF k = 1 THEN c
                                  ELSE IF ch[k - 1] \in Clusters THEN fat[ch[k - 1]]
                                  ELSE Unused
    <3> SUFFICES ASSUME NEW k \in 1 .. n, k # 1
                 PROVE  ch[k - 1] \in Clusters /\ ch[k] = fat[ch[k - 1]]
      BY DEF Linked
    <3>1. k - 1 \in 1 .. n /\ k - 1 \in 1 .. n - 1 /\ (k - 1) + 1 = k
      BY <1>1
    <3> QED
      BY <1>1, <3>1 DEF Linked
  <2> QED
    BY <1>1, <2>1
<1>3. ASSUME NEW f, Reads(f) PROVE f = ch
  <2>1. f = [k \in 1 .. n |-> f[k]] /\ ch = [k \in 1 .. n |-> ch[k]]
    BY <1>1, <1>3
  <2>2. SUFFICES ASSUME {k \in 1 .. n : f[k] # ch[k]} # {} PROVE FALSE
    BY <2>1
  <2> DEFINE S == {k \in 1 .. n : f[k] # ch[k]}
  <2>3. S \in SUBSET Nat
    BY <1>1
  <2>4. PICK k \in S : \A m \in S : k <= m
    BY <2>2, <2>3, LeastNumber
  <2>5. /\ f[1] = c /\ ch[1] = c
        /\ \A j \in 1 .. n : j # 1 =>
             f[j] = IF f[j - 1] \in Clusters THEN fat[f[j - 1]] ELSE Unused
        /\ \A j \in 1 .. n : j # 1 =>
             ch[j] = IF ch[j - 1] \in Clusters THEN fat[ch[j - 1]] ELSE Unused
    BY <1>1, <1>2, <1>3
  <2>6. k \in 1 .. n /\ k # 1
    BY <1>1, <2>4, <2>5
  <2>7. k - 1 \in 1 .. n /\ k - 1 \notin S
    BY <1>1, <2>4, <2>6
  <2>8. f[k - 1] = ch[k - 1]
    BY <2>7
  <2> QED
    BY <2>4, <2>5, <2>6, <2>8
<1>4. ChainFrom(fat, c, n) = CHOOSE f : Reads(f)
  BY DEF ChainFrom
<1> HIDE DEF Reads
<1>5. Reads(CHOOSE f : Reads(f))
  BY <1>2, Zenon
<1> QED
  BY <1>3, <1>4, <1>5
(***************************************************************************)
(* The files on the card.                                                  *)
(***************************************************************************)

\* File s and its chain stay as they are.
SameFile(s) ==
  /\ card'.dir[s] = card.dir[s] /\ ChainOf(s)' = ChainOf(s)
  /\ \A k \in Spans(s) : /\ ChainOf(s)[k] \in Clusters
                         /\ card'.fat[ChainOf(s)[k]] = card.fat[ChainOf(s)[k]]
  /\ Linked(card'.fat, card.dir[s].sclust, card.dir[s].size, ChainOf(s))

SameFiles == Files' = Files /\ \A s \in Files : SameFile(s)

\* A file stays when neither its entry nor its chain is written.
LEMMA FileStays ==
  ASSUME Filed, NEW s \in Files, card'.dir[s] = card.dir[s],
         \A k \in Spans(s) : card'.fat[ChainOf(s)[k]] = card.fat[ChainOf(s)[k]]
  PROVE  SameFile(s)
<1> DEFINE ch == ChainOf(s)  n == card.dir[s].size  c == card.dir[s].sclust
<1>1. Linked(card.fat, c, n, ch)
  BY DEF Filed
<1>2. \A k \in 1 .. n : card'.fat[ch[k]] = card.fat[ch[k]]
  BY DEF Spans
<1>3. ChainOf(s)' = ChainFrom(card'.fat, c, n)
  BY DEF ChainOf
<1> HIDE DEF ch, n, c
<1>4. Linked(card'.fat, c, n, ch)
  BY <1>1, <1>2 DEF Linked
<1>5. ChainFrom(card'.fat, c, n) = ch
  BY <1>4, ChainIs
<1>6. \A k \in 1 .. n : ch[k] \in Clusters
  BY <1>1 DEF Linked
<1> QED
  BY <1>3, <1>4, <1>5, <1>6 DEF ch, n, c, Spans, SameFile

\* All files stay when only empty entries are written.
LEMMA FilesStay ==
  ASSUME Shaped, Filed, card' \in CardState,
         \A s \in Slots : card'.dir[s] # card.dir[s] =>
           card'.dir[s].size = 0 /\ card.dir[s].size = 0,
         \A s \in Files : \A k \in Spans(s) :
           card'.fat[ChainOf(s)[k]] = card.fat[ChainOf(s)[k]]
  PROVE  SameFiles
<1>1. \A s \in Slots : card.dir[s].size \in Nat /\ card'.dir[s].size \in Nat
  BY DEF Shaped, CardState, DirTable, Entry
<1>2. Files' = Files /\ \A s \in Files : card'.dir[s] = card.dir[s]
  BY <1>1 DEF Files
<1> QED
  BY <1>2, FileStays DEF SameFiles

\* With the same files, a file holds the image that it held.
LEMMA HoldsStays ==
  ASSUME SInv, SameFiles, length' = length \/ \E n : length' = Append(length, n),
         \A s \in Files : \A k \in Spans(s) :
           data'[ChainOf(s)[k]] = data[ChainOf(s)[k]]
  PROVE  /\ \A s \in Files : \A i \in 1 .. Shot : Holds(s, i) => Holds(s, i)'
         /\ \A s \in Files : \A i, j : Holds(s, i) /\ Holds(s, j)' => i = j
         /\ Shot \in Nat /\ Shot' \in Nat /\ Shot <= Shot'
<1>1. length \in Seq(1 .. MaxLength) /\ Shot \in Nat
  BY DEF SInv, Index, Shot
<1>2. /\ Shot' \in Nat /\ Shot <= Shot'
      /\ \A i \in 1 .. Shot : length'[i] = length[i]
  BY <1>1 DEF Shot
<1>3. ASSUME NEW s \in Files, NEW i \in 1 .. Shot, Holds(s, i)
      PROVE  Holds(s, i)'
  <2>1. card'.dir[s] = card.dir[s] /\ ChainOf(s)' = ChainOf(s) /\ Spans(s)' = Spans(s)
    BY DEF SameFiles, SameFile, Spans
  <2>2. i \in 1 .. Shot' /\ length'[i] = length[i]
    BY <1>1, <1>2
  <2>3. \A k \in Spans(s) : data'[ChainOf(s)'[k]] = <<i, k>>
    BY <1>3, <2>1 DEF Holds
  <2> QED
    BY <1>3, <2>1, <2>2, <2>3 DEF Holds
<1>4. ASSUME NEW s \in Files, NEW i, NEW j, Holds(s, i), Holds(s, j)'
      PROVE  i = j
  <2>1. card'.dir[s] = card.dir[s] /\ ChainOf(s)' = ChainOf(s) /\ Spans(s)' = Spans(s)
    BY DEF SameFiles, SameFile, Spans
  <2>2. 1 \in Spans(s)
    BY DEF SInv, Shaped, CardState, DirTable, Entry, Files, Spans
  <2>3. data[ChainOf(s)[1]] = <<i, 1>> /\ data'[ChainOf(s)'[1]] = <<j, 1>>
    BY <1>4, <2>1, <2>2 DEF Holds
  <2>4. <<i, 1>> = <<j, 1>>
    BY <2>1, <2>2, <2>3
  <2> QED
    BY <2>4
<1> QED
  BY <1>1, <1>2, <1>3, <1>4

\* With the same files, the card stays in order.
LEMMA FiledStays ==
  ASSUME SInv, SameFiles, length' = length \/ \E n : length' = Append(length, n),
         \A s \in Files : \A k \in Spans(s) :
           data'[ChainOf(s)[k]] = data[ChainOf(s)[k]],
         \/ pc' \notin Writing \cup {"open", "search"}
         \/ pc \in Writing \cup {"open", "search"} /\ Shot' = Shot
         \/ Shot' > Shot
  PROVE  Filed'
<1>1. \A s \in Files : /\ card'.dir[s] = card.dir[s] /\ ChainOf(s)' = ChainOf(s)
                       /\ Spans(s)' = Spans(s) /\ s \in Files'
  BY DEF SameFiles, SameFile, Spans
<1>2. (\A s \in Files :
         Linked(card.fat, card.dir[s].sclust, card.dir[s].size, ChainOf(s)))'
  BY <1>1 DEF SameFiles, SameFile
<1>3. (\A s, t \in Files : \A j \in Spans(s), k \in Spans(t) :
         ChainOf(s)[j] = ChainOf(t)[k] => s = t)'
  BY <1>1 DEF SameFiles, SameFile, SInv, Filed
<1>4. (\A s \in Files : \E i \in 1 .. Shot : Holds(s, i))'
  <2>1. \A s \in Files : \E i \in 1 .. Shot' : Holds(s, i)'
    BY HoldsStays DEF SInv, Filed
  <2> QED
    BY <2>1 DEF SameFiles, SameFile
<1>5. (pc \in Writing \cup {"open", "search"} => \A s \in Files : ~Holds(s, Shot))'
  <2> SUFFICES ASSUME pc' \in Writing \cup {"open", "search"},
                      NEW s \in Files, Holds(s, Shot)'
               PROVE  FALSE
    BY DEF SameFiles, SameFile
  <2>1. PICK i \in 1 .. Shot : Holds(s, i)
    BY DEF SInv, Filed
  <2>2. i = Shot'
    BY <2>1, HoldsStays
  <2>3. CASE Shot' > Shot
    BY <2>2, <2>3, HoldsStays
  <2>4. CASE pc \in Writing \cup {"open", "search"} /\ Shot' = Shot
    BY <2>1, <2>2, <2>4 DEF SInv, Filed
  <2> QED
    BY <2>3, <2>4
<1> QED
  BY <1>2, <1>3, <1>4, <1>5 DEF Filed
(***************************************************************************)
(* Writing the window back while a file is being written.                  *)
(***************************************************************************)

\* Until the entry is completed, the card's files stay as they are.
LEMMA FilesKept ==
  ASSUME SInv, pc \in Writing, pc # "window", card' \in CardState,
         card' = card \/ Written(fs)
  PROVE  SameFiles
<1>1. \A s \in Slots : card'.dir[s] # card.dir[s] =>
        card'.dir[s].size = 0 /\ card.dir[s].size = 0
  BY DEF SInv, OwnEntry, Written
<1>2. \A s \in Files : \A k \in Spans(s) :
        card'.fat[ChainOf(s)[k]] = card.fat[ChainOf(s)[k]]
  BY DEF SInv, Apart, Written
<1> QED
  BY <1>1, <1>2, FilesStay DEF SInv

\* The card gains the name of the file, the next one, or none.
LEMMA NamesKept ==
  ASSUME SInv, pc \in Writing, card' \in CardState, card' = card \/ Written(fs),
         image_index' = image_index, pc' # "search"
  PROVE  Naming'
<1>1. /\ Naming /\ OwnEntry /\ image_index \in Nat /\ fil.slot \in Slots
      /\ Top \in Nat /\ image_index - 1 <= Top
  BY DEF SInv, Control, Index, Top, Writing, Filling, Closing
<1>2. CASE card' = card
  BY <1>1, <1>2 DEF Naming, NoGaps, Used
<1>3. CASE Written(fs)
  <2>1. /\ \A s \in Slots \ {fil.slot} : /\ card'.dir[s] = card.dir[s]
                                         /\ card.dir[s].name < Top
        /\ card'.dir[fil.slot].name = Top
        /\ card.dir[fil.slot].name \in {NoEntry.name, Top}
    BY <1>1, <1>3 DEF OwnEntry, Written
  <2>2. NoEntry.name = -1
    BY DEF NoEntry
  <2>3. \A s \in Slots : card'.dir[s].name \in Nat \cup {-1}
    BY <1>1, <2>1, <2>2 DEF Naming
  <2>4. \A s \in Slots : card'.dir[s].name = -1 => card'.dir[s].size = 0
    BY <1>1, <2>1, <2>2 DEF Naming
  <2>5. \A s, t \in Slots : card'.dir[s].name = card'.dir[t].name =>
          s = t \/ card'.dir[s].name = -1
    <3> SUFFICES ASSUME NEW s \in Slots, NEW t \in Slots,
                        card'.dir[s].name = card'.dir[t].name, s # t
                 PROVE  card'.dir[s].name = -1
      OBVIOUS
    <3>1. s # fil.slot /\ t # fil.slot
      BY <2>1, <2>3, <1>1
    <3> QED
      BY <1>1, <2>1, <2>2, <3>1 DEF Naming
  <2>6. Used(card'.dir) = Used(card.dir) \cup {Top}
    <3>1. ASSUME NEW n \in Used(card.dir) PROVE n \in Used(card'.dir)
      <4>1. PICK s \in Slots : n = card.dir[s].name /\ n # NoEntry.name
        BY DEF Used
      <4>2. CASE s = fil.slot
        BY <1>1, <2>1, <4>1, <4>2 DEF Used
      <4>3. CASE s # fil.slot
        BY <2>1, <4>1, <4>3 DEF Used
      <4> QED
        BY <4>2, <4>3
    <3>2. ASSUME NEW n \in Used(card'.dir) PROVE n \in Used(card.dir) \cup {Top}
      <4>1. PICK s \in Slots : n = card'.dir[s].name /\ n # NoEntry.name
        BY DEF Used
      <4> QED
        BY <2>1, <4>1 DEF Used
    <3>3. Top \in Used(card'.dir)
      BY <1>1, <2>1, <2>2 DEF Used
    <3> QED
      BY <3>1, <3>2, <3>3
  <2>7. 0 .. image_index - 1 \subseteq Used(card.dir)
    BY <1>1 DEF Naming
  <2>8. 0 .. Top \subseteq Used(card'.dir)
    <3> SUFFICES ASSUME NEW n \in 0 .. Top PROVE n \in Used(card.dir) \cup {Top}
      BY <2>6
    <3>1. Top <= image_index
      BY <1>1 DEF Top
    <3> QED
      BY <1>1, <2>7, <3>1
  <2>9. \A n \in Used(card'.dir) : n \in Nat /\ n <= Top
    <3> SUFFICES ASSUME NEW s \in Slots, card'.dir[s].name # -1
                 PROVE  card'.dir[s].name \in Nat /\ card'.dir[s].name <= Top
      BY <2>2 DEF Used
    <3> QED
      BY <1>1, <2>1, <2>3
  <2>10. \A n \in Used(card'.dir) : 0 .. n \subseteq Used(card'.dir)
    BY <1>1, <2>8, <2>9
  <2>11. NoGaps'
    BY <2>10 DEF NoGaps, Used
  <2>12. 0 .. image_index - 1 \subseteq Used(card'.dir)
    BY <2>6, <2>7
  <2> QED
    BY <2>2, <2>3, <2>4, <2>5, <2>11, <2>12 DEF Naming
<1> QED
  BY <1>2, <1>3
(***************************************************************************)
(* The free count.                                                         *)
(***************************************************************************)

\* Free clusters are finitely many, at most all of them.
LEMMA FreeAreCounted ==
  ASSUME NEW fat
  PROVE  /\ IsFiniteSet(FreeIn(fat)) /\ Cardinality(FreeIn(fat)) \in Nat
         /\ Cardinality(FreeIn(fat)) <= NClusters
<1>1. IsFiniteSet(Clusters) /\ Cardinality(Clusters) = NClusters
  <2>1. NClusters + 1 \in Int /\ 2 \in Int /\ ~(2 > NClusters + 1)
    BY FatAssumption
  <2>2. /\ IsFiniteSet(2 .. NClusters + 1)
        /\ Cardinality(2 .. NClusters + 1) = (NClusters + 1) - 2 + 1
    BY <2>1, FS_Interval
  <2> QED
    BY <2>2, FatAssumption DEF Clusters
<1>2. FreeIn(fat) \in SUBSET Clusters
  BY DEF FreeIn
<1> QED
  BY <1>1, <1>2, FS_Subset, FS_CardinalityType

\* A FAT with fewer free clusters has a smaller count.
LEMMA FewerFree ==
  ASSUME NEW fat, NEW fat2, FreeIn(fat) \subseteq FreeIn(fat2)
  PROVE  /\ Cardinality(FreeIn(fat)) <= Cardinality(FreeIn(fat2))
         /\ FreeIn(fat) # FreeIn(fat2) =>
              Cardinality(FreeIn(fat)) < Cardinality(FreeIn(fat2))
<1>1. /\ IsFiniteSet(FreeIn(fat2)) /\ Cardinality(FreeIn(fat2)) \in Nat
      /\ Cardinality(FreeIn(fat)) \in Nat
  BY FreeAreCounted
<1>2. FreeIn(fat) \in SUBSET FreeIn(fat2)
  OBVIOUS
<1>3. /\ Cardinality(FreeIn(fat)) <= Cardinality(FreeIn(fat2))
      /\ Cardinality(FreeIn(fat)) = Cardinality(FreeIn(fat2)) => FreeIn(fat) = FreeIn(fat2)
  BY <1>1, <1>2, FS_Subset
<1> QED
  BY <1>1, <1>3

\* Writing the tables of the volume to the card, or not, keeps the counts.
LEMMA CountsKept ==
  ASSUME SInv, fs.fs_type, card' \in CardState, card' = card \/ Written(fs),
         fs'.fat = fs.fat, fs'.free_clst = fs.free_clst, pc' # "link"
  PROVE  Counting'
<1>1. /\ FreeIn(fs.fat) \subseteq FreeIn(card.fat)
      /\ Cardinality(FreeIn(fs.fat)) <= fs.free_clst
      /\ Cardinality(FreeIn(card.fat)) <= card.free
      /\ card.free \in Nat
  BY DEF SInv, Counting, FreeNotUnderstated, Shaped, CardState
<1>2. CASE card' = card
  BY <1>1, <1>2 DEF Counting, FreeNotUnderstated
<1>3. CASE Written(fs)
  <2>1. Cardinality(FreeIn(fs.fat)) <= card.free
    BY <1>1, FewerFree, FreeAreCounted
  <2> QED
    BY <1>1, <1>3, <2>1 DEF Counting, FreeNotUnderstated, Written
<1> QED
  BY <1>2, <1>3

\* A step that unmounts the volume keeps the counts.
LEMMA CountsDropped ==
  ASSUME SInv, card' = card, fs' = Unmounted, pc' # "link"
  PROVE  Counting'
<1>1. ~fs'.fs_type
  BY UnmountedShape
<1> QED
  BY <1>1 DEF SInv, Counting, FreeNotUnderstated
(***************************************************************************)
(* Steps that write no file.                                               *)
(***************************************************************************)

\* Outside a write nothing is claimed of the open file.
LEMMA NotWriting ==
  ASSUME pc' \notin Writing
  PROVE  OwnEntry' /\ Apart' /\ Working'
BY DEF OwnEntry, Apart, Working

\* The tables on the card stay, and with them the files and the names.
LEMMA TablesStay ==
  ASSUME SInv, card' \in CardState, card'.fat = card.fat, card'.dir = card.dir
  PROVE  /\ SameFiles /\ Used(card'.dir) = Used(card.dir)
         /\ \A n \in Nat : /\ 0 .. n - 1 \subseteq Used(card.dir) /\ image_index' = n
                           /\ pc' = "search" => n \in Used(card.dir)
                           => Naming'
<1>1. SameFiles
  BY FilesStay DEF SInv
<1>2. Used(card'.dir) = Used(card.dir)
  BY DEF Used
<1>3. NoGaps'
  BY DEF SInv, Naming, NoGaps
<1> QED
  BY <1>1, <1>2, <1>3 DEF SInv, Naming

\* Initially the card is empty.
LEMMA InitSInv ==
  ASSUME Init
  PROVE  SInv
<1> USE DEF Init, FatInit
<1>1. /\ card.fat = [c \in Clusters |-> Unused] /\ card.dir = [s \in Slots |-> NoEntry]
      /\ card.free \in {NClusters, Unknown}
  OBVIOUS
<1>2. Shaped
  <2>1. card \in CardState
    <3>1. {NClusters, Unknown} \subseteq 0 .. Unknown
      BY FatAssumption DEF Unknown
    <3>2. /\ [c \in Clusters |-> Unused] \in FatTable
          /\ [s \in Slots |-> NoEntry] \in DirTable
      BY UnmountedShape DEF FatTable, DirTable
    <3> QED
      BY <3>1, <3>2 DEF CardState
  <2>2. data \in [Clusters -> Nat \X Nat]
    BY DEF Blank
  <2> QED
    BY <2>1, <2>2, UnmountedShape DEF Shaped, Results
<1>3. ~fs.fs_type /\ pc = "idle"
  BY UnmountedShape
<1>4. OneDirtySector /\ Control
  BY <1>3 DEF OneDirtySector, Control, Writing, Filling, Closing
<1>5. Index
  BY StoreAssumption DEF Index, Shot, Filling, Closing
<1>6. Counting
  <2>1. Cardinality(FreeIn(card.fat)) <= card.free
    BY <1>1, FreeAreCounted, FatAssumption DEF Unknown
  <2> QED
    BY <1>3, <2>1 DEF Counting, FreeNotUnderstated
<1>7. \A s \in Slots : card.dir[s].name = -1 /\ card.dir[s].size = 0
  BY <1>1 DEF NoEntry
<1>8. NoEntry.name = -1
  BY DEF NoEntry
<1>9. Naming
  <2>1. Used(card.dir) = {}
    BY <1>7, <1>8 DEF Used
  <2>2. NoGaps
    BY <2>1 DEF NoGaps, Used
  <2> QED
    BY <1>3, <1>7, <1>8, <2>2 DEF Naming
<1>10. Filed
  BY <1>3, <1>7 DEF Filed, Files
<1>11. OwnEntry /\ Apart /\ Working
  BY <1>3 DEF OwnEntry, Apart, Working, Writing, Filling, Closing
<1> QED
  BY <1>2, <1>4, <1>5, <1>6, <1>9, <1>10, <1>11 DEF SInv

\* The camera delivers an image.
LEMMA TakeKeeps ==
  ASSUME SInv, cmd_image
  PROVE  SInv'
<1>1. /\ pc = "idle" /\ pc' = "open" /\ Shot < MaxShots /\ image_index' = image_index
      /\ fs' = Unmounted /\ card' = card /\ data' = data /\ fil' = fil /\ fr' = fr
  BY DEF cmd_image, f_mount
<1>2. PICK n \in 1 .. MaxLength : length' = Append(length, n)
  BY DEF cmd_image
<1>3. length \in Seq(1 .. MaxLength) /\ Shot \in Nat
  BY DEF SInv, Index, Shot
<1>4. length' \in Seq(1 .. MaxLength) /\ Shot' = Shot + 1
  BY <1>2, <1>3 DEF Shot
<1>5. Shaped' /\ ~fs'.fs_type
  BY <1>1, UnmountedShape DEF SInv, Shaped
<1>6. OneDirtySector' /\ Control'
  BY <1>1, <1>5 DEF OneDirtySector, Control, Writing, Filling, Closing
<1>7. Index'
  BY <1>1, <1>3, <1>4, StoreAssumption DEF SInv, Index, Filling, Closing
<1>8. Counting'
  BY <1>1, CountsDropped
<1>9. SameFiles /\ Naming'
  BY <1>1, TablesStay DEF SInv, Shaped, Naming, Index
<1>10. Filed'
  BY <1>1, <1>2, <1>3, <1>4, <1>9, FiledStays
<1> QED
  BY <1>1, <1>5, <1>6, <1>7, <1>8, <1>9, <1>10, NotWriting
     DEF SInv, Writing, Filling, Closing

\* A reset loses what is in memory only.
LEMMA ResetKeeps ==
  ASSUME SInv, Reset
  PROVE  SInv'
<1>1. /\ pc' = "idle" /\ image_index' = 0 /\ length' = length
      /\ fs' = Unmounted /\ card' = card /\ data' = data /\ fil' = NoFile /\ fr' = "FR_OK"
  BY DEF Reset
<1>2. Shaped' /\ ~fs'.fs_type
  BY <1>1, UnmountedShape DEF SInv, Shaped, Results
<1>3. OneDirtySector' /\ Control'
  BY <1>1, <1>2 DEF OneDirtySector, Control, Writing, Filling, Closing
<1>4. Index'
  BY <1>1, StoreAssumption DEF SInv, Index, Filling, Closing, Shot
<1>5. Counting'
  BY <1>1, CountsDropped
<1>6. SameFiles /\ Naming'
  BY <1>1, TablesStay DEF SInv, Shaped
<1>7. Filed'
  BY <1>1, <1>6, FiledStays DEF Writing, Filling, Closing
<1> QED
  BY <1>1, <1>2, <1>3, <1>4, <1>5, <1>6, <1>7, NotWriting
     DEF SInv, Writing, Filling, Closing

\* f_write without a file reports it.
LEMMA InvalidKeeps ==
  ASSUME SInv, WriteWithoutFile
  PROVE  SInv'
<1>1. /\ pc' = "idle" /\ image_index' = image_index /\ length' = length
      /\ fs' = fs /\ card' = card /\ data' = data /\ fil' = fil
      /\ fr' = "FR_INVALID_OBJECT" /\ pc \in {"nofile", "search"}
  BY DEF WriteWithoutFile, WriteInvalid
<1>2. Shaped' /\ OneDirtySector' /\ Control'
  BY <1>1 DEF SInv, Shaped, Results, OneDirtySector, Control, Writing, Filling, Closing
<1>3. Index'
  BY <1>1 DEF SInv, Index, Filling, Closing, Shot
<1>4. Counting'
  BY <1>1 DEF SInv, Counting, FreeNotUnderstated
<1>5. SameFiles /\ Naming'
  BY <1>1, TablesStay DEF SInv, Shaped, Naming, Index
<1>6. Filed'
  BY <1>1, <1>5, FiledStays DEF Writing, Filling, Closing
<1> QED
  BY <1>1, <1>2, <1>3, <1>4, <1>5, <1>6, NotWriting
     DEF SInv, Writing, Filling, Closing
(***************************************************************************)
(* Opening a file.                                                         *)
(***************************************************************************)

\* write_jpeg tries the name image_index', and all names below it are taken.
Tries ==
  /\ pc \in {"open", "search"} /\ length' = length
  /\ image_index' \in Nat /\ image_index' <= IndexLimit + Shot - 1
  /\ 0 .. image_index' - 1 \subseteq Used(card.dir)

\* f_open works on the tables as they are on the card.
LEMMA OpenTables ==
  ASSUME SInv, pc \in {"open", "search"}
  PROVE  /\ Volume \in FsState /\ Volume.fs_type /\ ~Volume.wflag
         /\ Volume.fat = card.fat /\ Volume.dir = card.dir
         /\ Cardinality(FreeIn(card.fat)) <= Volume.free_clst
<1>1. Shaped /\ OneDirtySector /\ Control /\ Counting
  BY DEF SInv
<1>2. CASE ~fs.fs_type
  BY <1>1, <1>2, VolumeAgrees DEF Counting, FreeNotUnderstated
<1>3. CASE fs.fs_type
  <2>1. Volume = fs /\ ~fs.wflag
    BY <1>1, <1>3, VolumeAgrees DEF Control
  <2>2. /\ \A c \in Clusters : fs.fat[c] = card.fat[c]
        /\ \A s \in Slots : fs.dir[s] = card.dir[s]
    BY <1>1, <1>3, <2>1 DEF OneDirtySector
  <2>3. /\ fs.fat \in FatTable /\ card.fat \in FatTable
        /\ fs.dir \in DirTable /\ card.dir \in DirTable
    BY <1>1 DEF Shaped, CardState, FsState
  <2>4. fs.fat = card.fat /\ fs.dir = card.dir
    BY <2>2, <2>3 DEF FatTable, DirTable
  <2> QED
    BY <1>1, <1>3, <2>1, <2>4, VolumeAgrees DEF Counting, FreeNotUnderstated
<1> QED
  BY <1>2, <1>3

\* A name that is taken, or an open that fails, leaves the card as it was.
LEMMA OpenMisses ==
  ASSUME SInv, Tries,
         \/ OpenExisting(image_index') /\ pc' = "search"
         \/ OpenFails(image_index') /\ pc' = "nofile"
  PROVE  SInv'
<1>1. Shaped /\ OneDirtySector /\ Tries
  BY DEF SInv
<1>2. /\ Kept(Volume) \/ (card' = card /\ fs' = Unmounted /\ pc' = "nofile")
      /\ fil' = NoFile /\ fr' \in Results /\ data' = data
      /\ pc' = "search" => SlotsOf(Volume.dir, image_index') # {}
      /\ pc' \in {"search", "nofile"}
  BY <1>1, OpenExistingEffect, OpenFailsEffect
<1>3. /\ Volume \in FsState /\ Volume.fs_type /\ ~Volume.wflag
      /\ Volume.fat = card.fat /\ Volume.dir = card.dir
      /\ Cardinality(FreeIn(card.fat)) <= Volume.free_clst
  BY <1>1, OpenTables DEF Tries
<1>4. card' \in CardState /\ fs' \in FsState /\ fil' \in FileState
  BY <1>1, <1>2, UnmountedShape DEF Kept, Shaped
<1>5. card'.fat = card.fat /\ card'.dir = card.dir /\ card'.free = card.free
  BY <1>2, <1>3 DEF Kept, Written
<1>6. \/ /\ fs'.fs_type /\ fs'.fat = card.fat /\ fs'.dir = card.dir
         /\ fs'.free_clst = Volume.free_clst /\ ~fs'.wflag
      \/ ~fs'.fs_type /\ pc' = "nofile"
  BY <1>2, <1>3, UnmountedShape DEF Kept
<1>7. Shaped'
  BY <1>1, <1>2, <1>4 DEF Shaped
<1>8. OneDirtySector'
  BY <1>5, <1>6 DEF OneDirtySector
<1>9. Control'
  BY <1>2, <1>6 DEF Control, Writing, Filling, Closing
<1>10. Index'
  BY <1>1, <1>2, StoreAssumption DEF SInv, Index, Tries, Filling, Closing, Shot
<1>11. Counting'
  BY <1>2, <1>3, <1>5, <1>6 DEF SInv, Counting, FreeNotUnderstated
<1>12. pc' = "search" => image_index' \in Used(card.dir)
  <2> SUFFICES ASSUME NEW s \in Slots, card.dir[s].name = image_index'
               PROVE  image_index' \in Used(card.dir)
    BY <1>2, <1>3 DEF SlotsOf
  <2> QED
    BY <1>1 DEF Tries, Used, NoEntry
<1>13. SameFiles /\ Naming'
  BY <1>1, <1>4, <1>5, <1>12, TablesStay DEF Tries
<1>14. Filed'
  <2>1. Shot' = Shot
    BY <1>1 DEF Tries, Shot
  <2> QED
    BY <1>1, <1>2, <1>13, <2>1, FiledStays DEF Tries
<1> QED
  BY <1>2, <1>7, <1>8, <1>9, <1>10, <1>11, <1>13, <1>14, NotWriting
     DEF SInv, Writing, Filling, Closing

\* A new name is the first that is not taken, so it is above all others.
LEMMA OpenHits ==
  ASSUME SInv, Tries, OpenCreates(image_index'), pc' = "extend"
  PROVE  SInv'
<1>1. /\ Shaped /\ OneDirtySector /\ Tries /\ image_index' \in Nat
      /\ image_index' \in Int
  <2>1. Shaped /\ OneDirtySector
    BY DEF SInv
  <2>2. image_index' \in Nat
    BY DEF Tries
  <2> QED
    BY <2>1, <2>2
<1>2. PICK s \in Slots :
           /\ SlotsOf(Volume.dir, image_index') = {}
           /\ Volume.dir[s].name = NoEntry.name
           /\ card' \in CardState /\ Written(Volume)
           /\ fs' \in FsState /\ fs'.fs_type /\ fs'.wflag
           /\ fs'.winsect = DirSect(s)
           /\ fs'.fat = Volume.fat /\ fs'.free_clst = Volume.free_clst
           /\ fs'.dir = [Volume.dir EXCEPT ![s] = [NoEntry EXCEPT !.name = image_index']]
           /\ fil' = [NoFile EXCEPT !.slot = s] /\ fil' \in FileState
           /\ fr' \in Results /\ data' = data
  BY <1>1, OpenCreatesEffect
<1>3. /\ Volume \in FsState /\ Volume.fs_type /\ ~Volume.wflag
      /\ Volume.fat = card.fat /\ Volume.dir = card.dir
      /\ Cardinality(FreeIn(card.fat)) <= Volume.free_clst
  BY <1>1, OpenTables DEF Tries
<1>4. card'.fat = card.fat /\ card'.dir = card.dir /\ card'.free = card.free
  BY <1>2, <1>3 DEF Written
<1>5. /\ fil'.slot = s /\ fil'.clust = 0 /\ fil'.sclust = 0 /\ fil'.size = 0
      /\ fil'.dirty = FALSE
  BY <1>2 DEF NoFile
<1>6. /\ fs'.dir[s].name = image_index' /\ fs'.dir[s].size = 0
      /\ \A t \in Slots \ {s} : fs'.dir[t] = card.dir[t]
  BY <1>2, <1>3 DEF FsState, DirTable, NoEntry
<1>7. Shaped'
  BY <1>1, <1>2 DEF Shaped
<1>8. OneDirtySector'
  BY <1>2, <1>3, <1>4, <1>6 DEF OneDirtySector
<1>9. Control'
  BY <1>2, <1>5 DEF Control, Writing, Filling, Closing
<1>10. Index'
  BY <1>1, StoreAssumption DEF SInv, Index, Tries, Filling, Closing, Shot
<1>11. Counting'
  BY <1>2, <1>3, <1>4 DEF SInv, Counting, FreeNotUnderstated
<1>12. SameFiles /\ Naming'
  BY <1>1, <1>2, <1>4, TablesStay DEF Tries
<1>13. Filed'
  <2>1. Shot' = Shot
    BY <1>1 DEF Tries, Shot
  <2> QED
    BY <1>1, <1>2, <1>12, <2>1, FiledStays DEF Tries
<1>14. OwnEntry'
  <2>1. ASSUME NEW t \in Slots \ {s} PROVE card'.dir[t].name < image_index'
    <3> SUFFICES ASSUME card.dir[t].name >= image_index' PROVE FALSE
      BY <1>1, <1>4 DEF SInv, Naming, NoEntry
    <3>1. card.dir[t].name \in Nat
      BY <1>1 DEF SInv, Naming, NoEntry
    <3>2. card.dir[t].name \in Used(card.dir)
      BY <3>1 DEF Used, NoEntry
    <3>3. image_index' \in Used(card.dir)
      BY <1>1, <3>1, <3>2 DEF SInv, Naming, NoGaps, Used
    <3>4. PICK u \in Slots : card.dir[u].name = image_index'
      BY <3>3 DEF Used
    <3> QED
      BY <1>2, <1>3, <3>4 DEF SlotsOf
  <2>2. Top' = image_index'
    BY DEF Top, Filling
  <2>3. card'.dir[s].name = NoEntry.name /\ card'.dir[s].size = 0
    BY <1>2, <1>3, <1>4 DEF SInv, Naming
  <2> QED
    BY <1>2, <1>4, <1>5, <1>6, <2>1, <2>2, <2>3 DEF OwnEntry
<1>15. Apart'
  <2>1. \A t \in Files' : \A k \in Spans(t)' : ChainOf(t)'[k] \in Clusters
    BY <1>12 DEF SameFiles, SameFile, Spans
  <2>2. 0 \notin Clusters
    BY DEF Clusters
  <2> QED
    BY <1>2, <1>3, <1>4, <1>5, <2>1, <2>2 DEF Apart
<1>16. Working'
  <2>1. WorkLen' = 0 /\ Shot' \in 1 .. Len(length') /\ length' \in Seq(1 .. MaxLength)
    BY <1>1, <1>5 DEF WorkLen, SInv, Index, Tries, Shot
  <2>2. 0 < length'[Shot']
    BY <2>1, StoreAssumption DEF Shot
  <2>3. Work([j \in 1 .. 0 |-> 2])'
    BY <1>5, <2>1 DEF Work
  <2>4. [j \in 1 .. 0 |-> 2] \in [1 .. WorkLen' -> Clusters]
    BY <2>1
  <2>5. Unfinished'
    BY <1>5, <2>2 DEF Unfinished
  <2> QED
    BY <2>3, <2>4, <2>5 DEF Working, Closing
<1> QED
  BY <1>7, <1>8, <1>9, <1>10, <1>11, <1>12, <1>13, <1>14, <1>15, <1>16 DEF SInv

\* The first name tried is the current index, the next ones follow it.
LEMMA OpenKeeps ==
  ASSUME SInv, OpenFirst \/ OpenNext
  PROVE  SInv'
<1>1. Tries
  <2>1. image_index \in Nat /\ IndexLimit \in Nat /\ Shot \in Nat /\ Naming /\ Index
    BY StoreAssumption DEF SInv, Index, Shot
  <2>2. CASE OpenFirst
    BY <2>1, <2>2 DEF OpenFirst, Tries, Index, Naming
  <2>3. CASE OpenNext
    <3>1. pc = "search" /\ image_index' = image_index + 1 /\ image_index < IndexLimit
      BY <2>3 DEF OpenNext
    <3>2. image_index' <= IndexLimit + Shot - 1 /\ image_index' \in Nat
      BY <2>1, <3>1 DEF Index
    <3>3. 0 .. image_index' - 1 \subseteq Used(card.dir)
      BY <2>1, <3>1 DEF Naming
    <3> QED
      BY <2>3, <3>1, <3>2, <3>3 DEF OpenNext, Tries
  <2> QED
    BY <2>2, <2>3
<1>2. \/ OpenExisting(image_index') /\ pc' = "search"
      \/ OpenCreates(image_index') /\ pc' = "extend"
      \/ OpenFails(image_index') /\ pc' = "nofile"
  <2>1. CASE OpenFirst
    <3>1. image_index' = image_index
      BY <2>1 DEF OpenFirst
    <3> QED
      BY <2>1, <3>1 DEF OpenFirst
  <2>2. CASE OpenNext
    BY <2>2 DEF OpenNext
  <2> QED
    BY <2>1, <2>2
<1> QED
  BY <1>1, <1>2, OpenMisses, OpenHits
(***************************************************************************)
(* Writing a file.                                                         *)
(***************************************************************************)

\* No cluster of a chain is free, and only the last one ends it.
LEMMA LinkedUsed ==
  ASSUME NEW fat, NEW c, NEW n, NEW ch, Linked(fat, c, n, ch)
  PROVE  /\ n \in Nat /\ n > 0 /\ n \in 1 .. n
         /\ \A k \in 1 .. n : ch[k] \in Clusters /\ fat[ch[k]] # Unused
         /\ \A k \in 1 .. n - 1 : ch[k] # ch[n]
<1>1. /\ n \in Nat /\ n > 0 /\ n \in 1 .. n /\ ch \in [1 .. n -> Clusters]
      /\ fat[ch[n]] = EOC
      /\ \A k \in 1 .. n - 1 : fat[ch[k]] = ch[k + 1] /\ k + 1 \in 1 .. n /\ k \in 1 .. n
  BY DEF Linked
<1>2. \A x \in Clusters : x # EOC /\ x # Unused
  BY DEF Clusters, EOC, Unused
<1>3. \A k \in 1 .. n - 1 : fat[ch[k]] \in Clusters
  BY <1>1
<1>4. \A k \in 1 .. n - 1 : ch[k] # ch[n]
  BY <1>1, <1>2, <1>3
<1>5. ASSUME NEW k \in 1 .. n PROVE fat[ch[k]] # Unused
  <2>1. k = n \/ k \in 1 .. n - 1
    BY <1>1
  <2> QED
    BY <1>1, <1>2, <1>3, <2>1 DEF EOC, Unused
<1> QED
  BY <1>1, <1>4, <1>5

\* While a file is written, the files on the card and the names stay in order.
LEMMA OthersKept ==
  ASSUME SInv, pc \in Writing, pc # "window", card' \in CardState,
         card' = card \/ Written(fs), length' = length,
         \A c \in Clusters : c # fil.clust => data'[c] = data[c]
  PROVE  SameFiles /\ Filed'
<1>1. SameFiles
  BY FilesKept
<1>2. \A s \in Files : \A k \in Spans(s) :
        data'[ChainOf(s)[k]] = data[ChainOf(s)[k]]
  <2>1. \A s \in Files : \A k \in Spans(s) :
          ChainOf(s)[k] \in Clusters /\ fil.clust # ChainOf(s)[k]
    BY <1>1 DEF SameFiles, SameFile, SInv, Apart
  <2> QED
    BY <2>1
<1>3. Shot' = Shot
  BY DEF Shot
<1> QED
  BY <1>1, <1>2, <1>3, FiledStays

\* While f_write works, the entry stays as it was created, and comes to the
\* card at the latest when the first FAT sector is needed.
LEMMA EntryKept ==
  ASSUME SInv, pc \in Writing, pc \notin {"entry", "window"}, card' \in CardState,
         card' = card \/ Written(fs),
         fs'.dir = fs.dir, fil'.slot = fil.slot, Top' = Top,
         pc' \in Writing \ {"window"}, pc' = "extend" => fil'.clust # 0,
         pc = "extend" /\ fil.clust = 0 => Written(fs)
  PROVE  OwnEntry' /\ card'.dir[fil.slot].name = Top
<1>1. OwnEntry /\ pc \in Writing
  BY DEF SInv
<1>2. card'.dir[fil.slot].name = Top
  BY <1>1 DEF OwnEntry, Written
<1>3. \A s \in Slots \ {fil.slot} : /\ fs'.dir[s] = card'.dir[s]
                                    /\ card'.dir[s].name < Top
  BY <1>1 DEF OwnEntry, Written
<1>4. card'.dir[fil.slot].size = 0 /\ fs'.dir[fil.slot].size = 0
  BY <1>1 DEF OwnEntry, Written
<1> QED
  BY <1>1, <1>2, <1>3, <1>4 DEF OwnEntry

\* Between two moves of the index the bounds stay.
LEMMA IndexKept ==
  ASSUME SInv, image_index' = image_index, length' = length,
         \/ pc' \in {"idle", "fsinfo"}
         \/ pc \in Filling /\ pc' \in Filling
         \/ pc \in Closing /\ pc' \in Closing
  PROVE  Index' /\ Top' = IF pc' \in Filling THEN image_index ELSE image_index - 1
<1>1. Shot' = Shot
  BY DEF Shot
<1>2. /\ pc' \in Filling \cup {"open", "search", "nofile"} => pc \in Filling
      /\ pc' \in Closing => pc \in Closing
  BY DEF Filling, Closing
<1>3. Index'
  BY <1>1, <1>2 DEF SInv, Index
<1> QED
  BY <1>3 DEF Top
\* f_write allocates a cluster.
LEMMA ExtendKeeps ==
  ASSUME SInv, WriteExtend
  PROVE  SInv'
<1>1. /\ Shaped /\ OneDirtySector /\ Control /\ pc = "extend" /\ pc' = "link"
      /\ fs.fs_type /\ fil.slot \in Slots /\ pc \in Writing /\ pc' \in Writing
      /\ pc \in Filling /\ pc' \in Filling
      /\ image_index' = image_index /\ length' = length /\ ExtendChain
  BY DEF SInv, Control, WriteExtend, Writing, Filling
<1>2. PICK ncl \in Clusters :
           /\ fs.fat[ncl] = Unused /\ fs.free_clst > 0
           /\ card' \in CardState
           /\ Written(fs) \/ (card' = card /\ fs.winsect = FatSect(ncl))
           /\ fs' \in FsState /\ fs'.fs_type /\ Agrees(card', fs')
           /\ fs'.wflag /\ fs'.winsect = FatSect(ncl)
           /\ fs'.fat = [fs.fat EXCEPT ![ncl] = EOC]
           /\ fs'.dir = fs.dir /\ fs'.free_clst = fs.free_clst
           /\ fil' \in FileState /\ fil' = [fil EXCEPT !.next = ncl]
           /\ data' = data /\ fr' = fr
  BY <1>1, ExtendEffect
<1>3. /\ fil'.next = ncl /\ fil'.slot = fil.slot /\ fil'.clust = fil.clust
      /\ fil'.sclust = fil.sclust /\ fil'.size = fil.size /\ fil'.dirty = fil.dirty
  BY <1>1, <1>2 DEF Shaped, FileState
<1>4. /\ fs'.fat[ncl] = EOC /\ \A c \in Clusters \ {ncl} : fs'.fat[c] = fs.fat[c]
      /\ fs.fat \in FatTable /\ card.fat \in FatTable
  BY <1>1, <1>2 DEF Shaped, FsState, CardState, FatTable
<1>5. card' = card \/ Written(fs)
  BY <1>2
<1>6. Shaped' /\ OneDirtySector'
  BY <1>1, <1>2 DEF Shaped, OneDirtySector, Agrees
<1>7. Control'
  BY <1>1, <1>2, <1>3, <1>4 DEF Control, Closing
<1>8. Index' /\ Top' = Top
  BY <1>1, IndexKept DEF Top
<1>9. Counting'
  <2>1. /\ FreeIn(fs.fat) \subseteq FreeIn(card.fat)
        /\ Cardinality(FreeIn(fs.fat)) <= fs.free_clst
        /\ Cardinality(FreeIn(card.fat)) <= card.free /\ card.free \in Nat
        /\ fs.free_clst \in Nat
    BY <1>1 DEF SInv, Counting, FreeNotUnderstated, Shaped, CardState, FsState
  <2>2. FreeIn(fs'.fat) \subseteq FreeIn(fs.fat) /\ FreeIn(fs'.fat) # FreeIn(fs.fat)
    BY <1>2, <1>4 DEF FreeIn, EOC, Unused
  <2>3. Cardinality(FreeIn(fs'.fat)) < Cardinality(FreeIn(fs.fat))
    BY <2>2, FewerFree
  <2>4. Cardinality(FreeIn(fs'.fat)) < fs'.free_clst
    BY <1>2, <2>1, <2>3, FreeAreCounted
  <2>5. FreeIn(fs'.fat) \subseteq FreeIn(card'.fat)
    BY <1>5, <2>1, <2>2 DEF Written
  <2>6. Cardinality(FreeIn(card'.fat)) <= card'.free
    <3>1. Cardinality(FreeIn(fs.fat)) <= card.free
      BY <2>1, FewerFree, FreeAreCounted
    <3> QED
      BY <1>5, <2>1, <3>1 DEF Written
  <2> QED
    BY <1>1, <1>2, <2>1, <2>4, <2>5, <2>6, FreeAreCounted
       DEF Counting, FreeNotUnderstated
<1>10. Naming'
  BY <1>1, <1>2, <1>5, NamesKept
<1>11. SameFiles /\ Filed'
  BY <1>1, <1>2, <1>5, OthersKept
<1>12. OwnEntry'
  <2>1. fil.clust = 0 => Written(fs)
    <3> SUFFICES ASSUME fil.clust = 0, fs.winsect = FatSect(ncl) PROVE FALSE
      BY <1>2
    <3>1. FatSect(ncl) = DirSect(fil.slot)
      BY <1>1 DEF SInv, OwnEntry
    <3>2. FatSect(ncl) < DirSect(fil.slot) /\ FatSect(ncl) \in Int
      BY <1>1, <1>2, SectorLayout DEF Sectors, NoSector
    <3> QED
      BY <3>1, <3>2
  <2>2. pc' \in Writing \ {"window"} /\ pc \notin {"entry", "window"} /\ pc' # "extend"
    BY <1>1
  <2> QED
    BY <1>1, <1>2, <1>3, <1>5, <1>8, <2>1, <2>2, EntryKept
<1>13. \A s \in Files : \A k \in Spans(s) : ChainOf(s)[k] # ncl /\ ChainOf(s)[k] \in Clusters
  <2> SUFFICES ASSUME NEW s \in Files, NEW k \in Spans(s)
               PROVE  ChainOf(s)[k] \in Clusters /\ fs.fat[ChainOf(s)[k]] # Unused
    BY <1>2
  <2>1. fs.fat[ChainOf(s)[k]] = card.fat[ChainOf(s)[k]]
    BY <1>1 DEF SInv, Apart
  <2>2. Linked(card.fat, card.dir[s].sclust, card.dir[s].size, ChainOf(s))
    BY DEF SInv, Filed
  <2> QED
    BY <2>1, <2>2, LinkedUsed DEF Spans
<1>14. Apart'
  <2> SUFFICES ASSUME NEW s \in Files, NEW k \in Spans(s)
               PROVE  /\ fs'.fat[ChainOf(s)[k]] = card'.fat[ChainOf(s)[k]]
                      /\ fil'.clust # ChainOf(s)[k] /\ fil'.next # ChainOf(s)[k]
    BY <1>11 DEF Apart, SameFiles, SameFile, Spans
  <2>1. fs.fat[ChainOf(s)[k]] = card.fat[ChainOf(s)[k]] /\ fil.clust # ChainOf(s)[k]
    BY <1>1 DEF SInv, Apart
  <2>2. card'.fat[ChainOf(s)[k]] = card.fat[ChainOf(s)[k]]
    BY <1>11 DEF SameFiles, SameFile
  <2> QED
    BY <1>3, <1>4, <1>13, <2>1, <2>2
<1>15. Working'
  <2>1. WorkLen = fil.size /\ WorkLen' = WorkLen /\ Shot' = Shot
    BY <1>1, <1>3 DEF WorkLen, Shot
  <2>2. PICK ch \in [1 .. WorkLen -> Clusters] : Work(ch)
    BY <1>1 DEF SInv, Working
  <2>3. WorkLen \in Nat
    BY <1>1, <2>1 DEF Shaped, FileState
  <2>4. WorkLen > 0 => /\ \A j \in 1 .. WorkLen : ch[j] \in Clusters /\ fs.fat[ch[j]] # Unused
    BY <2>2, LinkedUsed DEF Work
  <2>5. \A j \in 1 .. WorkLen : ch[j] # ncl /\ fs'.fat[ch[j]] = fs.fat[ch[j]]
    BY <1>2, <1>4, <2>3, <2>4
  <2>6. WorkLen > 0 => Linked(fs'.fat, fil.sclust, WorkLen, ch) /\ ch[WorkLen] = fil.clust
    BY <2>2, <2>5 DEF Work, Linked
  <2>7. \A j \in 1 .. WorkLen, s \in Files' : \A k \in Spans(s)' : ch[j] # ChainOf(s)'[k]
    BY <1>11, <2>2 DEF Work, SameFiles, SameFile, Spans
  <2>8. Work(ch)'
    BY <1>1, <1>2, <1>3, <2>1, <2>2, <2>5, <2>6, <2>7 DEF Work
  <2>9. Unfinished'
    BY <1>1, <1>3, <2>1 DEF SInv, Working, Unfinished
  <2> QED
    BY <1>1, <2>1, <2>8, <2>9 DEF Working, Closing
<1> QED
  BY <1>6, <1>7, <1>8, <1>9, <1>10, <1>11, <1>12, <1>14, <1>15 DEF SInv

\* ch is a chain of n clusters from first to last, or empty, and fat2 differs
\* from fat in that last leads to next, a cluster that is an end and not in ch.
Linking(fat, fat2, first, last, n, ch, next) ==
  /\ n \in Nat /\ ch \in [1 .. n -> Clusters] /\ next \in Clusters
  /\ n > 0 => Linked(fat, first, n, ch) /\ ch[n] = last
  /\ n = 0 => first = 0 /\ last = 0
  /\ fat[next] = EOC /\ \A j \in 1 .. n : ch[j] # next
  /\ \A c \in Clusters : c # last => fat2[c] = fat[c]
  /\ last # 0 => fat2[last] = next

\* The chain has next as its new end, or consists of it.
LEMMA ChainGrows ==
  ASSUME NEW fat, NEW fat2, NEW first, NEW last, NEW n, NEW ch, NEW next,
         Linking(fat, fat2, first, last, n, ch, next)
  PROVE  \E longer \in [1 .. n + 1 -> Clusters] :
           /\ Linked(fat2, IF first = 0 THEN next ELSE first, n + 1, longer)
           /\ longer[n + 1] = next
           /\ \A j \in 1 .. n : longer[j] = ch[j] /\ ch[j] \in Clusters
           /\ n \in Nat /\ n + 1 \in Nat /\ n + 1 \in 1 .. n + 1
<1> USE DEF Linking
<1>1. PICK longer \in [1 .. n + 1 -> Clusters] :
        /\ longer[n + 1] = next
        /\ \A j \in 1 .. n : longer[j] = ch[j] /\ ch[j] \in Clusters
        /\ n + 1 \in Nat /\ n + 1 \in 1 .. n + 1
  <2> DEFINE g == [j \in 1 .. n + 1 |-> IF j <= n THEN ch[j] ELSE next]
  <2>1. /\ g \in [1 .. n + 1 -> Clusters] /\ g[n + 1] = next
        /\ \A j \in 1 .. n : g[j] = ch[j] /\ ch[j] \in Clusters
        /\ n + 1 \in Nat /\ n + 1 \in 1 .. n + 1
    OBVIOUS
  <2> QED
    BY <2>1
<1>2. 0 \notin Clusters
  BY DEF Clusters
<1>3. fat2[next] = EOC
  <2>1. next # last
    <3>1. CASE n = 0
      BY <1>2, <3>1
    <3>2. CASE n > 0
      <4>1. n \in 1 .. n
        BY <3>2
      <4> QED
        BY <3>2, <4>1
    <3> QED
      BY <3>1, <3>2
  <2> QED
    BY <2>1
<1>4. longer[1] = IF first = 0 THEN next ELSE first
  <2>1. CASE n = 0
    BY <1>1, <2>1
  <2>2. CASE n > 0
    <3>1. 1 \in 1 .. n /\ ch[1] = first
      BY <2>2 DEF Linked
    <3> QED
      BY <1>1, <1>2, <3>1
  <2> QED
    BY <2>1, <2>2
<1>5. ASSUME NEW k \in 1 .. n PROVE fat2[longer[k]] = longer[k + 1]
  <2>1. n > 0 /\ Linked(fat, first, n, ch) /\ ch[n] = last
    OBVIOUS
  <2>2. CASE k = n
    BY <1>1, <1>2, <2>1, <2>2
  <2>3. CASE k # n
    <3>1. k \in 1 .. n - 1 /\ k + 1 \in 1 .. n
      BY <2>3
    <3>2. ch[k] # last
      BY <2>1, <3>1, LinkedUsed
    <3>3. fat[ch[k]] = ch[k + 1]
      BY <2>1, <3>1 DEF Linked
    <3> QED
      BY <1>1, <3>1, <3>2, <3>3
  <2> QED
    BY <2>2, <2>3
<1>6. Linked(fat2, IF first = 0 THEN next ELSE first, n + 1, longer)
  BY <1>1, <1>3, <1>4, <1>5 DEF Linked
<1> QED
  BY <1>1, <1>6

\* The new cluster becomes the last of the file's chain.
LEMMA LinkKeeps ==
  ASSUME SInv, WriteLink
  PROVE  SInv'
<1>1. /\ Shaped /\ OneDirtySector /\ Control /\ pc = "link" /\ pc' = "data"
      /\ fs.fs_type /\ fil.slot \in Slots /\ pc \in Writing /\ pc' \in Writing
      /\ fs.wflag /\ fil.next \in Clusters /\ fs.free_clst > 0 /\ fs.fat[fil.next] = EOC
      /\ pc \in Filling /\ pc' \in Filling
      /\ image_index' = image_index /\ length' = length /\ LinkCluster
  BY DEF SInv, Control, WriteLink, Writing, Filling
<1>2. /\ card' \in CardState /\ (card' = card \/ Written(fs))
      /\ fs' \in FsState /\ fs'.fs_type /\ Agrees(card', fs')
      /\ fs'.fat = IF fil.clust = 0 THEN fs.fat
                   ELSE [fs.fat EXCEPT ![fil.clust] = fil.next]
      /\ fs'.dir = fs.dir /\ fs'.free_clst = OneLess(fs) /\ fs'.wflag
      /\ fil' \in FileState /\ fil'.clust = fil.next /\ fil'.slot = fil.slot
      /\ fil'.size = fil.size /\ fil'.dirty = fil.dirty
      /\ fil'.sclust = IF fil.sclust = 0 THEN fil.next ELSE fil.sclust
      /\ data' = data /\ fr' = fr
  BY <1>1, LinkEffect
<1>3. /\ fs.fat \in FatTable /\ fil.clust \in {0} \cup Clusters
      /\ fil.sclust \in {0} \cup Clusters /\ fil.size \in Nat
  BY <1>1 DEF Shaped, FsState, FileState
<1>4. /\ \A c \in Clusters : c # fil.clust => fs'.fat[c] = fs.fat[c]
      /\ fil.clust # 0 => fs'.fat[fil.clust] = fil.next
  BY <1>2, <1>3 DEF FatTable
<1>5. WorkLen = fil.size /\ WorkLen' = fil.size + 1 /\ Shot' = Shot
  BY <1>1, <1>2 DEF WorkLen, Shot
<1>6. PICK ch \in [1 .. WorkLen -> Clusters] : Work(ch)
  BY <1>1 DEF SInv, Working
<1>7. 0 \notin Clusters /\ Unused \notin Clusters /\ EOC # Unused
  BY DEF Clusters, Unused, EOC
<1>8. fil.clust # 0 => fs.fat[fil.clust] = EOC /\ fil.clust \in Clusters
  BY <1>3, <1>5, <1>6 DEF Work, Linked
<1>9. Shaped' /\ OneDirtySector'
  BY <1>1, <1>2 DEF Shaped, OneDirtySector, Agrees
<1>10. Control'
  BY <1>1, <1>2 DEF Control, Closing
<1>11. Index' /\ Top' = Top
  BY <1>1, IndexKept DEF Top
<1>12. Counting'
  <2>1. /\ FreeIn(fs.fat) \subseteq FreeIn(card.fat)
        /\ Cardinality(FreeIn(fs.fat)) < fs.free_clst
        /\ Cardinality(FreeIn(card.fat)) <= card.free /\ card.free \in Nat
        /\ fs.free_clst \in Nat
    BY <1>1 DEF SInv, Counting, FreeNotUnderstated, Shaped, CardState, FsState
  <2>2. FreeIn(fs'.fat) = FreeIn(fs.fat)
    BY <1>1, <1>4, <1>7, <1>8 DEF FreeIn
  <2>3. Cardinality(FreeIn(fs'.fat)) <= OneLess(fs)
    BY <2>1, <2>2, FreeAreCounted DEF OneLess
  <2>4. FreeIn(fs'.fat) \subseteq FreeIn(card'.fat)
    BY <1>2, <2>1, <2>2 DEF Written
  <2>5. Cardinality(FreeIn(card'.fat)) <= card'.free
    <3>1. Cardinality(FreeIn(fs.fat)) <= card.free
      BY <2>1, FewerFree, FreeAreCounted
    <3> QED
      BY <1>2, <2>1, <3>1 DEF Written
  <2> QED
    BY <1>1, <1>2, <2>3, <2>4, <2>5 DEF Counting, FreeNotUnderstated
<1>13. Naming'
  BY <1>1, <1>2, NamesKept
<1>14. SameFiles /\ Filed'
  BY <1>1, <1>2, OthersKept
<1>15. OwnEntry'
  <2>1. pc' \in Writing \ {"window"} /\ pc \notin {"entry", "window"} /\ pc' # "extend"
    BY <1>1
  <2> QED
    BY <1>1, <1>2, <1>11, <2>1, EntryKept
<1>16. Apart'
  <2> SUFFICES ASSUME NEW s \in Files, NEW k \in Spans(s)
               PROVE  /\ fs'.fat[ChainOf(s)[k]] = card'.fat[ChainOf(s)[k]]
                      /\ fil'.clust # ChainOf(s)[k]
    BY <1>1, <1>14 DEF Apart, SameFiles, SameFile, Spans
  <2>1. /\ fs.fat[ChainOf(s)[k]] = card.fat[ChainOf(s)[k]] /\ fil.clust # ChainOf(s)[k]
        /\ fil.next # ChainOf(s)[k]
    BY <1>1 DEF SInv, Apart
  <2>2. card'.fat[ChainOf(s)[k]] = card.fat[ChainOf(s)[k]] /\ ChainOf(s)[k] \in Clusters
    BY <1>14 DEF SameFiles, SameFile
  <2> QED
    BY <1>2, <1>4, <2>1, <2>2
<1>17. Working'
  <2> DEFINE n == fil.size
  <2>1. PICK longer \in [1 .. n + 1 -> Clusters] :
           /\ Linked(fs'.fat, fil'.sclust, n + 1, longer) /\ longer[n + 1] = fil.next
           /\ \A j \in 1 .. n : longer[j] = ch[j] /\ ch[j] \in Clusters
           /\ n \in Nat /\ n + 1 \in Nat /\ n + 1 \in 1 .. n + 1
    <3>1. Linking(fs.fat, fs'.fat, fil.sclust, fil.clust, n, ch, fil.next)
      BY <1>1, <1>3, <1>4, <1>5, <1>6 DEF Work, Linking
    <3>2. fil'.sclust = IF fil.sclust = 0 THEN fil.next ELSE fil.sclust
      BY <1>2
    <3> HIDE DEF n
    <3>3. \E longer \in [1 .. n + 1 -> Clusters] :
            /\ Linked(fs'.fat, IF fil.sclust = 0 THEN fil.next ELSE fil.sclust, n + 1,
                      longer)
            /\ longer[n + 1] = fil.next
            /\ \A j \in 1 .. n : longer[j] = ch[j] /\ ch[j] \in Clusters
            /\ n \in Nat /\ n + 1 \in Nat /\ n + 1 \in 1 .. n + 1
      BY <3>1, ChainGrows
    <3> QED
      BY <3>2, <3>3
  <2>6. \A j \in 1 .. n + 1, s \in Files' : \A k \in Spans(s)' :
          longer[j] # ChainOf(s)'[k]
    <3> SUFFICES ASSUME NEW j \in 1 .. n + 1, NEW s \in Files, NEW k \in Spans(s)
                 PROVE  longer[j] # ChainOf(s)[k]
      BY <1>14 DEF SameFiles, SameFile, Spans
    <3>1. CASE j = n + 1
      BY <1>1, <2>1, <3>1 DEF SInv, Apart
    <3>2. CASE j # n + 1
      <4>1. j \in 1 .. n
        BY <2>1, <3>2
      <4> QED
        BY <1>5, <1>6, <2>1, <4>1 DEF Work
    <3> QED
      BY <3>1, <3>2
  <2>7. Unfinished' /\ ~fil.dirty
    BY <1>1, <1>2, <1>5 DEF SInv, Working, Unfinished
  <2>8. \A j \in 1 .. fil'.size : data'[longer[j]] = <<Shot', j>>
    <3>1. \A j \in 1 .. n : data[ch[j]] = <<Shot, j>>
      BY <1>6, <2>7, Zenon DEF Work
    <3> QED
      BY <1>2, <1>5, <2>1, <3>1
  <2>9. Work(longer)'
    <3>1. WorkLen' = n + 1 /\ ~(WorkLen' = 0) /\ longer[WorkLen'] = fil'.clust
      BY <1>2, <1>5, <2>1
    <3>2. Linked(fs'.fat, fil'.sclust, WorkLen', longer)
      BY <2>1, <3>1
    <3>3. \A j \in 1 .. WorkLen', s \in Files' : \A k \in Spans(s)' :
            longer[j] # ChainOf(s)'[k]
      BY <2>6, <3>1
    <3> QED
      BY <1>1, <2>8, <3>1, <3>2, <3>3 DEF Work
  <2> QED
    BY <1>1, <1>5, <2>1, <2>7, <2>9 DEF Working, Closing
<1> QED
  BY <1>9, <1>10, <1>11, <1>12, <1>13, <1>14, <1>15, <1>16, <1>17 DEF SInv
\* The next cluster's piece is on the card, or waits in the buffer.
PieceWritten ==
  /\ fil'.slot = fil.slot /\ fil'.clust = fil.clust /\ fil'.sclust = fil.sclust
  /\ fil'.size = fil.size + 1
  /\ fil'.dirty \/ (~fil'.dirty /\ data'[fil.clust] = <<Shot, fil.size + 1>>)
  /\ \A c \in Clusters : c # fil.clust => data'[c] = data[c]
  /\ card' = card /\ fs' = fs /\ length' = length /\ Shaped'

\* That is what f_write does with a piece.
LEMMA PieceEffect ==
  ASSUME SInv, WritePiece \/ WriteLastPiece
  PROVE  PieceWritten /\ (WritePiece => ~fil'.dirty)
<1>1. Shaped /\ pc = "data" /\ fil.clust \in Clusters /\ ~fil.dirty /\ length' = length
  BY DEF SInv, Control, Working, Unfinished, WritePiece, WriteLastPiece, Writing, Filling
<1>2. Piece(fil.size + 1) \in Nat \X Nat /\ fil \in FileState
      /\ data \in [Clusters -> Nat \X Nat]
  BY <1>1 DEF Piece, Shot, SInv, Index, Shaped, FileState
<1>3. WriteSectors(Piece(fil.size + 1)) \/ (BufferTail /\ ~WritePiece)
  BY DEF WritePiece, WriteLastPiece
<1>4. /\ data' \in [Clusters -> Nat \X Nat]
      /\ \A c \in Clusters : c # fil.clust => data'[c] = data[c]
      /\ fil' \in FileState /\ fr' \in Results /\ card' = card /\ fs' = fs
  BY <1>1, <1>2, <1>3, DataEffect
<1>5. Shaped'
  BY <1>1, <1>4 DEF Shaped
<1>6. /\ fil'.slot = fil.slot /\ fil'.clust = fil.clust /\ fil'.sclust = fil.sclust
      /\ fil'.size = fil.size + 1
  BY <1>2, <1>3 DEF WriteSectors, BufferTail, FileState
<1>7. CASE WriteSectors(Piece(fil.size + 1))
  <2>1. data'[fil.clust] = <<Shot, fil.size + 1>>
    BY <1>1, <1>2, <1>7 DEF WriteSectors, Piece
  <2>2. ~fil'.dirty
    BY <1>1, <1>2, <1>7 DEF WriteSectors, FileState
  <2> QED
    BY <1>1, <1>4, <1>5, <1>6, <2>1, <2>2 DEF PieceWritten
<1>8. CASE BufferTail /\ ~WritePiece
  <2>1. fil'.dirty
    BY <1>2, <1>8 DEF BufferTail, FileState
  <2> QED
    BY <1>1, <1>4, <1>5, <1>6, <1>8, <2>1 DEF PieceWritten
<1> QED
  BY <1>3, <1>7, <1>8

\* The chain now holds one piece more.
LEMMA PieceInChain ==
  ASSUME SInv, pc = "data", PieceWritten, pc' \in {"extend", "buffer"}
  PROVE  /\ SameFiles /\ Filed' /\ Apart'
         /\ \E ch \in [1 .. WorkLen' -> Clusters] : Work(ch)'
<1>1. /\ pc \in Writing /\ pc' \in Writing /\ Shaped /\ Shaped' /\ fil.clust \in Clusters
      /\ length' = length /\ Shot' = Shot /\ card' = card /\ card \in CardState
      /\ ~fil.dirty
  BY DEF SInv, Control, Shaped, Writing, Filling, Closing, PieceWritten, Shot, Working,
         Unfinished
<1>2. SameFiles /\ Filed'
  BY <1>1, OthersKept DEF PieceWritten
<1>3. Apart'
  BY <1>1, <1>2 DEF SInv, Apart, SameFiles, SameFile, PieceWritten, Spans
<1>4. WorkLen = fil.size + 1 /\ WorkLen' = WorkLen /\ fil.size \in Nat
  BY <1>1 DEF WorkLen, PieceWritten, Shaped, FileState
<1>5. PICK ch \in [1 .. WorkLen -> Clusters] : Work(ch)
  BY <1>1 DEF SInv, Working
<1> DEFINE n == WorkLen
<1>6. Linked(fs.fat, fil.sclust, n, ch) /\ ch[n] = fil.clust
  BY <1>4, <1>5 DEF Work
<1>7. \A j \in 1 .. n - 1 : ch[j] # fil.clust /\ ch[j] \in Clusters
  BY <1>4, <1>5, <1>6, LinkedUsed
<1>8. \A j \in 1 .. fil.size : data[ch[j]] = <<Shot, j>>
  BY <1>1, <1>5, Zenon DEF Work
<1>9. \A j \in 1 .. fil.size : data'[ch[j]] = <<Shot, j>>
  <2>1. \A j \in 1 .. fil.size : j \in 1 .. n - 1
    BY <1>4
  <2>2. \A c \in Clusters : c # fil.clust => data'[c] = data[c]
    BY DEF PieceWritten
  <2> QED
    BY <1>7, <1>8, <2>1, <2>2, Zenon
<1>10. ASSUME NEW j \in 1 .. fil'.size, j < fil'.size \/ ~fil'.dirty
       PROVE  data'[ch[j]] = <<Shot', j>>
  <2>1. fil'.size = n
    BY <1>4 DEF PieceWritten
  <2>2. CASE j < fil'.size
    <3>1. j \in 1 .. fil.size
      BY <1>4, <2>1, <2>2
    <3> QED
      BY <1>1, <1>9, <3>1
  <2>3. CASE j = n
    BY <1>1, <1>4, <1>6, <1>10, <2>1, <2>3 DEF PieceWritten
  <2> QED
    BY <1>4, <2>1, <2>2, <2>3
<1>11. \A j \in 1 .. WorkLen', s \in Files' : \A k \in Spans(s)' : ch[j] # ChainOf(s)'[k]
  BY <1>2, <1>4, <1>5 DEF Work, SameFiles, SameFile, Spans
<1>12. WorkLen' > 0 /\ ~(WorkLen' = 0) /\ Linked(fs'.fat, fil'.sclust, WorkLen', ch)
       /\ ch[WorkLen'] = fil'.clust
  BY <1>4, <1>6 DEF PieceWritten
<1>13. Work(ch)'
  BY <1>10, <1>11, <1>12 DEF Work
<1> QED
  BY <1>2, <1>3, <1>4, <1>5, <1>13

\* f_write goes on with the next cluster.
LEMMA PieceKeeps ==
  ASSUME SInv, WritePiece
  PROVE  SInv'
<1>1. /\ pc = "data" /\ pc' = "extend" /\ image_index' = image_index /\ length' = length
      /\ fil.size + 1 < length[Shot] /\ PieceWritten /\ ~fil'.dirty /\ Shaped'
      /\ card' = card /\ fs' = fs /\ Control /\ OneDirtySector /\ card \in CardState
      /\ fil'.slot = fil.slot /\ fil'.clust = fil.clust /\ fil'.size = fil.size + 1
  BY PieceEffect DEF WritePiece, PieceWritten, SInv, Shaped
<1>2. /\ pc \in Writing /\ pc' \in Writing /\ pc \in Filling /\ pc' \in Filling
      /\ pc' \notin Closing /\ fil.clust \in Clusters /\ fs.fs_type /\ fil.slot \in Slots
  BY <1>1 DEF Control, Writing, Filling, Closing
<1>3. OneDirtySector' /\ Control'
  BY <1>1, <1>2 DEF OneDirtySector, Control
<1>4. Index' /\ Top' = Top
  BY <1>1, <1>2, IndexKept DEF Top
<1>5. Counting'
  BY <1>1, <1>2, CountsKept
<1>6. Naming'
  BY <1>1, <1>2, NamesKept
<1>7. OwnEntry'
  <2>1. 0 \notin Clusters /\ pc' \in Writing \ {"window"} /\ pc \notin {"entry", "window"}
    BY <1>1, <1>2 DEF Clusters
  <2> QED
    BY <1>1, <1>2, <1>4, <2>1, EntryKept
<1>8. /\ Filed' /\ Apart' /\ \E ch \in [1 .. WorkLen' -> Clusters] : Work(ch)'
  BY <1>1, PieceInChain
<1>9. Working'
  BY <1>1, <1>2, <1>8 DEF Working, Unfinished, Shot
<1> QED
  BY <1>1, <1>3, <1>4, <1>5, <1>6, <1>7, <1>8, <1>9 DEF SInv

\* The last piece: the name is used up before the file is closed.
LEMMA LastPieceKeeps ==
  ASSUME SInv, WriteLastPiece
  PROVE  SInv'
<1>1. /\ pc = "data" /\ pc' = "buffer" /\ image_index' = image_index + 1
      /\ length' = length /\ card \in CardState
      /\ fil.size + 1 = length[Shot] /\ PieceWritten /\ Shaped'
      /\ card' = card /\ fs' = fs /\ Control /\ OneDirtySector
      /\ fil'.slot = fil.slot /\ fil'.clust = fil.clust /\ fil'.size = fil.size + 1
  BY PieceEffect DEF WriteLastPiece, PieceWritten, SInv, Shaped
<1>2. /\ pc \in Writing /\ pc' \in Writing /\ pc \in Filling /\ pc' \notin Filling
      /\ pc' \in Closing /\ fil.clust \in Clusters /\ fs.fs_type /\ fil.slot \in Slots
  BY <1>1 DEF Control, Writing, Filling, Closing
<1>3. OneDirtySector' /\ Control'
  BY <1>1, <1>2 DEF OneDirtySector, Control
<1>4. image_index \in Nat /\ Shot \in Nat /\ Shot' = Shot /\ Index
  BY <1>1 DEF SInv, Index, Shot
<1>5. Index' /\ Top' = Top /\ Top = image_index
  <2>1. Shot >= 1 /\ image_index <= IndexLimit + Shot - 1
    BY <1>2, <1>4 DEF Index
  <2>2. image_index' \in Nat /\ image_index' >= 1 /\ image_index' <= IndexLimit + Shot'
    BY <1>1, <1>4, <2>1, StoreAssumption
  <2>3. pc' \notin Filling \cup {"open", "search", "nofile"}
    BY <1>1, <1>2
  <2>4. Index'
    BY <1>1, <1>4, <2>1, <2>2, <2>3 DEF Index
  <2> QED
    BY <1>1, <1>2, <1>4, <2>4 DEF Top
<1>6. Counting'
  BY <1>1, <1>2, CountsKept
<1>7. OwnEntry' /\ card'.dir[fil.slot].name = Top
  <2>1. pc' \in Writing \ {"window"} /\ pc \notin {"entry", "window"}
    BY <1>1, <1>2
  <2> QED
    BY <1>1, <1>2, <1>5, <2>1, EntryKept
<1>8. Naming'
  <2>1. image_index \in Used(card.dir)
    BY <1>1, <1>2, <1>4, <1>5, <1>7 DEF Used, NoEntry
  <2>2. 0 .. image_index - 1 \subseteq Used(card.dir)
    BY DEF SInv, Naming
  <2>3. 0 .. image_index' - 1 \subseteq Used(card.dir) /\ image_index' \in Nat
    BY <1>1, <1>4, <2>1, <2>2
  <2> QED
    BY <1>1, <2>3, TablesStay
<1>9. /\ Filed' /\ Apart' /\ \E ch \in [1 .. WorkLen' -> Clusters] : Work(ch)'
  BY <1>1, PieceInChain
<1>10. Working'
  BY <1>1, <1>2, <1>4, <1>9 DEF Working, Unfinished
<1> QED
  BY <1>1, <1>3, <1>5, <1>6, <1>7, <1>8, <1>9, <1>10 DEF SInv
(***************************************************************************)
(* Closing a file.                                                         *)
(***************************************************************************)

\* f_sync writes the buffered tail.
LEMMA BufferKeeps ==
  ASSUME SInv, CloseBuffer
  PROVE  SInv'
<1>1. /\ pc = "buffer" /\ pc' = "entry" /\ image_index' = image_index /\ length' = length
      /\ Shaped /\ Control /\ OneDirtySector /\ SyncBuffer(Piece(fil.size))
      /\ Shot' = Shot
  BY DEF SInv, CloseBuffer, Shot
<1>2. /\ pc \in Writing /\ pc' \in Writing /\ pc \in Closing /\ pc' \in Closing
      /\ pc' \notin Filling
      /\ fil.clust \in Clusters /\ fs.fs_type /\ fil.slot \in Slots
      /\ fil \in FileState /\ fil.size \in Nat /\ data \in [Clusters -> Nat \X Nat]
  BY <1>1 DEF Control, Writing, Filling, Closing, Shaped, FileState
<1>3. Piece(fil.size) \in Nat \X Nat
  BY <1>2 DEF Piece, Shot, SInv, Index
<1>4. /\ data' \in [Clusters -> Nat \X Nat]
      /\ \A c \in Clusters : c # fil.clust => data'[c] = data[c]
      /\ fil' \in FileState /\ fr' \in Results /\ card' = card /\ fs' = fs
  BY <1>1, <1>2, <1>3, DataEffect
<1>5. /\ fil'.slot = fil.slot /\ fil'.clust = fil.clust /\ fil'.sclust = fil.sclust
      /\ fil'.size = fil.size
  BY <1>1, <1>2 DEF SyncBuffer, FileState
<1>6. ~fil'.dirty
  BY <1>1, <1>2 DEF SyncBuffer, FileState
<1>7. \/ fil.dirty /\ data'[fil.clust] = <<Shot, fil.size>>
      \/ ~fil.dirty /\ data' = data
  BY <1>1, <1>2 DEF SyncBuffer, Piece
<1>8. Shaped' /\ OneDirtySector' /\ Control'
  BY <1>1, <1>2, <1>4, <1>5 DEF Shaped, OneDirtySector, Control
<1>9. Index' /\ Top' = Top
  BY <1>1, <1>2, IndexKept DEF Top, Filling, Closing
<1>10. card \in CardState /\ pc # "window" /\ pc' # "window"
  BY <1>1 DEF Shaped
<1>11. Counting'
  BY <1>1, <1>2, <1>4, <1>10, CountsKept
<1>12. Naming'
  BY <1>1, <1>2, <1>4, <1>10, NamesKept
<1>13. SameFiles /\ Filed'
  BY <1>1, <1>2, <1>4, <1>10, OthersKept
<1>14. OwnEntry'
  <2>1. pc' \in Writing \ {"window"} /\ pc \notin {"entry", "window"} /\ pc' # "extend"
        /\ pc # "extend"
    BY <1>1, <1>2
  <2> QED
    BY <1>1, <1>2, <1>4, <1>5, <1>9, <1>10, <2>1, EntryKept
<1>15. Apart'
  BY <1>1, <1>2, <1>4, <1>5, <1>13 DEF SInv, Apart, SameFiles, SameFile, Spans
<1>16. Working'
  <2>1. WorkLen = fil.size /\ WorkLen' = fil.size
    BY <1>1, <1>5 DEF WorkLen
  <2>2. PICK ch \in [1 .. WorkLen -> Clusters] : Work(ch)
    BY <1>2 DEF SInv, Working
  <2>3. fil.size > 0
    <3>1. fil.size = length[Shot] /\ Shot \in 1 .. Len(length)
      BY <1>2 DEF SInv, Working, Index, Shot
    <3> QED
      BY <3>1, StoreAssumption DEF SInv, Index
  <2>4. Linked(fs.fat, fil.sclust, fil.size, ch) /\ ch[fil.size] = fil.clust
    BY <2>1, <2>2, <2>3 DEF Work
  <2>5. \A j \in 1 .. fil.size - 1 : ch[j] # fil.clust /\ ch[j] \in Clusters
    <3>1. \A j \in 1 .. fil.size - 1 : ch[j] # ch[fil.size]
      BY <2>4, LinkedUsed
    <3>2. \A j \in 1 .. fil.size - 1 : ch[j] \in Clusters
      BY <1>2, <2>1, <2>2
    <3> QED
      BY <2>4, <3>1, <3>2
  <2>6. \A j \in 1 .. fil.size : j < fil.size => data[ch[j]] = <<Shot, j>>
    BY <2>2, Zenon DEF Work
  <2>7. ~fil.dirty => \A j \in 1 .. fil.size : data[ch[j]] = <<Shot, j>>
    BY <2>2, Zenon DEF Work
  <2>8. ASSUME NEW j \in 1 .. fil.size PROVE data'[ch[j]] = <<Shot, j>>
    <3>1. CASE ~fil.dirty /\ data' = data
      BY <2>7, <3>1
    <3>2. CASE data'[fil.clust] = <<Shot, fil.size>> /\ j = fil.size
      BY <2>4, <3>2
    <3>3. CASE j # fil.size
      <4>1. j \in 1 .. fil.size - 1 /\ j < fil.size
        BY <1>2, <3>3
      <4> QED
        BY <1>4, <2>5, <2>6, <4>1
    <3> QED
      BY <1>7, <3>1, <3>2, <3>3
  <2>9. \A j \in 1 .. WorkLen', s \in Files' : \A k \in Spans(s)' : ch[j] # ChainOf(s)'[k]
    BY <1>13, <2>1, <2>2 DEF Work, SameFiles, SameFile, Spans
  <2>10. ~(WorkLen' = 0) /\ Linked(fs'.fat, fil'.sclust, WorkLen', ch)
         /\ ch[WorkLen'] = fil'.clust
    BY <1>4, <1>5, <2>1, <2>3, <2>4
  <2>11. \A j \in 1 .. fil'.size : data'[ch[j]] = <<Shot', j>>
    BY <1>1, <1>5, <2>8
  <2>12. Work(ch)'
    BY <1>1, <2>9, <2>10, <2>11 DEF Work
  <2>13. fil'.size = length'[Shot'] /\ Unfinished'
    BY <1>1, <1>2, <1>5 DEF SInv, Working, Unfinished
  <2> QED
    BY <1>6, <2>1, <2>2, <2>12, <2>13 DEF Working
<1> QED
  BY <1>8, <1>9, <1>11, <1>12, <1>13, <1>14, <1>15, <1>16 DEF SInv

\* The entry is completed in memory.
LEMMA EntryKeeps ==
  ASSUME SInv, CloseEntry
  PROVE  SInv'
<1>1. /\ pc = "entry" /\ pc' = "window" /\ image_index' = image_index /\ length' = length
      /\ Shaped /\ Control /\ OneDirtySector /\ SyncEntry /\ Shot' = Shot
  BY DEF SInv, CloseEntry, Shot
<1>2. /\ pc \in Writing /\ pc' \in Writing /\ pc \in Closing /\ pc' \in Closing
      /\ pc' \notin Filling
      /\ fil.clust \in Clusters /\ fs.fs_type /\ fil.slot \in Slots
  BY <1>1 DEF Control, Writing, Filling, Closing
<1>3. /\ card' \in CardState
      /\ Written(fs) \/ (card' = card /\ fs.winsect = DirSect(fil.slot))
      /\ card'.fat = fs.fat
      /\ fs' \in FsState /\ fs'.fs_type /\ Agrees(card', fs')
      /\ fs'.winsect = DirSect(fil.slot)
      /\ fs'.fat = fs.fat /\ fs'.free_clst = fs.free_clst
      /\ fs'.dir[fil.slot].name = fs.dir[fil.slot].name
      /\ fs'.dir[fil.slot].sclust = fil.sclust
      /\ fs'.dir[fil.slot].size = fil.size
      /\ \A s \in Slots \ {fil.slot} : fs'.dir[s] = fs.dir[s]
      /\ data' = data /\ fil' = fil /\ fr' = fr
  BY <1>1, <1>2, SyncEntryEffect
<1>4. card' = card \/ Written(fs)
  BY <1>3
<1>5. Shaped' /\ OneDirtySector' /\ Control'
  BY <1>1, <1>2, <1>3 DEF Shaped, OneDirtySector, Agrees, Control
<1>6. Index' /\ Top' = Top
  BY <1>1, <1>2, IndexKept DEF Top, Filling, Closing
<1>7. Counting'
  BY <1>1, <1>2, <1>3, <1>4, CountsKept
<1>8. Naming'
  BY <1>1, <1>2, <1>3, <1>4, NamesKept
<1>9. SameFiles /\ Filed'
  BY <1>1, <1>2, <1>3, <1>4, OthersKept
<1>10. OwnEntry'
  <2>1. /\ fs.dir[fil.slot].name = Top /\ card.dir[fil.slot].name = Top
        /\ card.dir[fil.slot].size = 0 /\ fs.dir[fil.slot].size = 0
        /\ \A s \in Slots \ {fil.slot} : /\ fs.dir[s] = card.dir[s]
                                         /\ card.dir[s].name < Top
    BY <1>1, <1>2 DEF SInv, OwnEntry
  <2>2. /\ card'.dir[fil.slot].name = Top /\ card'.dir[fil.slot].size = 0
        /\ \A s \in Slots \ {fil.slot} : card'.dir[s] = card.dir[s]
    BY <1>4, <2>1 DEF Written
  <2> QED
    BY <1>1, <1>3, <1>6, <2>1, <2>2 DEF OwnEntry
<1>11. Apart'
  BY <1>1, <1>2, <1>3, <1>9 DEF SInv, Apart, SameFiles, SameFile, Spans
<1>12. Working'
  <2>1. WorkLen' = WorkLen
    BY <1>1, <1>3 DEF WorkLen
  <2>2. PICK ch \in [1 .. WorkLen -> Clusters] : Work(ch)
    BY <1>2 DEF SInv, Working
  <2>3. \A j \in 1 .. WorkLen', s \in Files' : \A k \in Spans(s)' : ch[j] # ChainOf(s)'[k]
    BY <1>9, <2>1, <2>2 DEF Work, SameFiles, SameFile, Spans
  <2>4. Work(ch)'
    BY <1>1, <1>3, <2>1, <2>2, <2>3 DEF Work
  <2> QED
    BY <1>1, <1>2, <1>3, <2>1, <2>4 DEF SInv, Working, Unfinished
<1> QED
  BY <1>5, <1>6, <1>7, <1>8, <1>9, <1>10, <1>11, <1>12 DEF SInv
\* When the window with the completed entry is on the card, the image is a
\* file there, whole, beside the files that were there before.
LEMMA ImageStored ==
  ASSUME SInv, pc = "window", card' \in CardState, Written(fs), data' = data,
         length' = length
  PROVE  /\ Files' = Files \cup {fil.slot} /\ fil.slot \in Slots \ Files
         /\ \A s \in Files : SameFile(s)
         /\ \A t \in {fil.slot} :
              /\ Linked(card'.fat, card'.dir[t].sclust, card'.dir[t].size, ChainOf(t)')
              /\ \A s \in Files : \A j \in Spans(t)', k \in Spans(s) :
                   ChainOf(t)'[j] # ChainOf(s)[k]
              /\ Holds(t, Shot)' /\ card'.dir[t].name = Top
<1> DEFINE n == fil.size
<1>1. /\ pc \in Writing /\ Shaped /\ Control /\ fs.fs_type /\ fil.slot \in Slots
      /\ n \in Nat /\ Shot' = Shot /\ ~fil.dirty /\ fil.size = length[Shot]
      /\ Shot \in 1 .. Len(length) /\ length \in Seq(1 .. MaxLength)
  BY DEF SInv, Control, Writing, Closing, Shaped, FileState, Shot, Working, Index
<1>2. n > 0
  BY <1>1, StoreAssumption
<1>3. /\ \A s \in Slots \ {fil.slot} : fs.dir[s] = card.dir[s]
      /\ card.dir[fil.slot].size = 0 /\ fs.dir[fil.slot].name = Top
      /\ fs.dir[fil.slot].sclust = fil.sclust /\ fs.dir[fil.slot].size = n
  BY <1>1 DEF SInv, OwnEntry
<1>4. Files' = Files \cup {fil.slot} /\ fil.slot \in Slots \ Files
  BY <1>1, <1>2, <1>3 DEF Files, Written
<1>5. \A s \in Files : SameFile(s)
  <2> SUFFICES ASSUME NEW s \in Files PROVE SameFile(s)
    OBVIOUS
  <2>1. card'.dir[s] = card.dir[s]
    BY <1>3, <1>4 DEF Files, Written
  <2>2. \A k \in Spans(s) : card'.fat[ChainOf(s)[k]] = card.fat[ChainOf(s)[k]]
    BY <1>1 DEF SInv, Apart, Written
  <2> QED
    BY <2>1, <2>2, FileStays DEF SInv
<1>6. PICK ch \in [1 .. WorkLen -> Clusters] : Work(ch)
  BY <1>1 DEF SInv, Working
<1>7. WorkLen = n
  BY DEF WorkLen
<1>8. Linked(fs.fat, fil.sclust, n, ch)
  BY <1>2, <1>6, <1>7 DEF Work
<1>9. ASSUME NEW t \in {fil.slot}
      PROVE  /\ Linked(card'.fat, card'.dir[t].sclust, card'.dir[t].size, ChainOf(t)')
             /\ \A s \in Files : \A j \in Spans(t)', k \in Spans(s) :
                  ChainOf(t)'[j] # ChainOf(s)[k]
             /\ Holds(t, Shot)' /\ card'.dir[t].name = Top
  <2>1. /\ card'.dir[t].sclust = fil.sclust /\ card'.dir[t].size = n
        /\ card'.fat = fs.fat /\ card'.dir[t].name = Top
    BY <1>3 DEF Written
  <2>2. ChainFrom(fs.fat, fil.sclust, n) = ch
    BY <1>8, ChainIs
  <2>3. ChainOf(t)' = ch
    BY <2>1, <2>2 DEF ChainOf
  <2>4. Spans(t)' = 1 .. n
    BY <2>1 DEF Spans
  <2>5. \A j \in 1 .. n : data[ch[j]] = <<Shot, j>>
    BY <1>1, <1>6, Zenon DEF Work
  <2>6. Holds(t, Shot)'
    <3>1. Shot' \in 1 .. Shot' /\ card'.dir[t].size = length'[Shot']
      BY <1>1, <2>1
    <3>2. \A k \in Spans(t)' : data'[ChainOf(t)'[k]] = <<Shot', k>>
      BY <1>1, <2>3, <2>4, <2>5
    <3> QED
      BY <3>1, <3>2 DEF Holds
  <2>7. \A s \in Files : \A j \in 1 .. n, k \in Spans(s) : ch[j] # ChainOf(s)[k]
    BY <1>6, <1>7 DEF Work
  <2> QED
    BY <1>8, <2>1, <2>3, <2>4, <2>6, <2>7
<1> QED
  BY <1>4, <1>5, <1>9

\* The card with the new file is in order.
LEMMA StoredFiled ==
  ASSUME SInv, pc = "window", card' \in CardState, Written(fs), data' = data,
         length' = length, pc' \notin Writing \cup {"open", "search"}
  PROVE  Filed'
<1>1. PICK t \in Slots :
        /\ Files' = Files \cup {t} /\ t \notin Files
        /\ \A s \in Files : SameFile(s)
        /\ Linked(card'.fat, card'.dir[t].sclust, card'.dir[t].size, ChainOf(t)')
        /\ \A s \in Files : \A j \in Spans(t)', k \in Spans(s) :
             ChainOf(t)'[j] # ChainOf(s)[k]
        /\ Holds(t, Shot)'
  BY ImageStored
<1>2. \A s \in Files : Spans(s)' = Spans(s)
  BY <1>1 DEF SameFile, Spans
<1>3. (\A s \in Files :
         Linked(card.fat, card.dir[s].sclust, card.dir[s].size, ChainOf(s)))'
  BY <1>1 DEF SameFile
<1>4. (\A s, u \in Files : \A j \in Spans(s), k \in Spans(u) :
         ChainOf(s)[j] = ChainOf(u)[k] => s = u)'
  <2> SUFFICES ASSUME NEW s \in Files', NEW u \in Files', NEW j \in Spans(s)',
                      NEW k \in Spans(u)', ChainOf(s)'[j] = ChainOf(u)'[k], s # u
               PROVE  FALSE
    OBVIOUS
  <2>1. CASE s = t
    BY <1>1, <1>2, <2>1 DEF SameFile
  <2>2. CASE u = t
    BY <1>1, <1>2, <2>2 DEF SameFile
  <2>3. CASE s \in Files /\ u \in Files
    BY <1>1, <1>2, <2>3 DEF SameFile, SInv, Filed
  <2> QED
    BY <1>1, <2>1, <2>2, <2>3
<1>5. ASSUME NEW s \in Files' PROVE \E i \in 1 .. Shot' : Holds(s, i)'
  <2>1. Shot' = Shot
    BY DEF Shot
  <2>2. CASE s = t
    BY <1>1, <2>2 DEF Holds
  <2>3. CASE s \in Files
    <3>1. PICK i \in 1 .. Shot : Holds(s, i)
      BY <2>3 DEF SInv, Filed
    <3>2. card'.dir[s] = card.dir[s] /\ ChainOf(s)' = ChainOf(s) /\ Spans(s)' = Spans(s)
      BY <1>1, <1>2, <2>3 DEF SameFile
    <3>3. Holds(s, i)'
      BY <2>1, <3>1, <3>2 DEF Holds
    <3> QED
      BY <2>1, <3>3
  <2> QED
    BY <1>1, <2>2, <2>3
<1> QED
  BY <1>3, <1>4, <1>5 DEF Filed

\* A write of the window ends the write, or leaves it on the way: what is on
\* the card stays in order.
LEMMA WindowEnds ==
  ASSUME SInv, pc \in Writing, Kept(fs), data' = data, length' = length,
         image_index' = image_index, fil' \in FileState, fr' \in Results,
         \/ pc' = "idle"
         \/ pc = "window" /\ pc' = "fsinfo" /\ ~fs'.wflag /\ fil' = fil
  PROVE  SInv'
<1>1. /\ card' \in CardState /\ (card' = card \/ Written(fs))
      /\ fs' \in FsState /\ fs'.fs_type = fs.fs_type /\ Agrees(card', fs')
      /\ fs'.fat = fs.fat /\ fs'.free_clst = fs.free_clst
  BY DEF Kept
<1>2. /\ Shaped /\ Control /\ fs.fs_type /\ fil.slot \in Slots
      /\ pc' \notin Writing \cup {"open", "search", "nofile"} /\ pc' \notin {"link", "search"}
  BY DEF SInv, Control, Writing, Filling, Closing
<1>3. fs'.fs_type
  BY <1>1, <1>2
<1>4. Shaped' /\ OneDirtySector'
  BY <1>1, <1>2 DEF Shaped, OneDirtySector, Agrees
<1>5. Control'
  BY <1>2, <1>3 DEF Control, Writing
<1>6. Index'
  BY IndexKept
<1>7. Counting'
  BY <1>1, <1>2, CountsKept
<1>8. Naming'
  BY <1>1, <1>2, NamesKept
<1>9. Filed'
  <2>1. CASE pc # "window"
    BY <1>1, <2>1, OthersKept
  <2>2. CASE pc = "window" /\ Written(fs)
    BY <1>1, <1>2, <2>2, StoredFiled
  <2>3. CASE card' = card
    <3>1. SameFiles
      BY <1>1, <2>3, TablesStay
    <3> QED
      BY <1>2, <3>1, FiledStays
  <2> QED
    BY <1>1, <2>1, <2>2, <2>3
<1> QED
  BY <1>2, <1>4, <1>5, <1>6, <1>7, <1>8, <1>9, NotWriting DEF SInv

\* The window with the entry goes to the card.
LEMMA WindowKeeps ==
  ASSUME SInv, CloseWindow
  PROVE  SInv'
<1>1. /\ pc = "window" /\ pc' = "fsinfo" /\ image_index' = image_index
      /\ length' = length /\ pc \in Writing /\ Shaped /\ OneDirtySector /\ fs.fs_type
  BY DEF SInv, CloseWindow, Control, Writing, Closing
<1>2. Kept(fs) /\ ~fs'.wflag /\ data' = data /\ fil' = fil /\ fr' = fr
  BY <1>1, SyncFsEffect DEF CloseWindow
<1> QED
  BY <1>1, <1>2, WindowEnds DEF Shaped

\* A write or a close that fails.
LEMMA FailureKeeps ==
  ASSUME SInv, WriteFailed \/ CloseFailed
  PROVE  SInv'
<1>1. /\ pc \in Writing /\ pc' = "idle" /\ image_index' = image_index
      /\ length' = length /\ Shaped /\ OneDirtySector /\ Control
  BY DEF SInv, WriteFailed, CloseFailed, Writing, Filling, Closing
<1>2. fs.fs_type /\ NoFile \in FileState
  BY <1>1, UnmountedShape DEF Control
<1>3. CASE DiskFull \/ WriteFatFails \/ SyncFails
  BY <1>1, <1>2, <1>3, FailureEffect, WindowEnds
<1>4. CASE pc \in {"data", "buffer"} /\ WriteDataFails
  <2>1. fil.clust \in Clusters /\ <<0, 0>> \in Nat \X Nat
    BY <1>1, <1>4 DEF Control, Closing
  <2>2. /\ data' \in [Clusters -> Nat \X Nat]
        /\ \A c \in Clusters : c # fil.clust => data'[c] = data[c]
        /\ fil' \in FileState /\ fr' \in Results /\ card' = card /\ fs' = fs
    BY <1>1, <1>4, <2>1, DataEffect
  <2>3. card \in CardState /\ pc # "window" /\ pc' \notin {"link", "search"}
    BY <1>1, <1>4 DEF Shaped
  <2>4. Shaped' /\ OneDirtySector' /\ Control'
    BY <1>1, <1>2, <2>2 DEF Shaped, OneDirtySector, Control, Writing, Filling, Closing
  <2>5. Index' /\ Counting' /\ Naming'
    BY <1>1, <1>2, <2>2, <2>3, IndexKept, CountsKept, NamesKept
  <2>6. Filed'
    BY <1>1, <2>2, <2>3, OthersKept
  <2> QED
    BY <1>1, <2>4, <2>5, <2>6, NotWriting DEF SInv, Writing, Filling, Closing
<1> QED
  BY <1>3, <1>4 DEF WriteFailed, CloseFailed

\* FSInfo takes the free count.
LEMMA InfoKeeps ==
  ASSUME SInv, CloseInfo
  PROVE  SInv'
<1>1. /\ pc = "fsinfo" /\ pc' = "idle" /\ image_index' = image_index
      /\ length' = length /\ Shaped /\ OneDirtySector /\ fs.fs_type /\ ~fs.wflag
      /\ SyncFsInfo
  BY DEF SInv, CloseInfo, Control
<1>2. /\ card' \in CardState /\ card'.fat = card.fat /\ card'.dir = card.dir
      /\ card.fat = fs.fat /\ card.dir = fs.dir
      /\ card'.free \in {card.free, fs.free_clst}
      /\ fs' \in FsState /\ fs'.fat = fs.fat /\ fs'.dir = fs.dir
      /\ fs'.free_clst = fs.free_clst /\ fs'.fs_type /\ ~fs'.wflag
      /\ data' = data /\ fil' = NoFile /\ fr' \in Results
  BY <1>1, SyncFsInfoEffect
<1>3. Shaped' /\ OneDirtySector'
  BY <1>1, <1>2, UnmountedShape DEF Shaped, OneDirtySector
<1>4. Control' /\ Index'
  BY <1>1, <1>2, IndexKept DEF Control, Writing, Filling, Closing
<1>5. Counting'
  BY <1>1, <1>2 DEF SInv, Counting, FreeNotUnderstated
<1>6. SameFiles /\ Naming'
  BY <1>1, <1>2, TablesStay DEF SInv, Naming, Index
<1>7. Filed'
  BY <1>1, <1>2, <1>6, FiledStays DEF Writing, Filling, Closing
<1> QED
  BY <1>1, <1>3, <1>4, <1>5, <1>6, <1>7, NotWriting DEF SInv, Writing, Filling, Closing

\* Every step keeps the invariant.
LEMMA SInductive ==
  ASSUME SInv, [Next]_vars
  PROVE  SInv'
<1>1. CASE UNCHANGED vars
  <2>1. /\ card' = card /\ data' = data /\ fs' = fs /\ fil' = fil /\ fr' = fr
        /\ image_index' = image_index /\ length' = length /\ pc' = pc
    BY <1>1 DEF vars
  <2>2. Shaped' /\ OneDirtySector' /\ Control' /\ Index'
    BY <2>1 DEF SInv, Shaped, OneDirtySector, Control, Index, Shot
  <2>3. Counting' /\ Naming' /\ OwnEntry'
    BY <2>1 DEF SInv, Counting, FreeNotUnderstated, Naming, NoGaps, OwnEntry, Top
  <2>4. Shot' = Shot /\ Files' = Files /\ WorkLen' = WorkLen /\ Unfinished' = Unfinished
    BY <2>1 DEF Shot, Files, WorkLen, Unfinished
  <2>5. \A s : ChainOf(s)' = ChainOf(s) /\ Spans(s)' = Spans(s)
    BY <2>1 DEF ChainOf, Spans
  <2>6. \A s, i : Holds(s, i)' = Holds(s, i)
    BY <2>1, <2>4, <2>5 DEF Holds
  <2>7. Filed' /\ Apart'
    BY <2>1, <2>4, <2>5, <2>6 DEF SInv, Filed, Apart
  <2>8. \A ch : Work(ch)' = Work(ch)
    BY <2>1, <2>4, <2>5 DEF Work
  <2>9. Working'
    BY <2>1, <2>4, <2>8 DEF SInv, Working
  <2> QED
    BY <2>2, <2>3, <2>7, <2>9 DEF SInv
<1>2. CASE Next
  BY <1>2, TakeKeeps, ResetKeeps, OpenKeeps, InvalidKeeps, ExtendKeeps, LinkKeeps,
     PieceKeeps, LastPieceKeeps, FailureKeeps, BufferKeeps, EntryKeeps, WindowKeeps,
     InfoKeeps DEF Next, write_jpeg
<1> QED
  BY <1>1, <1>2

(***************************************************************************)
(* Theorems.                                                               *)
(***************************************************************************)

\* The invariant holds in every reachable state of the image store.
THEOREM Invariance == Spec => []SInv
<1>1. Init => SInv
  BY InitSInv
<1>2. SInv /\ [Next]_vars => SInv'
  BY SInductive
<1> QED
  BY <1>1, <1>2, PTL DEF Spec

\* Every variable of write_jpeg and of FatFs has its type (main.c 256-290).
THEOREM TypeCorrect == Spec => []TypeOK
<1>1. SInv => TypeOK
  <2> SUFFICES ASSUME SInv PROVE TypeOK
    OBVIOUS
  <2>1. FatTypeOK
    BY DEF SInv, Shaped, FatTypeOK, CardState, FsState, FileState, Results, FatTable,
           DirTable, Entry, Sectors
  <2>2. image_index \in Names
    BY StoreAssumption DEF SInv, Index, Names, Shot
  <2> QED
    BY <2>1, <2>2 DEF SInv, Index, Control, Writing, Filling, Closing, TypeOK
<1> QED
  BY <1>1, Invariance, PTL

\* Memory and card differ in one dirty sector at most (ff.c 892-913).
THEOREM WindowIsAll == Spec => []OneDirtySector
<1>1. SInv => OneDirtySector
  BY DEF SInv
<1> QED
  BY <1>1, Invariance, PTL

\* The free count never falls below what the FAT holds (ff.c 1432-1434).
THEOREM FreeCountHolds == Spec => []FreeNotUnderstated
<1>1. SInv => FreeNotUnderstated
  BY DEF SInv, Counting
<1> QED
  BY <1>1, Invariance, PTL

\* The names on the card have no gap (main.c 260-265).
THEOREM NamesHaveNoGap == Spec => []NoGaps
<1>1. SInv => NoGaps
  BY DEF SInv, Naming
<1> QED
  BY <1>1, Invariance, PTL

\* The chains on the card are whole and disjoint at every moment, whatever
\* fails and whenever the power is cut (ff.c 1347-1441, 3774-3843).
THEOREM CardIsWhole == Spec => []ChainsWhole
<1>1. SInv => ChainsWhole
  <2> SUFFICES ASSUME SInv PROVE ChainsWhole
    OBVIOUS
  <2>1. ASSUME NEW s \in Files
        PROVE  /\ {ChainOf(s)[k] : k \in 1 .. card.dir[s].size} \subseteq Clusters
               /\ card.fat[ChainOf(s)[card.dir[s].size]] = EOC
    <3>1. Linked(card.fat, card.dir[s].sclust, card.dir[s].size, ChainOf(s))
      BY DEF SInv, Filed
    <3> QED
      BY <3>1, LinkedUsed DEF Linked
  <2>2. ASSUME NEW s \in Files, NEW t \in Files \ {s}
        PROVE  {ChainOf(s)[k] : k \in 1 .. card.dir[s].size}
               \cap {ChainOf(t)[k] : k \in 1 .. card.dir[t].size} = {}
    BY DEF SInv, Filed, Spans
  <2> QED
    BY <2>1, <2>2 DEF ChainsWhole, Files, ChainOf
<1> QED
  BY <1>1, Invariance, PTL
(***************************************************************************)
(* The card implements the album.                                          *)
(***************************************************************************)

\* A reader finds under a name the image that the file of that name holds.
Reading == \A n \in Names :
  /\ (\A s \in Files : card.dir[s].name # n) => StoredAs(n) = 0
  /\ \A s \in Files : \A i \in 1 .. Shot :
       card.dir[s].name = n /\ Holds(s, i) => StoredAs(n) = i

\* That is what StoredAs computes.
LEMMA ReadingHolds == SInv => Reading
<1> SUFFICES ASSUME SInv, NEW n \in Names
             PROVE  /\ (\A s \in Files : card.dir[s].name # n) => StoredAs(n) = 0
                    /\ \A s \in Files : \A i \in 1 .. Shot :
                         card.dir[s].name = n /\ Holds(s, i) => StoredAs(n) = i
  BY DEF Reading
<1> DEFINE entries == {card.dir[s] : s \in SlotsOf(card.dir, n)}
           found(e) == ChainFrom(card.fat, e.sclust, e.size)
           holds(e, i) == /\ e.size = length[i]
                          /\ \A k \in 1 .. e.size : /\ found(e)[k] \in Clusters
                                                    /\ data[found(e)[k]] = <<i, k>>
           files == {e \in entries : e.size > 0}
           Is(i) == \E e \in files : holds(e, i)
<1>1. StoredAs(n) = IF files = {} THEN 0
                    ELSE IF \E i \in 1 .. Shot : Is(i)
                    THEN CHOOSE i \in 1 .. Shot : Is(i)
                    ELSE Broken
  BY DEF StoredAs
<1>2. files = {card.dir[s] : s \in {t \in Files : card.dir[t].name = n}}
  BY DEF SlotsOf, Files
<1>3. ASSUME \A s \in Files : card.dir[s].name # n PROVE StoredAs(n) = 0
  <2>1. files = {}
    BY <1>2, <1>3
  <2> QED
    BY <1>1, <2>1
<1>4. ASSUME NEW s \in Files, NEW i \in 1 .. Shot, card.dir[s].name = n, Holds(s, i)
      PROVE  StoredAs(n) = i
  <2>1. files = {card.dir[s]}
    <3>1. NoEntry.name \notin Names
      BY DEF NoEntry, Names
    <3>2. \A t \in Files : card.dir[t].name = n => t = s
      BY <1>4, <3>1 DEF SInv, Naming, Files
    <3> QED
      BY <1>2, <1>4, <3>2
  <2>2. 1 \in 1 .. card.dir[s].size
    BY DEF SInv, Shaped, CardState, DirTable, Entry, Files
  <2>3. \A k \in 1 .. card.dir[s].size : ChainOf(s)[k] \in Clusters
    <3>1. Linked(card.fat, card.dir[s].sclust, card.dir[s].size, ChainOf(s))
      BY DEF SInv, Filed
    <3> QED
      BY <3>1 DEF Linked
  <2>4. found(card.dir[s]) = ChainOf(s)
    BY DEF ChainOf
  <2>5. holds(card.dir[s], i)
    BY <1>4, <2>3, <2>4 DEF Holds, Spans
  <2>6. ASSUME NEW j, holds(card.dir[s], j) PROVE j = i
    <3>1. data[ChainOf(s)[1]] = <<j, 1>> /\ data[ChainOf(s)[1]] = <<i, 1>>
      BY <1>4, <2>2, <2>4, <2>5, <2>6
    <3>2. <<j, 1>> = <<i, 1>>
      BY <3>1
    <3> QED
      BY <3>2
  <2> HIDE DEF holds
  <2>7. Is(i) /\ \A j : Is(j) => j = i
    BY <2>1, <2>5, <2>6
  <2> HIDE DEF Is, files
  <2>8. (CHOOSE j \in 1 .. Shot : Is(j)) = i
    BY <2>7
  <2> QED
    BY <1>1, <2>1, <2>7, <2>8
<1> QED
  BY <1>3, <1>4

\* What a step does to the files: nothing, or it stores the image taken last.
Stays ==
  /\ SameFiles
  /\ \A s \in Files : \A k \in Spans(s) : data'[ChainOf(s)[k]] = data[ChainOf(s)[k]]
Stores ==
  pc = "window" /\ card' \in CardState /\ Written(fs) /\ data' = data /\ length' = length

\* Only the write of the window with the completed entry stores a file.
LEMMA StepEffect ==
  ASSUME SInv, [Next]_vars
  PROVE  \/ Stays /\ (length' = length \/ cmd_image)
         \/ Stores
<1>1. Shaped /\ OneDirtySector /\ Control /\ card \in CardState
  BY DEF SInv, Shaped
<1>2. ASSUME card' \in CardState, card'.fat = card.fat, card'.dir = card.dir,
             data' = data
      PROVE  Stays
  BY <1>2, TablesStay DEF Stays
<1>3. ASSUME pc \in Writing, pc # "window", card' \in CardState,
             card' = card \/ Written(fs), length' = length,
             \A c \in Clusters : c # fil.clust => data'[c] = data[c]
      PROVE  Stays
  <2>1. SameFiles
    BY <1>3, FilesKept
  <2>2. \A s \in Files : \A k \in Spans(s) :
          ChainOf(s)[k] \in Clusters /\ fil.clust # ChainOf(s)[k]
    BY <1>3, <2>1 DEF SameFiles, SameFile, SInv, Apart
  <2> QED
    BY <1>3, <2>1, <2>2 DEF Stays
<1>4. CASE cmd_image
  BY <1>1, <1>2, <1>4 DEF cmd_image, f_mount
<1>5. CASE Reset \/ WriteWithoutFile \/ UNCHANGED vars
  BY <1>1, <1>2, <1>5 DEF Reset, WriteWithoutFile, WriteInvalid, vars
<1>6. CASE OpenFirst \/ OpenNext
  <2>1. /\ pc \in {"open", "search"} /\ length' = length /\ image_index' \in Int
        /\ \/ OpenExisting(image_index') \/ OpenCreates(image_index')
           \/ OpenFails(image_index')
    <3>1. CASE OpenFirst
      <4>1. image_index' = image_index /\ image_index \in Nat
        BY <3>1 DEF OpenFirst, SInv, Index
      <4> QED
        BY <3>1, <4>1 DEF OpenFirst
    <3>2. CASE OpenNext
      BY <3>2 DEF OpenNext, SInv, Index
    <3> QED
      BY <1>6, <3>1, <3>2
  <2>2. card' \in CardState /\ (card' = card \/ Written(Volume)) /\ data' = data
    BY <1>1, <2>1, OpenExistingEffect, OpenCreatesEffect, OpenFailsEffect DEF Kept
  <2>3. card'.fat = card.fat /\ card'.dir = card.dir
    BY <2>1, <2>2, OpenTables DEF Written
  <2> QED
    BY <1>2, <2>1, <2>2, <2>3
<1>7. CASE WriteExtend
  <2>1. /\ pc \in Writing /\ pc # "window" /\ fs.fs_type /\ length' = length
        /\ ExtendChain
    BY <1>1, <1>7 DEF WriteExtend, Control, Writing, Filling
  <2>2. card' \in CardState /\ (card' = card \/ Written(fs)) /\ data' = data
    BY <1>1, <2>1, ExtendEffect
  <2> QED
    BY <1>3, <2>1, <2>2
<1>8. CASE WriteLink
  <2>1. /\ pc \in Writing /\ pc # "window" /\ fs.fs_type /\ length' = length
        /\ LinkCluster /\ fs.wflag /\ fil.next \in Clusters /\ fs.free_clst > 0
    BY <1>1, <1>8 DEF WriteLink, Control, Writing, Filling
  <2>2. card' \in CardState /\ (card' = card \/ Written(fs)) /\ data' = data
    BY <1>1, <2>1, LinkEffect
  <2> QED
    BY <1>3, <2>1, <2>2
<1>9. CASE WritePiece \/ WriteLastPiece
  <2>1. pc \in Writing /\ pc # "window" /\ PieceWritten
    BY <1>9, PieceEffect DEF WritePiece, WriteLastPiece, Writing, Filling
  <2> QED
    BY <1>1, <1>3, <2>1 DEF PieceWritten
<1>10. CASE CloseBuffer
  <2>1. /\ pc \in Writing /\ pc # "window" /\ fil.clust \in Clusters
        /\ SyncBuffer(Piece(fil.size)) /\ length' = length
    BY <1>1, <1>10 DEF CloseBuffer, Control, Writing, Closing
  <2>2. Piece(fil.size) \in Nat \X Nat
    BY <1>1 DEF Piece, Shot, SInv, Index, Shaped, FileState
  <2>3. card' = card /\ \A c \in Clusters : c # fil.clust => data'[c] = data[c]
    BY <1>1, <2>1, <2>2, DataEffect
  <2> QED
    BY <1>1, <1>3, <2>1, <2>3
<1>11. CASE CloseEntry
  <2>1. /\ pc \in Writing /\ pc # "window" /\ fs.fs_type /\ length' = length
        /\ SyncEntry /\ fil.slot \in Slots
    BY <1>1, <1>11 DEF CloseEntry, Control, Writing, Closing
  <2>2. card' \in CardState /\ (card' = card \/ Written(fs)) /\ data' = data
    BY <1>1, <2>1, SyncEntryEffect
  <2> QED
    BY <1>3, <2>1, <2>2
<1>12. CASE CloseWindow
  <2>1. pc = "window" /\ fs.fs_type /\ length' = length /\ SyncFs
    BY <1>1, <1>12 DEF CloseWindow, Control, Writing, Closing
  <2> QED
    BY <1>1, <2>1, SyncFsEffect DEF Stores, Kept
<1>13. CASE CloseInfo
  <2>1. fs.fs_type /\ length' = length /\ SyncFsInfo /\ ~fs.wflag
    BY <1>1, <1>13 DEF CloseInfo, Control
  <2> QED
    BY <1>1, <1>2, <2>1, SyncFsInfoEffect
<1>14. CASE WriteFailed \/ CloseFailed
  <2>1. pc \in Writing /\ fs.fs_type /\ length' = length
    BY <1>1, <1>14 DEF WriteFailed, CloseFailed, Control, Writing, Filling, Closing
  <2>2. CASE DiskFull \/ WriteFatFails \/ SyncFails
    <3>1. card' \in CardState /\ (card' = card \/ Written(fs)) /\ data' = data
      BY <1>1, <2>1, <2>2, FailureEffect DEF Kept
    <3>2. CASE pc # "window"
      BY <1>3, <2>1, <3>1, <3>2
    <3>3. CASE pc = "window" /\ Written(fs)
      BY <2>1, <3>1, <3>3 DEF Stores
    <3>4. CASE card' = card
      BY <1>2, <2>1, <3>1, <3>4
    <3> QED
      BY <3>1, <3>2, <3>3, <3>4
  <2>3. CASE pc \in {"data", "buffer"} /\ WriteDataFails
    <3>1. fil.clust \in Clusters /\ <<0, 0>> \in Nat \X Nat
      BY <1>1, <2>3 DEF Control, Closing
    <3>2. card' = card /\ \A c \in Clusters : c # fil.clust => data'[c] = data[c]
      BY <1>1, <2>3, <3>1, DataEffect
    <3> QED
      BY <1>1, <1>3, <2>1, <2>3, <3>2
  <2> QED
    BY <1>14, <2>2, <2>3 DEF WriteFailed, CloseFailed
<1> QED
  BY <1>4, <1>5, <1>6, <1>7, <1>8, <1>9, <1>10, <1>11, <1>12, <1>13, <1>14
     DEF Next, write_jpeg
\* Where the files stay, a reader finds what was there.
LEMMA StaysUnseen ==
  ASSUME SInv, Reading, Reading', Stays,
         length' = length \/ \E n : length' = Append(length, n)
  PROVE  \A n \in Names : StoredAs(n)' = StoredAs(n)
<1> SUFFICES ASSUME NEW n \in Names PROVE StoredAs(n)' = StoredAs(n)
  OBVIOUS
<1>1. Files' = Files /\ \A s \in Files : card'.dir[s] = card.dir[s]
  BY DEF Stays, SameFiles, SameFile
<1>2. CASE \A s \in Files : card.dir[s].name # n
  BY <1>1, <1>2 DEF Reading
<1>3. ASSUME NEW s \in Files, card.dir[s].name = n PROVE StoredAs(n)' = StoredAs(n)
  <2>1. PICK i \in 1 .. Shot : Holds(s, i)
    BY DEF SInv, Filed
  <2>2. Holds(s, i)' /\ Shot \in Nat /\ Shot' \in Nat /\ Shot <= Shot'
    BY <2>1, HoldsStays DEF Stays
  <2>3. StoredAs(n) = i
    BY <1>3, <2>1 DEF Reading
  <2>4. StoredAs(n)' = i
    BY <1>1, <1>3, <2>1, <2>2 DEF Reading
  <2> QED
    BY <2>3, <2>4
<1> QED
  BY <1>2, <1>3

\* Where the image taken last is stored, a reader finds it in addition, under
\* a name above all others.
LEMMA StoresLast ==
  ASSUME SInv, Reading, Reading', Stores
  PROVE  /\ Top \in Names /\ Shot \in Nat /\ Shot > 0 /\ Shot' = Shot
         /\ \A m \in Names : StoredAs(m) # 0 => m < Top /\ StoredAs(m) # Shot
         /\ StoredAs(Top) = 0
         /\ \A t \in {Top} : StoredAs(t)' = Shot
         /\ \A m \in Names : m # Top => StoredAs(m)' = StoredAs(m)
<1>1. /\ pc = "window" /\ pc \in Writing /\ Shot' = Shot /\ length' = length
      /\ length \in Seq(1 .. MaxLength)
  BY DEF Stores, Writing, Closing, Shot, SInv, Index
<1>2. /\ Top = image_index - 1 /\ image_index \in Nat /\ image_index >= 1
      /\ image_index <= IndexLimit + Shot /\ Shot <= MaxShots /\ Shot \in Nat /\ Shot >= 1
  BY <1>1 DEF Top, SInv, Index, Filling, Closing, Shot
<1>3. Top \in Names
  BY <1>2, StoreAssumption DEF Names
<1>4. PICK t \in Slots :
        /\ Files' = Files \cup {t} /\ t \notin Files /\ t = fil.slot
        /\ \A s \in Files : SameFile(s)
        /\ Holds(t, Shot)' /\ card'.dir[t].name = Top
  BY ImageStored DEF Stores
<1>5. \A s \in Files : card.dir[s].name < Top /\ card.dir[s].name # Top
  <2>1. \A s \in Files : s \in Slots \ {fil.slot}
    BY <1>4 DEF Files
  <2>2. \A s \in Files : card.dir[s].name < Top
    BY <1>1, <2>1 DEF SInv, OwnEntry
  <2>3. \A s \in Files : card.dir[s].name \in Int
    BY <2>1 DEF SInv, Shaped, CardState, DirTable, Entry
  <2> QED
    BY <1>2, <2>2, <2>3
<1>6. ASSUME NEW m \in Names, StoredAs(m) # 0 PROVE m < Top /\ StoredAs(m) # Shot
  <2>1. PICK s \in Files : card.dir[s].name = m
    BY <1>6 DEF Reading
  <2>2. PICK i \in 1 .. Shot : Holds(s, i)
    BY DEF SInv, Filed
  <2>3. StoredAs(m) = i
    BY <2>1, <2>2 DEF Reading
  <2>4. i # Shot
    BY <1>1, <2>2 DEF SInv, Filed
  <2> QED
    BY <1>5, <2>1, <2>3, <2>4
<1>7. StoredAs(Top) = 0
  BY <1>3, <1>5 DEF Reading
<1>8. ASSUME NEW n \in {Top} PROVE StoredAs(n)' = Shot
  <2>1. n \in Names /\ Shot \in 1 .. Shot' /\ t \in Files' /\ card'.dir[t].name = n
    BY <1>1, <1>2, <1>3, <1>4
  <2>2. Holds(t, Shot)'
    BY <1>4
  <2>3. \A i \in 1 .. Shot' : Holds(t, i)' => StoredAs(n)' = i
    BY <2>1 DEF Reading
  <2>4. \A i : i = Shot' => (Holds(t, i)' <=> Holds(t, Shot)')
    BY DEF Holds
  <2> QED
    BY <1>1, <2>1, <2>2, <2>3, <2>4
<1>9. ASSUME NEW m \in Names, m # Top PROVE StoredAs(m)' = StoredAs(m)
  <2>1. \A s \in Files : card'.dir[s] = card.dir[s]
    BY <1>4 DEF SameFile
  <2>2. CASE \A s \in Files : card.dir[s].name # m
    <3>1. \A s \in Files' : card'.dir[s].name # m
      BY <1>4, <1>9, <2>1, <2>2
    <3> QED
      BY <2>2, <3>1 DEF Reading
  <2>3. ASSUME NEW s \in Files, card.dir[s].name = m PROVE StoredAs(m)' = StoredAs(m)
    <3>1. PICK i \in 1 .. Shot : Holds(s, i)
      BY DEF SInv, Filed
    <3>2. /\ card'.dir[s] = card.dir[s] /\ ChainOf(s)' = ChainOf(s)
          /\ Spans(s)' = Spans(s) /\ s \in Files' /\ data' = data
      BY <1>4 DEF SameFile, Spans, Stores
    <3>3. Holds(s, i)'
      BY <1>1, <3>1, <3>2 DEF Holds
    <3> QED
      BY <1>1, <2>3, <3>1, <3>2, <3>3 DEF Reading
  <2> QED
    BY <2>2, <2>3
<1> QED
  BY <1>1, <1>2, <1>3, <1>6, <1>7, <1>8, <1>9

\* The card implements the album: an image is there whole or not at all, is
\* never overwritten or lost, and names follow the order in which images were
\* taken, whatever fails and whenever the power is cut (main.c 256-290).
THEOREM AlbumImplemented == Spec => ImplementsAlbum
<1> DEFINE album == [n \in Names |-> StoredAs(n)]
<1>1. Init => Card!Init
  <2> SUFFICES ASSUME Init PROVE Card!Init
    OBVIOUS
  <2>1. Shot = 0
    BY DEF Init, Shot
  <2>2. Files = {}
    BY DEF Init, FatInit, Files, NoEntry
  <2>3. Reading
    BY InitSInv, ReadingHolds
  <2>4. \A n \in Names : StoredAs(n) = 0
    BY <2>2, <2>3 DEF Reading
  <2> QED
    BY <2>1, <2>4 DEF Card!Init, Card!None
<1>2. SInv /\ Reading /\ Reading' /\ [Next]_vars => [Card!Next]_<<album, Shot>>
  <2> SUFFICES ASSUME SInv, Reading, Reading', [Next]_vars
               PROVE  [Card!Next]_<<album, Shot>>
    OBVIOUS
  <2>1. CASE Stays /\ length' = length
    <3>1. \A n \in Names : StoredAs(n)' = StoredAs(n)
      BY <2>1, StaysUnseen
    <3>2. album' = album /\ Shot' = Shot
      BY <2>1, <3>1 DEF Shot
    <3> QED
      BY <3>2
  <2>2. CASE Stays /\ cmd_image
    <3>1. \E n : length' = Append(length, n)
      BY <2>2 DEF cmd_image
    <3>2. \A n \in Names : StoredAs(n)' = StoredAs(n)
      BY <2>2, <3>1, StaysUnseen
    <3>3. album' = album
      BY <3>2
    <3>4. Shot < MaxShots /\ Shot' = Shot + 1
      BY <2>2 DEF cmd_image, Shot, SInv, Index
    <3>5. Card!Take
      BY <3>3, <3>4 DEF Card!Take
    <3> QED
      BY <3>5 DEF Card!Next
  <2>3. CASE Stores
    <3>1. /\ Top \in Names /\ Shot \in Nat /\ Shot > 0 /\ Shot' = Shot
          /\ \A m \in Names : StoredAs(m) # 0 => m < Top /\ StoredAs(m) # Shot
          /\ \A t \in {Top} : StoredAs(t)' = Shot
          /\ \A m \in Names : m # Top => StoredAs(m)' = StoredAs(m)
      BY <2>3, StoresLast
    <3>2. PICK n \in Names : n = Top
      BY <3>1
    <3>3. album' = [album EXCEPT ![n] = Shot]
      BY <3>1, <3>2
    <3>4. Card!Keep(n)
      BY <3>1, <3>2, <3>3 DEF Card!Keep, Card!None
    <3> QED
      BY <3>4 DEF Card!Next
  <2> QED
    BY <2>1, <2>2, <2>3, StepEffect
<1>3. Spec => []SInv
  BY Invariance
<1>4. SInv => Reading
  BY ReadingHolds
<1>5. Spec => []Reading
  BY <1>3, <1>4, PTL
<1> QED
  BY <1>1, <1>2, <1>3, <1>5, PTL DEF Spec, ImplementsAlbum, Card!Spec

(***************************************************************************)
(* Lost clusters.                                                          *)
(***************************************************************************)

\* The FAT that counts, and the places of a cluster that something leads to: in
\* a file on the card, in the file being written, or on its way into it.
Fat == IF fs.fs_type THEN fs.fat ELSE card.fat
InFiles(c) == \E s \in Files : \E k \in Spans(s) : c = ChainOf(s)[k]
WorkChain == ChainFrom(fs.fat, fil.sclust, WorkLen)
InWork(c) == pc \in Writing /\ \E k \in 1 .. WorkLen : c = WorkChain[k]
InLink(c) == pc = "link" /\ c = fil.next
Led(c) == InFiles(c) \/ InWork(c) \/ InLink(c)

\* These are the reachable clusters.
LEMMA LedIsReachable ==
  ASSUME Shaped
  PROVE  \A c : c \in Reachable <=> Led(c)
<1> SUFFICES ASSUME NEW c PROVE c \in Reachable <=> Led(c)
  OBVIOUS
<1> DEFINE clusters(fat, f, n) == {ChainFrom(fat, f, n)[k] : k \in 1 .. n}
           filed == UNION {clusters(card.fat, card.dir[s].sclust, card.dir[s].size) :
                             s \in Slots}
           own == clusters(fs.fat, fil.sclust,
                           IF pc = "data" THEN fil.size + 1 ELSE fil.size)
<1>1. Reachable = filed
                  \cup (IF pc \in {"extend", "link", "data", "buffer", "entry", "window"}
                        THEN own ELSE {})
                  \cup (IF pc = "link" THEN {fil.next} ELSE {})
  BY DEF Reachable
<1>2. c \in filed <=> InFiles(c)
  <2>1. c \in filed <=> \E s \in Slots : \E k \in Spans(s) : c = ChainOf(s)[k]
    BY DEF Spans, ChainOf
  <2>2. \A s \in Slots : \A k \in Spans(s) : s \in Files
    BY DEF Shaped, CardState, DirTable, Entry, Spans, Files
  <2> QED
    BY <2>1, <2>2 DEF InFiles, Files
<1>3. c \in own <=> \E k \in 1 .. WorkLen : c = WorkChain[k]
  BY DEF WorkLen, WorkChain
<1>4. pc \in {"extend", "link", "data", "buffer", "entry", "window"} <=> pc \in Writing
  BY DEF Writing, Filling, Closing
<1> HIDE DEF filed, own
<1> QED
  BY <1>1, <1>2, <1>3, <1>4 DEF Led, InWork, InLink

\* A step that leads to no fewer clusters, and marks only clusters that
\* something leads to, loses none.
LEMMA LosesNone ==
  ASSUME Shaped, Shaped',
         \A c \in Clusters : Led(c) => Led(c)',
         \A c \in Clusters : Fat'[c] # Unused => Fat[c] # Unused \/ Led(c)'
  PROVE  Lost' \subseteq Lost
<1>1. Lost = {c \in Clusters : Fat[c] # Unused /\ ~Led(c)}
  BY LedIsReachable DEF Lost, FreeIn, Fat
<1>2. Lost' = {c \in Clusters : Fat'[c] # Unused /\ ~Led(c)'}
  <2>1. (\A c : c \in Reachable <=> Led(c))'
    BY LedIsReachable, PTL
  <2> QED
    BY <2>1 DEF Lost, FreeIn, Fat
<1> QED
  BY <1>1, <1>2

\* Every step leads to the clusters of the files that were there.
LEMMA FilesLed ==
  ASSUME SInv, [Next]_vars, NEW c, InFiles(c)
  PROVE  InFiles(c)'
<1>1. PICK s \in Files : \E k \in Spans(s) : c = ChainOf(s)[k]
  BY DEF InFiles
<1>2. PICK k \in Spans(s) : c = ChainOf(s)[k]
  BY <1>1
<1>3. s \in Files' /\ card'.dir[s] = card.dir[s] /\ ChainOf(s)' = ChainOf(s)
  <2>1. CASE Stays
    BY <2>1 DEF Stays, SameFiles, SameFile
  <2>2. CASE Stores
    BY <2>2, ImageStored DEF Stores, SameFile
  <2> QED
    BY <2>1, <2>2, StepEffect
<1>4. k \in Spans(s)' /\ c = ChainOf(s)'[k]
  BY <1>2, <1>3 DEF Spans
<1> QED
  BY <1>3, <1>4 DEF InFiles

\* The chain of the file being written, as ChainFrom reads it.
LEMMA WorkChainIs ==
  ASSUME NEW ch, Work(ch), WorkLen > 0
  PROVE  /\ Linked(fs.fat, fil.sclust, WorkLen, ch) /\ WorkChain = ch
         /\ \A k \in 1 .. WorkLen : WorkChain[k] \in Clusters
                                    /\ fs.fat[WorkChain[k]] # Unused
<1>1. Linked(fs.fat, fil.sclust, WorkLen, ch)
  BY DEF Work
<1>2. WorkChain = ch
  BY <1>1, ChainIs DEF WorkChain
<1> QED
  BY <1>1, <1>2, LinkedUsed

\* The allocation of a cluster leads to it.
LEMMA ExtendLoses ==
  ASSUME SInv, SInv', WriteExtend
  PROVE  Lost' \subseteq Lost
<1>1. /\ Shaped /\ OneDirtySector /\ Control /\ pc = "extend" /\ pc' = "link"
      /\ fs.fs_type /\ pc \in Writing /\ pc' \in Writing /\ ExtendChain
  BY DEF SInv, Control, WriteExtend, Writing, Filling
<1>2. PICK ncl \in Clusters :
           /\ fs.fat[ncl] = Unused /\ fs'.fs_type
           /\ fs'.fat = [fs.fat EXCEPT ![ncl] = EOC]
           /\ fil' = [fil EXCEPT !.next = ncl]
  BY <1>1, ExtendEffect
<1>3. fil'.next = ncl /\ fil'.sclust = fil.sclust /\ fil'.size = fil.size
  BY <1>1, <1>2 DEF Shaped, FileState
<1>4. \A c \in Clusters \ {ncl} : fs'.fat[c] = fs.fat[c]
  BY <1>1, <1>2 DEF Shaped, FsState, FatTable
<1>5. WorkLen' = WorkLen /\ WorkLen \in Nat
  BY <1>1, <1>3 DEF WorkLen, Shaped, FileState
<1>6. ASSUME NEW c, InWork(c) PROVE InWork(c)'
  <2>1. PICK ch \in [1 .. WorkLen -> Clusters] : Work(ch)
    BY <1>1 DEF SInv, Working
  <2>2. PICK k \in 1 .. WorkLen : c = WorkChain[k]
    BY <1>6 DEF InWork
  <2>3. /\ Linked(fs.fat, fil.sclust, WorkLen, ch) /\ WorkChain = ch
        /\ \A j \in 1 .. WorkLen : ch[j] \in Clusters /\ fs.fat[ch[j]] # Unused
    BY <1>5, <2>1, <2>2, WorkChainIs
  <2>4. \A j \in 1 .. WorkLen : fs'.fat[ch[j]] = fs.fat[ch[j]]
    BY <1>2, <1>4, <2>3
  <2>5. Linked(fs'.fat, fil.sclust, WorkLen, ch)
    BY <2>3, <2>4 DEF Linked
  <2>6. ChainFrom(fs'.fat, fil.sclust, WorkLen) = ch
    BY <2>5, ChainIs
  <2>7. WorkChain' = ch
    BY <1>3, <1>5, <2>6 DEF WorkChain
  <2> QED
    BY <1>1, <1>5, <2>2, <2>3, <2>7 DEF InWork
<1>7. ASSUME NEW c, Led(c) PROVE Led(c)'
  BY <1>1, <1>6, <1>7, FilesLed DEF Led, InLink, Next, write_jpeg
<1>8. \A c \in Clusters : Fat'[c] # Unused => Fat[c] # Unused \/ Led(c)'
  BY <1>1, <1>2, <1>3, <1>4 DEF Fat, Led, InLink
<1> QED
  BY <1>7, <1>8, LosesNone DEF SInv

\* The new cluster, and the chain that it is linked to, are the longer chain.
LEMMA LinkLoses ==
  ASSUME SInv, SInv', WriteLink
  PROVE  Lost' \subseteq Lost
<1>1. /\ Shaped /\ OneDirtySector /\ Control /\ pc = "link" /\ pc' = "data"
      /\ fs.fs_type /\ pc \in Writing /\ pc' \in Writing /\ fs.wflag
      /\ fil.next \in Clusters /\ fs.free_clst > 0 /\ fs.fat[fil.next] = EOC
      /\ LinkCluster
  BY DEF SInv, Control, WriteLink, Writing, Filling
<1>2. /\ fs'.fs_type /\ fil'.size = fil.size
      /\ fs'.fat = IF fil.clust = 0 THEN fs.fat
                   ELSE [fs.fat EXCEPT ![fil.clust] = fil.next]
      /\ fil'.sclust = IF fil.sclust = 0 THEN fil.next ELSE fil.sclust
  BY <1>1, LinkEffect
<1>3. fs.fat \in FatTable /\ fil.clust \in {0} \cup Clusters /\ fil.size \in Nat
  BY <1>1 DEF Shaped, FsState, FileState
<1>4. /\ \A c \in Clusters : c # fil.clust => fs'.fat[c] = fs.fat[c]
      /\ fil.clust # 0 => fs'.fat[fil.clust] = fil.next
  BY <1>2, <1>3 DEF FatTable
<1>5. WorkLen = fil.size /\ WorkLen' = fil.size + 1
  BY <1>1, <1>2 DEF WorkLen
<1>6. PICK ch \in [1 .. WorkLen -> Clusters] : Work(ch)
  BY <1>1 DEF SInv, Working
<1> DEFINE n == fil.size
<1>7. Linking(fs.fat, fs'.fat, fil.sclust, fil.clust, n, ch, fil.next)
  BY <1>1, <1>3, <1>4, <1>5, <1>6 DEF Work, Linking
<1> HIDE DEF n
<1>8. PICK longer \in [1 .. n + 1 -> Clusters] :
        /\ Linked(fs'.fat, IF fil.sclust = 0 THEN fil.next ELSE fil.sclust, n + 1, longer)
        /\ longer[n + 1] = fil.next
        /\ \A j \in 1 .. n : longer[j] = ch[j] /\ ch[j] \in Clusters
        /\ n \in Nat /\ n + 1 \in Nat /\ n + 1 \in 1 .. n + 1
  BY <1>7, ChainGrows
<1>9. ChainFrom(fs'.fat, IF fil.sclust = 0 THEN fil.next ELSE fil.sclust, n + 1) = longer
  BY <1>8, ChainIs
<1>10. WorkLen = n /\ WorkLen' = n + 1
  BY <1>5 DEF n
<1>11. WorkChain' = longer
  BY <1>2, <1>9, <1>10 DEF WorkChain
<1>12. ASSUME NEW c, InWork(c) PROVE InWork(c)'
  <2>1. PICK k \in 1 .. n : c = WorkChain[k]
    BY <1>10, <1>12 DEF InWork
  <2>2. WorkChain = ch
    BY <1>6, <1>8, <1>10, <2>1, WorkChainIs
  <2>3. k \in 1 .. n + 1 /\ c = longer[k]
    BY <1>8, <2>1, <2>2
  <2> QED
    BY <1>1, <1>10, <1>11, <2>3 DEF InWork
<1>13. ASSUME NEW c, InLink(c) PROVE InWork(c)'
  BY <1>1, <1>8, <1>10, <1>11, <1>13 DEF InWork, InLink
<1>14. ASSUME NEW c, Led(c) PROVE Led(c)'
  BY <1>1, <1>12, <1>13, <1>14, FilesLed DEF Led, Next, write_jpeg
<1>15. fil.clust # 0 => fs.fat[fil.clust] = EOC
  BY <1>3, <1>5, <1>6 DEF Work, Linked
<1>16. \A c \in Clusters : Fat'[c] # Unused => Fat[c] # Unused \/ Led(c)'
  BY <1>1, <1>2, <1>4, <1>15 DEF Fat, EOC, Unused, Clusters
<1> QED
  BY <1>14, <1>16, LosesNone DEF SInv

\* A step within the file that is being written.
LEMMA WorkStays ==
  ASSUME SInv, SInv', Next, pc \in Writing \ {"link"}, pc' \in Writing \ {"link"},
         fs'.fat = fs.fat, fs'.fs_type = fs.fs_type, fil'.sclust = fil.sclust,
         WorkLen' = WorkLen
  PROVE  Lost' \subseteq Lost
<1>1. fs.fs_type
  BY DEF SInv, Control
<1>2. WorkChain' = WorkChain
  BY DEF WorkChain
<1>3. \A c : Led(c) => Led(c)'
  BY <1>2, FilesLed DEF Led, InWork, InLink
<1>4. Fat' = Fat
  BY <1>1 DEF Fat
<1> QED
  BY <1>3, <1>4, LosesNone DEF SInv

\* The window with the completed entry makes the chain a file's.
LEMMA WindowLoses ==
  ASSUME SInv, SInv', CloseWindow
  PROVE  Lost' \subseteq Lost
<1>1. /\ pc = "window" /\ pc \in Writing /\ Shaped /\ OneDirtySector /\ fs.fs_type
      /\ fil.slot \in Slots /\ SyncFs
  BY DEF SInv, CloseWindow, Control, Writing, Closing
<1>2. fs'.fat = fs.fat /\ fs'.fs_type /\ Written(fs) /\ fil.size \in Nat
  BY <1>1, SyncFsEffect DEF Kept, Shaped, FileState
<1>3. ASSUME NEW c, InWork(c) PROVE InFiles(c)'
  <2>1. PICK k \in 1 .. fil.size : c = ChainFrom(fs.fat, fil.sclust, fil.size)[k]
    BY <1>1, <1>3 DEF InWork, WorkLen, WorkChain
  <2>2. PICK t \in Slots : t = fil.slot
    BY <1>1
  <2>3. /\ card'.dir[t].sclust = fil.sclust /\ card'.dir[t].size = fil.size
        /\ card'.fat = fs.fat
    BY <1>1, <1>2, <2>2 DEF SInv, OwnEntry, Written
  <2>4. t \in Files' /\ k \in Spans(t)' /\ c = ChainOf(t)'[k]
    BY <1>2, <2>1, <2>3 DEF Files, Spans, ChainOf
  <2> QED
    BY <2>4 DEF InFiles
<1>4. \A c : Led(c) => Led(c)'
  BY <1>1, <1>3, FilesLed DEF Led, InLink, Next, write_jpeg
<1>5. Fat' = Fat
  BY <1>1, <1>2 DEF Fat
<1> QED
  BY <1>4, <1>5, LosesNone DEF SInv

\* A step that finds no file being written, and works on the card's FAT or the
\* one in memory.
LEMMA IdleLoses ==
  ASSUME SInv, SInv',
         \/ cmd_image \/ OpenFirst \/ OpenNext \/ WriteWithoutFile \/ CloseInfo
  PROVE  Lost' \subseteq Lost
<1>1. pc \notin Writing /\ pc # "link" /\ Shaped /\ OneDirtySector /\ Control
  BY DEF SInv, cmd_image, OpenFirst, OpenNext, WriteWithoutFile, CloseInfo, Writing,
         Filling, Closing
<1>2. \A c : Led(c) => Led(c)'
  BY <1>1, FilesLed DEF Led, InWork, InLink, Next, write_jpeg
<1>3. \A c \in Clusters : Fat'[c] # Unused => Fat[c] # Unused
  <2>1. CASE cmd_image
    <3>1. Fat' = card.fat
      BY <2>1, UnmountedShape DEF cmd_image, f_mount, Fat
    <3>2. fs.fs_type => FreeIn(fs.fat) \subseteq FreeIn(card.fat)
      BY DEF SInv, Counting
    <3> QED
      BY <3>1, <3>2 DEF Fat, FreeIn
  <2>2. CASE OpenFirst \/ OpenNext
    <3>1. pc \in {"open", "search"} /\ image_index' \in Int
      BY <2>2 DEF OpenFirst, OpenNext, SInv, Index
    <3>2. \/ OpenExisting(image_index') \/ OpenCreates(image_index')
          \/ OpenFails(image_index')
      <4>1. OpenFirst => image_index' = image_index
        BY DEF OpenFirst
      <4> QED
        BY <2>2, <4>1 DEF OpenFirst, OpenNext
    <3>3. Volume.fat = card.fat /\ Volume.fs_type
      BY <3>1, OpenTables
    <3>4. /\ card'.fat = card.fat
          /\ fs'.fat = card.fat \/ (fs' = Unmounted /\ card' = card)
      BY <1>1, <3>1, <3>2, <3>3, OpenExistingEffect, OpenCreatesEffect, OpenFailsEffect
         DEF Kept, Written
    <3>5. Fat' = card.fat
      BY <3>4, UnmountedShape DEF Fat
    <3>6. Fat = card.fat
      BY <1>1, <3>3, VolumeAgrees DEF Fat
    <3> QED
      BY <3>5, <3>6
  <2>3. CASE WriteWithoutFile
    BY <2>3 DEF WriteWithoutFile, WriteInvalid, Fat
  <2>4. CASE CloseInfo
    <3>1. fs.fs_type /\ ~fs.wflag /\ SyncFsInfo
      BY <1>1, <2>4 DEF CloseInfo, Control
    <3>2. fs'.fat = fs.fat /\ fs'.fs_type
      BY <1>1, <3>1, SyncFsInfoEffect
    <3> QED
      BY <3>1, <3>2 DEF Fat
  <2> QED
    BY <2>1, <2>2, <2>3, <2>4
<1> QED
  BY <1>2, <1>3, LosesNone DEF SInv

\* Only a failure or a reset loses clusters, for every volume (ff.c 1347-1441,
\* main.c 256-290).
THEOREM OnlyFailuresLose == Spec => LosesByFailureOnly
<1>1. SInv /\ SInv' /\ [Next]_vars =>
        [Lost' \subseteq Lost \/ WriteFailed \/ CloseFailed \/ Reset]_vars
  <2> SUFFICES ASSUME SInv, SInv', Next
               PROVE  Lost' \subseteq Lost \/ WriteFailed \/ CloseFailed \/ Reset
    OBVIOUS
  <2>1. Shaped /\ OneDirtySector /\ Control
    BY DEF SInv
  <2>2. CASE cmd_image \/ OpenFirst \/ OpenNext \/ WriteWithoutFile \/ CloseInfo
    BY <2>2, IdleLoses
  <2>3. CASE WritePiece \/ WriteLastPiece
    <3>1. PieceWritten
      BY <2>3, PieceEffect
    <3>2. pc = "data" /\ pc' \in {"extend", "buffer"}
      BY <2>3 DEF WritePiece, WriteLastPiece
    <3>3. WorkLen' = WorkLen /\ fil'.sclust = fil.sclust /\ fs' = fs
      BY <3>1, <3>2 DEF PieceWritten, WorkLen
    <3> QED
      BY <3>2, <3>3, WorkStays DEF Writing, Filling, Closing
  <2>4. CASE CloseBuffer
    <3>1. pc = "buffer" /\ pc' = "entry" /\ fs' = fs /\ fil' = [fil EXCEPT !.dirty = FALSE]
      BY <2>4 DEF CloseBuffer, SyncBuffer
    <3>2. WorkLen' = WorkLen /\ fil'.sclust = fil.sclust
      BY <2>1, <3>1 DEF WorkLen, Shaped, FileState
    <3> QED
      BY <3>1, <3>2, WorkStays DEF Writing, Filling, Closing
  <2>5. CASE CloseEntry
    <3>1. /\ pc = "entry" /\ pc' = "window" /\ SyncEntry /\ fs.fs_type
          /\ fil.slot \in Slots
      BY <2>1, <2>5 DEF CloseEntry, Control, Writing, Closing
    <3>2. fs'.fat = fs.fat /\ fs'.fs_type /\ fil' = fil
      BY <2>1, <3>1, SyncEntryEffect
    <3>3. WorkLen' = WorkLen
      BY <3>1, <3>2 DEF WorkLen
    <3>4. fs'.fs_type = fs.fs_type
      BY <2>5 DEF CloseEntry, SyncEntry, Shaped, FsState
    <3> QED
      BY <3>1, <3>2, <3>3, <3>4, WorkStays DEF Writing, Filling, Closing
  <2>6. CASE WriteExtend \/ WriteLink \/ CloseWindow
    BY <2>6, ExtendLoses, LinkLoses, WindowLoses
  <2> QED
    BY <2>2, <2>3, <2>4, <2>5, <2>6 DEF Next, write_jpeg
<1>2. Spec => []SInv
  BY Invariance
<1> QED
  BY <1>1, <1>2, PTL DEF Spec, LosesByFailureOnly
=============================================================================
