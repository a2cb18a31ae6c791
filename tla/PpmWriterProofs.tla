-------------------------- MODULE PpmWriterProofs --------------------------
(***************************************************************************)
(* Proofs about write_rgb, for every image size and every frame.           *)
(***************************************************************************)
EXTENDS PpmWriter, SequenceTheorems, TLAPS

Colours == Int \X Int \X Int

TypeInv ==
  /\ OV5640_ram_buffer \in [1 .. NumPixels -> Pixels]
  /\ y \in Nat /\ x \in 0 .. OV5640_MAXX - 1
  /\ file \in Seq(Colours)
  /\ writable \in BOOLEAN
  /\ pc \in {"idle", "header", "pixels"}

\* A file that is open when the header is written is empty.
HeaderFirst == pc = "header" /\ writable => file = <<>>

\* The loop has not run past the last row.
InsideImage == pc = "pixels" => y < OV5640_MAXY \/ (y = OV5640_MAXY /\ x = 0)

IInv == TypeInv /\ HeaderFirst /\ InsideImage /\ PrefixOfImage

(***************************************************************************)
(* Arithmetic of rows and columns.                                         *)
(***************************************************************************)

\* A pixel of the image has an index inside the buffer.
LEMMA PixelIndex ==
  ASSUME NEW row \in Nat, NEW column \in 0 .. OV5640_MAXX - 1,
         row < OV5640_MAXY
  PROVE  /\ row * OV5640_MAXX + column + 1 \in 1 .. NumPixels
         /\ row * OV5640_MAXX \in Nat /\ NumPixels \in Nat
         /\ (row + 1) * OV5640_MAXX = row * OV5640_MAXX + OV5640_MAXX
<1> USE FrameAssumption
<1>1. PICK d \in Nat : OV5640_MAXY = row + 1 + d
  <2>1. OV5640_MAXY - row - 1 \in Nat /\ OV5640_MAXY = row + 1 + (OV5640_MAXY - row - 1)
    OBVIOUS
  <2> QED
    BY <2>1
<1>2. OV5640_MAXX * OV5640_MAXY =
        row * OV5640_MAXX + OV5640_MAXX + OV5640_MAXX * d
  BY <1>1
<1>3. OV5640_MAXX * d \in Nat /\ row * OV5640_MAXX \in Nat
  OBVIOUS
<1>4. (row + 1) * OV5640_MAXX = row * OV5640_MAXX + OV5640_MAXX
  OBVIOUS
<1> QED
  BY <1>2, <1>3, <1>4 DEF NumPixels

\* The masks and shifts yield numbers.
LEMMA DecodeType ==
  ASSUME NEW pixel \in Pixels
  PROVE  Decode(pixel) \in Colours
<1>1. pixel[1] \in Int /\ pixel[2] \in Int
  BY FrameAssumption
<1>2. Color(pixel) \in Int
  BY <1>1 DEF Color
<1> QED
  BY <1>2 DEF Decode, Colours

(***************************************************************************)
(* The invariant is inductive.                                             *)
(***************************************************************************)

\* A pixel is written behind all the pixels before it.
LEMMA WritePixelStep ==
  ASSUME IInv, WritePixel
  PROVE  IInv'
<1> USE FrameAssumption
<1> DEFINE n == y * OV5640_MAXX + x + 1
<1>1. /\ pc = "pixels" /\ y < OV5640_MAXY /\ writable
      /\ file' = Append(file, Decode(OV5640_ram_buffer[n]))
      /\ UNCHANGED <<OV5640_ram_buffer, writable, pc>>
  BY DEF WritePixel, PixelAt
<1>2. y \in Nat /\ x \in 0 .. OV5640_MAXX - 1
  BY DEF IInv, TypeInv
<1>3. /\ n \in 1 .. NumPixels
      /\ y * OV5640_MAXX \in Nat /\ NumPixels \in Nat
      /\ (y + 1) * OV5640_MAXX = y * OV5640_MAXX + OV5640_MAXX
  BY <1>1, <1>2, PixelIndex
<1>4. Len(file) + 1 = n
  BY <1>1, <1>2, <1>3 DEF IInv, PrefixOfImage
<1>5. Decode(OV5640_ram_buffer[n]) \in Colours
  BY <1>3, DecodeType DEF IInv, TypeInv
<1>6. /\ file' \in Seq(Colours)
      /\ Len(file') = n
      /\ file'[n] = Decode(OV5640_ram_buffer[n])
      /\ \A k \in 1 .. Len(file) : file'[k] = file[k]
  BY <1>1, <1>4, <1>5, AppendProperties DEF IInv, TypeInv
<1>7. \A k \in 1 .. Len(file') : file'[k] = Decode(OV5640_ram_buffer[k])
  <2> TAKE k \in 1 .. Len(file')
  <2>1. CASE k = n
    BY <1>6, <2>1
  <2>2. CASE k # n
    <3>1. k \in 1 .. Len(file)
      BY <1>3, <1>4, <1>6, <2>2
    <3> QED
      BY <1>1, <1>6, <3>1 DEF IInv, PrefixOfImage
  <2> QED
    BY <2>1, <2>2
<1>8. \/ x + 1 < OV5640_MAXX /\ x' = x + 1 /\ y' = y
      \/ x + 1 >= OV5640_MAXX /\ x' = 0 /\ y' = y + 1
  BY <1>2 DEF WritePixel, NextPixel
<1>9. y' \in Nat /\ x' \in 0 .. OV5640_MAXX - 1
  BY <1>2, <1>8
<1>10. y' * OV5640_MAXX + x' = n
  BY <1>2, <1>3, <1>8
<1>11. y' < OV5640_MAXY \/ (y' = OV5640_MAXY /\ x' = 0)
  BY <1>1, <1>2, <1>8
<1>12. TypeInv' /\ HeaderFirst' /\ InsideImage'
  BY <1>1, <1>6, <1>9, <1>11 DEF IInv, TypeInv, HeaderFirst, InsideImage, NumPixels
<1>13. Len(file') <= NumPixels
  BY <1>3, <1>6
<1>14. PrefixOfImage'
  BY <1>1, <1>6, <1>7, <1>10, <1>13 DEF PrefixOfImage, NumPixels
<1> QED
  BY <1>12, <1>14 DEF IInv

\* Every step of the program and of the camera keeps the invariant.
LEMMA Inductive == IInv /\ [Next]_vars => IInv'
<1> SUFFICES ASSUME IInv, [Next]_vars PROVE IInv'
  OBVIOUS
<1> USE FrameAssumption DEF IInv, TypeInv, HeaderFirst, InsideImage, NumPixels
<1>1. CASE write_rgb
  <2>1. <<>> \in Seq(Colours)
    OBVIOUS
  <2>2. /\ file' \in Seq(Colours) /\ writable' \in BOOLEAN /\ pc' = "header"
        /\ writable' => file' = <<>>
        /\ UNCHANGED <<OV5640_ram_buffer, y, x>>
    BY <1>1, <2>1, Zenon DEF write_rgb
  <2> QED
    BY <2>2 DEF PrefixOfImage
<1>2. CASE WriteHeader
  <2>1. CASE writable /\ y' = 0 /\ x' = 0 /\ pc' = "pixels"
    <3>1. file = <<>> /\ UNCHANGED <<OV5640_ram_buffer, file, writable>>
      BY <1>2, <2>1 DEF WriteHeader
    <3>2. Len(file') = 0 /\ 0 * OV5640_MAXX + 0 = 0
      BY <3>1
    <3> QED
      BY <2>1, <3>1, <3>2 DEF PrefixOfImage
  <2>2. CASE writable' = FALSE /\ pc' = "idle" /\ UNCHANGED <<y, x>>
    BY <1>2, <2>2 DEF WriteHeader, PrefixOfImage
  <2> QED
    BY <1>2, <2>1, <2>2 DEF WriteHeader
<1>3. CASE WritePixel
  BY <1>3, WritePixelStep
<1>4. CASE WriteError
  <2>1. /\ pc = "pixels" /\ y < OV5640_MAXY
        /\ ~writable' /\ writable' \in BOOLEAN /\ x' = 0 /\ y' = y + 1
        /\ UNCHANGED <<OV5640_ram_buffer, file, pc>>
    BY <1>4, Zenon DEF WriteError
  <2>2. TypeInv' /\ HeaderFirst'
    BY <2>1
  <2>3. InsideImage'
    BY <2>1
  <2>4. PrefixOfImage'
    BY <2>1 DEF PrefixOfImage
  <2> QED
    BY <2>2, <2>3, <2>4
<1>5. CASE CloseFile
  <2>1. /\ pc' = "idle" /\ UNCHANGED <<OV5640_ram_buffer, y, x>>
        /\ \/ UNCHANGED <<file, writable>>
           \/ writable' = FALSE /\ file' \in {<<>>, file}
    BY <1>5, Zenon DEF CloseFile
  <2>2. <<>> \in Seq(Colours)
    OBVIOUS
  <2>3. file' \in Seq(Colours) /\ writable' \in BOOLEAN
    BY <2>1, <2>2, Zenon
  <2>4. TypeInv' /\ HeaderFirst' /\ InsideImage'
    BY <2>1, <2>3
  <2> QED
    BY <2>1, <2>4 DEF PrefixOfImage
<1>6. CASE NewFrame
  BY <1>6 DEF NewFrame, PrefixOfImage
<1>7. CASE UNCHANGED vars
  BY <1>7 DEF vars, PrefixOfImage
<1> QED
  BY <1>1, <1>2, <1>3, <1>4, <1>5, <1>6, <1>7 DEF Next, WriteFile

\* The invariant holds throughout.
THEOREM Invariance == Spec => []IInv
<1>1. Init => IInv
  <2>1. <<>> \in Seq(Colours)
    OBVIOUS
  <2>2. 0 \in Nat /\ 0 \in 0 .. OV5640_MAXX - 1
    BY FrameAssumption
  <2> QED
    BY <2>1, <2>2, Zenon
    DEF Init, IInv, TypeInv, HeaderFirst, InsideImage, PrefixOfImage
<1> QED
  BY <1>1, Inductive, PTL DEF Spec

\* Whatever fails, the file holds a beginning of the image, pixel by pixel
\* (main.c 175-208): for every image size.
THEOREM FileIsPrefix == Spec => []PrefixOfImage
<1>1. IInv => PrefixOfImage
  BY DEF IInv
<1> QED
  BY <1>1, Invariance, PTL

\* A file that is written and closed without an error is the whole image
\* (main.c 202-212): for every image size and content.
THEOREM ClosedFileIsWhole == Spec => ClosedIsWhole
<1>1. IInv /\ [Next]_vars =>
        [pc = "pixels" /\ pc' = "idle" /\ writable' =>
           /\ Len(file') = NumPixels
           /\ \A k \in 1 .. NumPixels : file'[k] = Decode(OV5640_ram_buffer[k])]_vars
  <2> SUFFICES ASSUME IInv, [Next]_vars, pc = "pixels", pc' = "idle", writable'
               PROVE  /\ Len(file') = NumPixels
                      /\ \A k \in 1 .. NumPixels :
                           file'[k] = Decode(OV5640_ram_buffer[k])
    OBVIOUS
  <2>1. CloseFile
    BY DEF Next, WriteFile, write_rgb, WriteHeader, WritePixel, WriteError,
           NewFrame, vars
  <2>2. y >= OV5640_MAXY /\ writable /\ file' = file
    BY <2>1 DEF CloseFile
  <2>3. y = OV5640_MAXY /\ x = 0
    BY <2>2, FrameAssumption DEF IInv, TypeInv, InsideImage
  <2>4. Len(file) = OV5640_MAXY * OV5640_MAXX + 0
    BY <2>2, <2>3 DEF IInv, PrefixOfImage
  <2>5. Len(file) = NumPixels
    BY <2>4, FrameAssumption DEF NumPixels
  <2> QED
    BY <2>2, <2>5 DEF IInv, PrefixOfImage
<1> QED
  BY <1>1, Invariance, PTL DEF Spec, ClosedIsWhole
=============================================================================
