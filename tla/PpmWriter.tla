----------------------------- MODULE PpmWriter -----------------------------
(***************************************************************************)
(* write_rgb of main.c: the RGB565 frame in OV5640_ram_buffer is written   *)
(* to image1.ppm as one line of three decimal numbers per pixel.  A pixel  *)
(* is its two bytes <<first, second>>; the file is the sequence of colour  *)
(* triples behind the header.                                              *)
(*                                                                         *)
(* Of FatFs two facts are used: a file whose f_open failed has no volume   *)
(* and cannot be written (ff.c 3265-3295), and after a write that failed   *)
(* every later one fails too (fp->err, ff.c 3668).                         *)
(***************************************************************************)
EXTENDS Integers, Sequences

CONSTANTS
  OV5640_MAXX, OV5640_MAXY,  \* columns and rows of the image
  Pixels                     \* pixels a frame is made of

ASSUME FrameAssumption ==
  /\ OV5640_MAXX \in Nat \ {0} /\ OV5640_MAXY \in Nat \ {0}
  /\ Pixels \subseteq (0 .. 255) \X (0 .. 255)

VARIABLES
  OV5640_ram_buffer,  \* the pixels, row by row
  y, x,               \* the loop's row and column
  file,               \* the triples in image1.ppm
  writable,           \* no operation on the file has failed since its f_open
  led,                \* the blue LED, lit while the file is written
  pc

vars == <<OV5640_ram_buffer, y, x, file, writable, led, pc>>

NumPixels == OV5640_MAXX * OV5640_MAXY

\* color: the second byte, shifted right by 8, plus the first one.
Color(pixel) == (pixel[2] \div 256) + pixel[1]

\* The three masks and shifts of the loop body.
Decode(pixel) ==
  LET color == Color(pixel)
      b == (color % 32) * 8
      g == ((color \div 32) % 64) * 4
      r == (color \div 2048) * 8
  IN <<r, g, b>>

\* Slip: the roles of rows and columns are exchanged.
PixelTransposed(row, column) ==
  OV5640_ram_buffer[column * OV5640_MAXX + row + 1]

\* The triple at row, column: the index runs through the buffer row by row.
PixelAt(row, column) == OV5640_ram_buffer[row * OV5640_MAXX + column + 1]

write_rgb ==
  /\ pc = "idle"
  /\ led' = TRUE
  /\ writable' \in BOOLEAN          \* f_open; its result is only printed
  /\ file' = IF writable' THEN <<>> ELSE file   \* FA_CREATE_ALWAYS
  /\ pc' = "header"
  /\ UNCHANGED <<OV5640_ram_buffer, y, x>>

\* A write error in the header returns at once, the LED still lit.
WriteHeader ==
  /\ pc = "header"
  /\ \/ /\ writable
        /\ y' = 0 /\ x' = 0
        /\ pc' = "pixels"
        /\ UNCHANGED writable
     \/ /\ writable' = FALSE
        /\ pc' = "idle"
        /\ UNCHANGED <<y, x>>
  /\ UNCHANGED <<OV5640_ram_buffer, file, led>>

\* x runs through the row, then y moves on to the next one.
NextPixel ==
  /\ x' = IF x + 1 < OV5640_MAXX THEN x + 1 ELSE 0
  /\ y' = IF x + 1 < OV5640_MAXX THEN y ELSE y + 1

WritePixel ==
  /\ pc = "pixels" /\ y < OV5640_MAXY /\ writable
  /\ file' = Append(file, Decode(PixelAt(y, x)))
  /\ NextPixel
  /\ UNCHANGED <<OV5640_ram_buffer, writable, led, pc>>

\* Slip: the row is tried again.
WriteErrorRetries ==
  /\ pc = "pixels" /\ y < OV5640_MAXY
  /\ writable' = FALSE
  /\ x' = 0
  /\ UNCHANGED <<OV5640_ram_buffer, y, file, led, pc>>

\* An error or a full disk breaks out of the inner loop only.
WriteError ==
  /\ pc = "pixels" /\ y < OV5640_MAXY
  /\ writable' = FALSE
  /\ x' = 0 /\ y' = y + 1
  /\ UNCHANGED <<OV5640_ram_buffer, file, led, pc>>

\* Slip: the last row is left out.
CloseFileEarly ==
  /\ pc = "pixels" /\ y >= OV5640_MAXY - 1
  /\ led' = FALSE
  /\ pc' = "idle"
  /\ \/ UNCHANGED <<file, writable>>
     \/ writable' = FALSE /\ file' \in {<<>>, file}
  /\ UNCHANGED <<OV5640_ram_buffer, y, x>>

\* When f_close fails, which is only printed, the directory entry may still
\* have the size that f_open gave it.
CloseFile ==
  /\ pc = "pixels" /\ y >= OV5640_MAXY
  /\ led' = FALSE
  /\ pc' = "idle"
  /\ \/ UNCHANGED <<file, writable>>
     \/ writable' = FALSE /\ file' \in {<<>>, file}
  /\ UNCHANGED <<OV5640_ram_buffer, y, x>>

\* The next snapshot.
NewFrame ==
  /\ pc = "idle"
  /\ OV5640_ram_buffer' \in [1 .. NumPixels -> Pixels]
  /\ UNCHANGED <<y, x, file, writable, led, pc>>

Init ==
  /\ OV5640_ram_buffer \in [1 .. NumPixels -> Pixels]
  /\ y = 0 /\ x = 0
  /\ file = <<>> /\ writable = FALSE /\ led = FALSE
  /\ pc = "idle"

WriteFile == WriteHeader \/ WritePixel \/ WriteError \/ CloseFile

Next == write_rgb \/ WriteFile \/ NewFrame

\* A write that was started runs on.
Spec == Init /\ [][Next]_vars /\ WF_vars(WriteFile)

(***************************************************************************)
(* Properties.                                                             *)
(***************************************************************************)

\* What is in the file is always a beginning of the image: no pixel is left
\* out, repeated or misplaced behind a write error, although the rows go on
\* (main.c 175-208).
PrefixOfImage ==
  pc = "pixels" =>
     /\ Len(file) <= NumPixels
     /\ writable => Len(file) = y * OV5640_MAXX + x
     /\ \A k \in 1 .. Len(file) : file[k] = Decode(OV5640_ram_buffer[k])

\* A file that was written and closed without an error holds every pixel of the
\* image, in order (main.c 202-212).
ClosedIsWhole ==
  [][pc = "pixels" /\ pc' = "idle" /\ writable' =>
       /\ Len(file') = NumPixels
       /\ \A k \in 1 .. NumPixels : file'[k] = Decode(OV5640_ram_buffer[k])]_vars

\* Writing ends, with an error in every row too (main.c 175-212).
WriteEnds == pc = "header" ~> pc = "idle"

\* The colours of an RGB565 pixel stored low byte first.
Rgb565(pixel) ==
  LET color == pixel[2] * 256 + pixel[1]
  IN <<(color \div 2048) * 8, ((color \div 32) % 64) * 4, (color % 32) * 8>>

\* The numbers in the file are the colours of the pixels, "5bit blue", "6bit
\* green" and "5bit red" (main.c 180-182).
ColoursKept ==
  pc = "pixels" =>
    \A k \in 1 .. Len(file) : file[k] = Rgb565(OV5640_ram_buffer[k])
=============================================================================
