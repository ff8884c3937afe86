------------------------------ MODULE PgmFiles -------------------------------
(***************************************************************************)
(* vision/IraLeeHW4: WriteImage() writes an image through the buffer of a  *)
(* stream, on a disk that may be full; ReadImage() reads what is there.    *)
(* Programs 1 and 2 read with a threshold and without.  A cell is a line   *)
(* of the header or a pixel's byte; a line is not cut.                     *)
(***************************************************************************)
EXTENDS Integers, Sequences, FiniteSets

CONSTANTS
  Pixels,      \* rows times columns
  Value,       \* of the pixels, as computed; p2 writes labels times 30
  Levels,      \* num_gray_levels
  Threshold,   \* thresholds of program 1
  Program,     \* the programs that read, of 1 and 2
  Room,        \* cells the disk may have room for
  BufferCells  \* of a stream

PgmAssumption ==
  /\ Pixels \in Nat \ {0} /\ Value \subseteq Int /\ Levels \in Nat
  /\ Threshold \subseteq 1..255 /\ Program \subseteq {1, 2}
  /\ Room \subseteq Nat /\ BufferCells \in Nat /\ BufferCells >= 4

EOF == -1

VARIABLES
  image, room, program, threshold,
  pc, buffer, file, next, wrote,   \* WriteImage
  pos, line, got, brightest, read  \* ReadImage

inputs == <<image, room, program, threshold>>
wvars == <<buffer, file, next, wrote>>
rvars == <<pos, line, got, brightest, read>>
vars == <<inputs, pc, wvars, rvars>>

Cell(k, v) == [kind |-> k, val |-> v]
Header == <<Cell("P5", 0), Cell("#", 0), Cell("size", Pixels), Cell("levels", Levels)>>
Bytes(pixels) == [k \in DOMAIN pixels |-> Cell("byte", pixels[k] % 256)]
Whole == Header \o Bytes(image)

-----------------------------------------------------------------------------
(* WriteImage                                                              *)

\* What of the buffer the disk takes.
Flush == file \o SubSeq(buffer, 1, IF Len(buffer) < room - Len(file)
                                   THEN Len(buffer) ELSE room - Len(file))
Flushed == Len(file) + Len(buffer) <= room

CannotOpen ==
  /\ pc = "write" /\ wrote' = "false" /\ pc' = "reader"
  /\ UNCHANGED <<inputs, buffer, file, next, rvars>>

\* fopen() and the three fprintf(), whose results nobody looks at
WriteHeader ==
  /\ pc = "write"
  /\ buffer' = Header /\ pc' = "pixels"
  /\ UNCHANGED <<inputs, file, next, wrote, rvars>>

\* fputc(); it writes an unsigned char.
Put ==
  /\ pc = "pixels" /\ next <= Pixels /\ Len(buffer) < BufferCells
  /\ buffer' = Append(buffer, Bytes(image)[next]) /\ next' = next + 1
  /\ UNCHANGED <<inputs, pc, file, wrote, rvars>>

\* fputc() on a full buffer returns EOF if the disk is full.
PutFlushes ==
  /\ pc = "pixels" /\ next <= Pixels /\ Len(buffer) = BufferCells
  /\ file' = Flush /\ buffer' = <<>>
  /\ IF Flushed THEN UNCHANGED <<pc, wrote>> ELSE pc' = "reader" /\ wrote' = "false"
  /\ UNCHANGED <<inputs, next, rvars>>

\* fclose() writes the rest; its result is not looked at.
CloseOutput ==
  /\ pc = "pixels" /\ next > Pixels
  /\ file' = Flush /\ buffer' = <<>>
  /\ wrote' = "true" /\ pc' = "reader"
  /\ UNCHANGED <<inputs, next, rvars>>

-----------------------------------------------------------------------------
(* ReadImage                                                               *)

\* fgets() leaves the line alone at the end of the file.
Fgets == line' = (IF pos <= Len(file) THEN file[pos] ELSE line) /\ pos' = pos + 1

Result(r) == read' = r /\ pc' = "done"

\* The file cannot be opened or lacks the magic number.
Refuse ==
  /\ pc = "reader" /\ file = <<>>
  /\ Result("false")
  /\ UNCHANGED <<inputs, wvars, pos, line, got, brightest>>

ReadMagic ==
  /\ pc = "reader" /\ file # <<>>
  /\ pos' = 2 /\ line' = file[1] /\ pc' = "comments"
  /\ UNCHANGED <<inputs, wvars, got, brightest, read>>

\* A reader that expects no comment.
SkipNone ==
  /\ pc = "comments"
  /\ Fgets /\ pc' = "size"
  /\ UNCHANGED <<inputs, wvars, got, brightest, read>>

\* do fgets() while (*line == '#'); pos stops to count at the end of the file.
SkipComments ==
  /\ pc = "comments"
  /\ line' = IF pos <= Len(file) THEN file[pos] ELSE line
  /\ pos' = IF pos <= Len(file) THEN pos + 1 ELSE pos
  /\ pc' = IF line'.kind = "#" THEN "comments" ELSE "size"
  /\ UNCHANGED <<inputs, wvars, got, brightest, read>>

\* Without a size, rows and columns are uninitialised.
ReadSize ==
  /\ pc = "size" /\ line.kind = "size"
  /\ Fgets /\ pc' = "bytes"  \* the levels, of which nothing here depends
  /\ UNCHANGED <<inputs, wvars, got, brightest, read>>

ReadNoSize ==
  /\ pc = "size" /\ line.kind # "size"
  /\ Result("undefined")
  /\ UNCHANGED <<inputs, wvars, pos, line, got, brightest>>

byte == IF pos <= Len(file) THEN file[pos].val ELSE EOF

\* Program 1 compares before it looks for the end of the file.
Thresholded(b, t) == IF program = 1 THEN (IF b < t THEN 0 ELSE 255) ELSE b

\* brightest from the second pixel on.
ReadByteSkipsFirst ==
  /\ pc = "bytes" /\ Len(got) < Pixels /\ Thresholded(byte, threshold) # EOF
  /\ got' = Append(got, Thresholded(byte, threshold))
  /\ brightest' = IF Len(got) > 0 /\ byte > brightest THEN byte ELSE brightest
  /\ pos' = pos + 1
  /\ UNCHANGED <<inputs, wvars, pc, line, read>>

ReadByte ==
  /\ pc = "bytes" /\ Len(got) < Pixels /\ Thresholded(byte, threshold) # EOF
  /\ got' = Append(got, Thresholded(byte, threshold))
  /\ brightest' = IF byte > brightest THEN byte ELSE brightest
  /\ pos' = pos + 1
  /\ UNCHANGED <<inputs, wvars, pc, line, read>>

\* A short file taken for one that goes on with black.
ReadPastEnd ==
  /\ pc = "bytes" /\ Len(got) < Pixels /\ Thresholded(byte, threshold) = EOF
  /\ got' = Append(got, 0)
  /\ UNCHANGED <<inputs, pc, wvars, pos, line, brightest, read>>

ReadShort ==
  /\ pc = "bytes" /\ Len(got) < Pixels /\ Thresholded(byte, threshold) = EOF
  /\ Result("false")
  /\ UNCHANGED <<inputs, wvars, pos, line, got, brightest>>

Count(v) == Cardinality({k \in DOMAIN got : got[k] = v})

\* calculateCenterOfBrightest() and findCenterAndRadius() divide by a count.
Evaluate ==
  /\ pc = "bytes" /\ Len(got) = Pixels
  /\ Result(IF Count(brightest) = 0 \/ (program = 1 /\ Count(255) = 0)
            THEN "crash" ELSE "true")
  /\ UNCHANGED <<inputs, wvars, pos, line, got, brightest>>

Init ==
  /\ image \in [1..Pixels -> Value] /\ room \in Room
  /\ program \in Program /\ threshold \in Threshold
  /\ pc = "write" /\ buffer = <<>> /\ file = <<>> /\ next = 1 /\ wrote = "none"
  /\ pos = 1 /\ line = Cell("none", 0) /\ got = <<>> /\ brightest = 0 /\ read = "none"

WriteImage == CannotOpen \/ WriteHeader \/ Put \/ PutFlushes \/ CloseOutput
ReadImage ==
  \/ Refuse \/ ReadMagic \/ SkipComments \/ ReadSize \/ ReadNoSize
  \/ ReadByte \/ ReadShort \/ Evaluate

Next == WriteImage \/ ReadImage

Spec == Init /\ [][Next]_vars

-----------------------------------------------------------------------------
(* Properties                                                              *)

Cells == [kind: {"none", "P5", "#", "size", "levels", "byte"}, val: Int]

TypeOK ==
  /\ pc \in {"write", "pixels", "reader", "comments", "size", "bytes", "done"}
  /\ buffer \in Seq(Cells) /\ Len(buffer) <= BufferCells
  /\ file \in Seq(Cells) /\ Len(file) <= room
  /\ next \in 1..Pixels + 1 /\ wrote \in {"none", "true", "false"}
  /\ pos \in 1..Len(Whole) + 2 /\ line \in Cells
  /\ got \in Seq(0..255) /\ brightest \in 0..255
  /\ read \in {"none", "true", "false", "undefined", "crash"}

\* Wherever the disk was full and whatever the two sides did not notice, what
\* program 2 reads with success is the image that was to be written, modulo
\* 256: every cut of the file is found.
ReadIsWhatWasWritten ==
  program = 2 /\ read = "true" => got = [k \in 1..Pixels |-> image[k] % 256]

\* A whole file is never refused.
WholeIsAccepted == read \in {"false", "undefined"} => file # Whole

\* Program 2 divides by no zero: it takes brightest from the pixels it counts.
\* Program 1 does only if no pixel has the value 255, or the file is cut.
CrashesAre ==
  read = "crash" =>
    /\ program = 1
    /\ file = Whole => \A k \in 1..Pixels : image[k] % 256 # 255

\* What is read from a file, whole or cut, is what was written or an error.
FileIsReadRight ==
  /\ TypeOK /\ ReadIsWhatWasWritten
  /\ WholeIsAccepted /\ CrashesAre
=============================================================================
