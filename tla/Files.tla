------------------------------- MODULE Files --------------------------------
(***************************************************************************)
(* The programs that work on files: the log of LeeHomework5, the directory *)
(* tree that LeeHomework4 walks, the books.txt that LeeHomework2 edits and *)
(* the images of vision.  Each is an instance of its own module.           *)
(***************************************************************************)
EXTENDS Integers, Sequences

CONSTANTS
  Logger, Began, MaxTime,                           \* TimeLog
  Name, NameLen, Kind, NAME_MAX, PATH_MAX, StartLen,
  MaxDepth, MaxFiles, MaxChanges,                   \* DirectoryWalk
  Editor, Word, Row, InitRows, MaxEdits,            \* BookFile
  Pixels, Value, Levels, Threshold, Program, Room, BufferCells  \* PgmFiles

VARIABLES
  pc,
  now, writable, file, prevTime, currSec, offset, wake, log, disturbed,
  tree, changes, touched, fullpath, slash, pathlen, startLen, stack, count, seen, missed,
  books, edits, buf, junk, row, todo, at, edit, rows, overlapped, cut,
  picture, room, version, threshold, stream, pgm, pixel, wrote, pos, line,
  got, brightest, loaded

Time == INSTANCE TimeLog WITH Start <- Began
Dir == INSTANCE DirectoryWalk
Book == INSTANCE BookFile WITH file <- books, offset <- at
Pgm == INSTANCE PgmFiles WITH
         image <- picture, program <- version, buffer <- stream, file <- pgm,
         next <- pixel, read <- loaded

ASSUME FilesAssumption ==
  /\ Time!TimeLogAssumption /\ Dir!DirectoryWalkAssumption
  /\ Book!BookFileAssumption /\ Pgm!PgmAssumption
=============================================================================
