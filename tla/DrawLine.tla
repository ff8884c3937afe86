------------------------------ MODULE DrawLine -------------------------------
(***************************************************************************)
(* vision: DrawLine(), the incremental midpoint algorithm.  The code has   *)
(* it twice, for lines that are wider than high (DIR_X) and for the others *)
(* (DIR_Y), with x and y exchanged.  Here u is the coordinate that every   *)
(* step increments, v the other one.                                       *)
(***************************************************************************)
EXTENDS Integers

CONSTANTS
  Coord,      \* coordinates of the end points
  Rows, Cols  \* size of the image

\* Bound: the greatest number whose square fits an int of 32 bits.  The code
\* compares dx * dx with dy * dy; end points further apart overflow there.
MaxSpan == 46340

DrawLineAssumption ==
  /\ Coord \subseteq Int /\ Rows \in Nat /\ Cols \in Nat
  /\ \A a, b \in Coord : a - b <= MaxSpan

VARIABLES
  x0, y0, x1, y1,  \* arguments
  ignore,          \* SetPixel() of IraLeeHW4 may be told to ignore, or aborts
  pc,
  dir,             \* "x" or "y"
  umin, umax, vmin, vmax, u, v, d,
  image            \* the pixels drawn

args == <<x0, y0, x1, y1, ignore>>
ends == <<dir, umin, umax, vmin, vmax>>
vars == <<args, ends, pc, u, v, d, image>>

du == umax - umin
dv == vmax - vmin

\* The end points in the order of the scan, as <<umin, umax, vmin, vmax>>; the
\* first of them swapped only.
OrderedSwapOne(a, b, p, q) == IF b < a THEN <<b, a, p, q>> ELSE <<a, b, p, q>>
Ordered(a, b, p, q) == IF b < a THEN <<b, a, q, p>> ELSE <<a, b, p, q>>

Wider == (x1 - x0) * (x1 - x0) > (y1 - y0) * (y1 - y0)

\* The first decision of case 1 for both.
FirstDOfCase1(lu, lv) == 2 * lv - lu

\* The first decision; the case depends on the sign of dv.
FirstD(lu, lv) == IF lv >= 0 THEN 2 * lv - lu ELSE 2 * lv + lu

Setup ==
  /\ pc = "setup"
  /\ dir' = IF Wider THEN "x" ELSE "y"
  /\ LET o == IF Wider THEN Ordered(x0, x1, y0, y1) ELSE Ordered(y0, y1, x0, x1)
     IN  /\ umin' = o[1] /\ umax' = o[2] /\ vmin' = o[3] /\ vmax' = o[4]
         /\ u' = o[1] /\ v' = o[3]
         /\ d' = FirstD(o[2] - o[1], o[4] - o[3])
  /\ pc' = "pixel"
  /\ UNCHANGED <<args, image>>

\* <<x, y>>
Here == IF dir = "x" THEN <<u, v>> ELSE <<v, u>>
Inside(p) == p[1] \in 0..Rows - 1 /\ p[2] \in 0..Cols - 1

SetPixel ==
  /\ pc = "pixel" /\ (Inside(Here) \/ ignore)
  /\ image' = IF Inside(Here) THEN image \cup {Here} ELSE image
  /\ pc' = "move"
  /\ UNCHANGED <<args, ends, u, v, d>>

\* A SetPixel() that does not look at what it is told.
SetPixelNeverIgnores ==
  /\ pc = "pixel" /\ ~Inside(Here)
  /\ pc' = "aborted"
  /\ UNCHANGED <<args, ends, u, v, d, image>>

\* abort(), against the word of image.h:77 that end points can lie outside.
SetPixelAborts ==
  /\ pc = "pixel" /\ ~Inside(Here) /\ ~ignore
  /\ pc' = "aborted"
  /\ UNCHANGED <<args, ends, u, v, d, image>>

\* incrE; the other coordinate stays.
MoveE ==
  /\ pc = "move" /\ u < umax /\ IF dv >= 0 THEN d <= 0 ELSE d > 0
  /\ u' = u + 1 /\ v' = v /\ d' = d + 2 * dv
  /\ pc' = "pixel"
  /\ UNCHANGED <<args, ends, image>>

\* The increment of the other case.
MoveNEWithSE ==
  /\ pc = "move" /\ u < umax /\ dv >= 0 /\ d > 0
  /\ u' = u + 1 /\ v' = v + 1 /\ d' = d + 2 * (dv + du)
  /\ pc' = "pixel"
  /\ UNCHANGED <<args, ends, image>>

\* incrNE, case 1
MoveNE ==
  /\ pc = "move" /\ u < umax /\ dv >= 0 /\ d > 0
  /\ u' = u + 1 /\ v' = v + 1 /\ d' = d + 2 * (dv - du)
  /\ pc' = "pixel"
  /\ UNCHANGED <<args, ends, image>>

\* incrSE, case 2, without the decision's sum.
MoveSEForgetsD ==
  /\ pc = "move" /\ u < umax /\ dv < 0 /\ d <= 0
  /\ u' = u + 1 /\ v' = v - 1 /\ UNCHANGED d
  /\ pc' = "pixel"
  /\ UNCHANGED <<args, ends, image>>

\* incrSE, case 2
MoveSE ==
  /\ pc = "move" /\ u < umax /\ dv < 0 /\ d <= 0
  /\ u' = u + 1 /\ v' = v - 1 /\ d' = d + 2 * (dv + du)
  /\ pc' = "pixel"
  /\ UNCHANGED <<args, ends, image>>

Finish ==
  /\ pc = "move" /\ u >= umax
  /\ pc' = "done"
  /\ UNCHANGED <<args, ends, u, v, d, image>>

Init ==
  /\ x0 \in Coord /\ y0 \in Coord /\ x1 \in Coord /\ y1 \in Coord
  /\ ignore \in BOOLEAN
  /\ pc = "setup" /\ dir = "x" /\ image = {}
  /\ umin = 0 /\ umax = 0 /\ vmin = 0 /\ vmax = 0 /\ u = 0 /\ v = 0 /\ d = 0

Next == Setup \/ SetPixel \/ SetPixelAborts \/ MoveE \/ MoveNE \/ MoveSE \/ Finish

\* A sequential function that runs.
Spec == Init /\ [][Next]_vars /\ WF_vars(Next)

-----------------------------------------------------------------------------
(* Properties                                                              *)

\* Types; the decision stays between bounds that fit an int when du does four
\* times.
TypeOK ==
  /\ x0 \in Int /\ y0 \in Int /\ x1 \in Int /\ y1 \in Int /\ ignore \in BOOLEAN
  /\ pc \in {"setup", "pixel", "move", "done", "aborted"} /\ dir \in {"x", "y"}
  /\ umin \in Int /\ umax \in Int /\ vmin \in Int /\ vmax \in Int
  /\ u \in Int /\ v \in Int /\ d \in Int
  /\ \A p \in image : p \in Int \X Int
  /\ pc # "setup" => -2 * du <= d /\ d <= 2 * du

\* The line is never further from the pixel than half a pixel, measured along
\* v: rounding errors do not add up, in either direction and either case.
OnTheLine ==
  pc # "setup" =>
    LET error == 2 * ((v - vmin) * du - (u - umin) * dv)
    IN  -du <= error /\ error <= du

\* The scan that looks at u only ends at the other end point.
EndsAtTheEnd ==
  pc = "done" => u = umax /\ v = vmax

\* Nothing is drawn outside the image, and the line's end points are drawn
\* when they lie inside.
DrawsTheEnds ==
  /\ \A p \in image : p[1] \in 0..Rows - 1 /\ p[2] \in 0..Cols - 1
  /\ pc = "done" => \A p \in {<<x0, y0>>, <<x1, y1>>} : Inside(p) => p \in image

\* "(x0,y0) and (x1,y1) can lie outside the image boundaries, so SetPixel()
\* should check the coordinates passed to it" (image.h:77).  Of the two
\* versions only the one that may be told to ignore a pixel keeps that word: it
\* never aborts.  The other aborts for every line with an end point outside,
\* and for no other.
AbortsForEndsOutside ==
  LET inside == \A p \in {<<x0, y0>>, <<x1, y1>>} : Inside(p)
  IN  /\ pc = "aborted" => ~ignore /\ ~inside
      /\ pc = "done" => ignore \/ inside

\* What the comment promises, of the version that calls SetPixel(x, y, color).
EndsMayLieOutside == pc # "aborted"

\* The pixels drawn are the line, from end to end; it aborts for end points
\* outside the image, which the comment allows (find_outside).
LineIsRight ==
  /\ TypeOK /\ OnTheLine
  /\ EndsAtTheEnd /\ DrawsTheEnds
  /\ AbortsForEndsOutside
=============================================================================
