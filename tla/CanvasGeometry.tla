----------------------------- MODULE CanvasGeometry ----------------------------
(***************************************************************************)
(* Moving and resizing a widget on the canvas of the scene editor          *)
(* (pages/SceneEditor.tsx): beginDrag, beginResize, the arrow keys and the *)
(* number fields, with their snapping, minimum size and rounding.          *)
(*                                                                         *)
(* The two axes are computed alike and apart: this is one of them.         *)
(* Lengths are in half pixels of the canvas, the finest position of the    *)
(* pointer here; the numbers typed into the fields are whole pixels.       *)
(***************************************************************************)
EXTENDS Integers, FiniteSets, SequencesExt

CONSTANTS
  SafeWidth,   \* width of the canvas
  MinSize,     \* MIN_SIZE
  Threshold,   \* SNAP_PX at the current scale
  Neighbours,  \* the other visible widgets: records with x and width
  MaxLeft,     \* bound: a left edge at rest lies in 0 .. MaxLeft,
  MaxWidth,    \*   a width at rest below or at MaxWidth,
  MaxPull      \* bound: distance of the pointer from where it went down

Px == 2
Even(n) == n % Px = 0

ASSUME CanvasAssumption ==
  /\ {SafeWidth, MinSize, Threshold, MaxLeft, MaxWidth, MaxPull} \subseteq Nat
  /\ Even(SafeWidth) /\ Even(MinSize)
  /\ Neighbours \subseteq [x : Int, width : Nat] /\ MinSize <= MaxWidth
  /\ \A o \in Neighbours : Even(o.x) /\ Even(o.width) /\ o.width >= MinSize

VARIABLES
  left,     \* w.x of the selected widget
  width,    \* w.width
  gesture   \* what the pointer is doing, where the widget was, and the guide shown

canvasVars == <<left, width, gesture>>

NoGesture == [kind |-> "none", x |-> 0, width |-> 0, guide |-> FALSE]
AtRest == {v \in 0 .. MaxLeft : Even(v)} \X {v \in MinSize .. MaxWidth : Even(v)}

CanvasTypeOK ==
  /\ left \in Int /\ width \in Nat
  /\ gesture \in [kind : {"none", "drag", "left", "right"}, x : 0 .. MaxLeft,
                  width : 0 .. MaxWidth, guide : BOOLEAN]

\* The fields lead from here to every other place.
CanvasInit == left = 0 /\ width = MinSize /\ gesture = NoGesture

-----------------------------------------------------------------------------
\* Math.round, for which a half goes up.
Round(v) == Px * ((v + 1) \div Px)

Distance(v, t) == IF v < t THEN t - v ELSE v - t

\* A target as near as any; among equals nearest() takes the last of its list.
Nearest(v, targets) ==
  {t \in targets : /\ Distance(v, t) <= Threshold
                   /\ \A u \in targets : Distance(v, t) <= Distance(v, u)}

Edges(x, w) == {x, x + w}
Anchors(x, w) == {x, x + w \div 2, x + w}

\* The edges of the canvas and of the neighbours; a drag also looks for centres.
ResizeTargets == Edges(0, SafeWidth) \cup UNION {Edges(o.x, o.width) : o \in Neighbours}
DragTargets == Anchors(0, SafeWidth) \cup UNION {Anchors(o.x, o.width) : o \in Neighbours}

\* snapEdges: the shift that brings one of three edges onto a target.
Shifts(x, w) ==
  LET gaps == {t - e : e \in Anchors(x, w), t \in DragTargets}
  IN {g \in gaps : /\ Distance(g, 0) <= Threshold
                   /\ \A h \in gaps : Distance(g, 0) <= Distance(h, 0)}

\* Mutant of LeftClamped: only the width is kept from shrinking.
WidthClamped(x, right) == [x |-> x, width |-> IF right - x < MinSize THEN MinSize ELSE right - x]

\* The left edge stops where the widget would get too small.
LeftClamped(x, right) ==
  LET l == IF right - x < MinSize THEN right - MinSize ELSE x
  IN [x |-> l, width |-> right - l]

AtLeast(min, v) == IF v < min THEN min ELSE v

-----------------------------------------------------------------------------
BeginGesture(kind) ==
  /\ gesture.kind = "none"
  /\ gesture' = [kind |-> kind, x |-> left, width |-> width, guide |-> FALSE]
  /\ UNCHANGED <<left, width>>

\* mousemove while dragging: always from where the widget was at first.
MoveDragged(pull) ==
  LET x == gesture.x + pull IN
  /\ gesture.kind = "drag"
  /\ \/ Shifts(x, gesture.width) = {} /\ left' = x
     \/ \E g \in Shifts(x, gesture.width) : left' = x + g
  /\ gesture' = [gesture EXCEPT !.guide = Shifts(x, gesture.width) # {}]
  /\ UNCHANGED width

\* mousemove with the handle on the right.
MoveRight(pull) ==
  LET right == gesture.x + AtLeast(MinSize, gesture.width + pull)
      near  == Nearest(right, ResizeTargets) IN
  /\ gesture.kind = "right"
  /\ left' = gesture.x
  /\ \E r \in IF near = {} THEN {right} ELSE near : width' = AtLeast(MinSize, r - gesture.x)
  /\ gesture' = [gesture EXCEPT !.guide = near # {}]

\* And on the left: the snapped edge may come too close to the other one, and
\* the minimum size then pushes that one away.
MoveLeft(pull) ==
  LET clamped == LeftClamped(gesture.x + pull, gesture.x + gesture.width)
      right   == clamped.x + clamped.width
      near    == Nearest(clamped.x, ResizeTargets) IN
  /\ gesture.kind = "left"
  /\ \E l \in IF near = {} THEN {clamped.x} ELSE near :
       left' = l /\ width' = AtLeast(MinSize, right - l)
  /\ gesture' = [gesture EXCEPT !.guide = near # {}]

Bounded == <<left', width'>> \in AtRest

\* mouseup: the live position becomes whole pixels.
Release ==
  /\ gesture.kind # "none" /\ gesture' = NoGesture
  /\ left' = Round(left)
  /\ width' = IF gesture.kind = "drag" THEN width ELSE Round(width)
  /\ Bounded

\* The arrow keys work in the middle of a gesture too, until the pointer moves.
Nudge(step) ==
  /\ left' = left + step * Px
  /\ left' \in 0 .. MaxLeft
  /\ UNCHANGED <<width, gesture>>

EnterLeft(v) ==
  /\ gesture.kind = "none"
  /\ left' = v /\ UNCHANGED <<width, gesture>> /\ Bounded

EnterWidth(v) ==
  /\ gesture.kind = "none"
  /\ width' = AtLeast(MinSize, v) /\ UNCHANGED <<left, gesture>> /\ Bounded

CanvasNext ==
  \/ \E k \in {"drag", "left", "right"} : BeginGesture(k)
  \/ \E pull \in -MaxPull .. MaxPull : MoveDragged(pull) \/ MoveRight(pull) \/ MoveLeft(pull)
  \/ Release
  \/ \E step \in {-10, -1, 1, 10} : Nudge(step)
  \/ \E v \in 0 .. MaxWidth : Even(v) /\ (EnterLeft(v) \/ EnterWidth(v))

CanvasSpec == CanvasInit /\ [][CanvasNext]_canvasVars

-----------------------------------------------------------------------------
(* Properties. *)

\* Pulling a handle leaves the opposite edge where it was, however far the
\* pointer goes and whatever it snaps to, and letting go moves it by no more than
\* the pixel that rounding both the position and the width may add; except that
\* a left edge snapped closer than the minimum size pushes the right edge.  The arrow
\* keys move the whole widget, by one pixel or ten.
OppositeEdgeHeld ==
  [][gesture.kind \in {"left", "right"} =>
       LET right == gesture.x + gesture.width IN
       \/ left' + width' - (left + width) \in 0 .. Px /\ gesture' = NoGesture
       \/ gesture.kind = "right" /\ left' = gesture.x
       \/ gesture.kind = "left" /\ left' + width' = right
       \/ /\ gesture.kind = "left" /\ width' = MinSize /\ gesture'.guide
          /\ right - left' < MinSize
       \/ /\ width' = width /\ gesture' = gesture
          /\ Distance(left', left) \in {Px, 10 * Px}]_canvasVars
=============================================================================
