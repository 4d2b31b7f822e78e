---------------------------- MODULE LayoutEditor ----------------------------
(***************************************************************************)
(* The layout of a draft as the terminal and the Omarchy panel edit it     *)
(* (profile/editor.go, profile/placement.go, tui/canvas_placement.go):     *)
(* displays are rectangles on a grid, an edit of one may resize, move,     *)
(* mirror or switch it, the displays beside it are carried along with its  *)
(* edges, and what overlaps then is moved to the nearest clear edge.       *)
(*                                                                         *)
(* A mode and its scale are a size; of the eight transforms only whether   *)
(* they turn the display on its side is kept.                              *)
(***************************************************************************)
EXTENDS Integers, Sequences, FiniteSets, FiniteSetsExt

CONSTANTS
  Count,      \* displays, numbered in the order of the draft
  Sizes,      \* <<width, height>> of the modes, NoMode for a display without a signal
  Coords,     \* coordinates that can be typed or dragged to
  Arrangements, \* layouts that can be loaded
  MaxEdits, MaxDrags, MaxLoads

VARIABLES
  outputs,    \* editOutputs, or the draft a panel sends with an edit
  drag,       \* canvasDragState
  mode,       \* "main", or "dialog" while one is open
  excused,    \* history: an overlap was loaded, or a drag lost its release
  edits, drags, loads

draftVars == <<outputs, drag, mode, excused, edits, drags, loads>>

Displays == 1..Count

NoMode == <<0, 0>>

NotMirroring == 0

\* The choice that makes the panel follow the device.
FollowsDevice == 2

NoDrag == [of |-> 0, x |-> 0, y |-> 0, moved |-> FALSE]

Placements ==
  [x : Int, y : Int, size : Sizes, turn : 0..1, auto : BOOLEAN, upright : 0..1,
   on : BOOLEAN, mirror : 0..Count]

\* Sizes are widths and heights, and a layout that is loaded has a place for each display.
ASSUME EditorAssumption ==
  /\ Count \in Nat /\ Sizes \subseteq Nat \X Nat /\ Coords \subseteq Int
  /\ Arrangements \subseteq [Displays -> Placements]
  /\ MaxEdits \in Nat /\ MaxDrags \in Nat /\ MaxLoads \in Nat

-----------------------------------------------------------------------------
\* Geometry.

Width(o) == Max({1, IF o.turn = 1 THEN o.size[2] ELSE o.size[1]})

Height(o) == Max({1, IF o.turn = 1 THEN o.size[1] ELSE o.size[2]})

Box(o) == [left |-> o.x, right |-> o.x + Width(o), top |-> o.y, bottom |-> o.y + Height(o)]

SpansOverlap(a1, a2, b1, b2) == a1 < b2 /\ a2 > b1

SameRow(a, b) == SpansOverlap(a.top, a.bottom, b.top, b.bottom)

SameColumn(a, b) == SpansOverlap(a.left, a.right, b.left, b.right)

Overlap(a, b) == SameRow(a, b) /\ SameColumn(a, b)

Touching(a, b) ==
  a.left <= b.right /\ a.right >= b.left /\ a.top <= b.bottom /\ a.bottom >= b.top

Cornered(a, b) ==
  (a.right = b.left \/ b.right = a.left) /\ (a.bottom = b.top \/ b.bottom = a.top)

Placeable(o) == o.on /\ o.mirror = NotMirroring

Reflowable(o) == Placeable(o) /\ o.size # NoMode

\* ValidateLayout
Clear(ds) ==
  \A d, e \in Displays :
    d # e /\ Reflowable(ds[d]) /\ Reflowable(ds[e]) => ~Overlap(Box(ds[d]), Box(ds[e]))

MoveTo(o, x, y) == [o EXCEPT !.x = x, !.y = y]

-----------------------------------------------------------------------------
\* ReflowAfterResize: display d had this old width and height. What is past one of
\* its old edges moves with that edge when it is attached to d, or to what moves.

\* Mutant: what stands right at the edge is not past it.
BeyondRight(ds, d, old, e) == Width(ds[d]) # old.width /\ ds[e].x > ds[d].x + old.width

PastRight(ds, d, old, e) == Width(ds[d]) # old.width /\ ds[e].x >= ds[d].x + old.width

PastBottom(ds, d, old, e) == Height(ds[d]) # old.height /\ ds[e].y >= ds[d].y + old.height

Shifted(ds, d, old, e) ==
  MoveTo(ds[e],
         IF PastRight(ds, d, old, e) THEN ds[e].x + Width(ds[d]) - old.width ELSE ds[e].x,
         IF PastBottom(ds, d, old, e) THEN ds[e].y + Height(ds[d]) - old.height ELSE ds[e].y)

\* Its row and column span what d was and what it is now.
Attached(ds, d, old, e) ==
  LET o == ds[d]
      was == [Box(o) EXCEPT !.right = o.x + old.width, !.bottom = o.y + old.height]
      span == [Box(o) EXCEPT !.right = o.x + Max({old.width, Width(o)}),
                             !.bottom = o.y + Max({old.height, Height(o)})]
      b == Box(ds[e])
  IN \/ Touching(b, was)
     \/ Overlap(b, Box(o))
     \/ PastRight(ds, d, old, e) /\ SameRow(b, span)
     \/ PastBottom(ds, d, old, e) /\ SameColumn(b, span)

Linked(ds, d, old, a, b) ==
  LET right(e) == PastRight(ds, d, old, e)
      below(e) == PastBottom(ds, d, old, e)
      A == Box(ds[a])
      B == Box(ds[b])
  IN \/ right(a) /\ right(b) /\ SameRow(A, B)
     \/ below(a) /\ below(b) /\ SameColumn(A, B)
     \/ right(a) = right(b) /\ below(a) = below(b) /\ Cornered(A, B)
     \/ Overlap(Box(Shifted(ds, d, old, a)), B)

\* The least set with the attached displays that is closed under links.
Moving(ds, d, old) ==
  LET candidates == {e \in Displays \ {d} :
                       Reflowable(ds[e]) /\ (PastRight(ds, d, old, e) \/ PastBottom(ds, d, old, e))}
      closed == {M \in SUBSET candidates :
                   /\ \A e \in candidates : Attached(ds, d, old, e) => e \in M
                   /\ \A a \in M, b \in candidates : Linked(ds, d, old, a, b) => b \in M}
  IN {e \in candidates : \A M \in closed : e \in M}

Reflow(ds, d, old) ==
  IF ~Reflowable(ds[d]) \/ (Width(ds[d]) = old.width /\ Height(ds[d]) = old.height)
    THEN ds
    ELSE LET moving == Moving(ds, d, old)
         IN [e \in Displays |-> IF e \in moving THEN Shifted(ds, d, old, e) ELSE ds[e]]

-----------------------------------------------------------------------------
\* Placement. "order" is the sequence the draft's displays are in: it breaks ties.

DraftOrder == [d \in Displays |-> d]

\* The displays of a set, as the draft has them.
InOrder(K) == [n \in 1..Cardinality(K) |-> CHOOSE d \in K : Cardinality({e \in K : e <= d}) = n]

\* Normalize sorts the displays that are on before the others.
SortedOrder(ds) ==
  InOrder({d \in Displays : ds[d].on}) \o InOrder({d \in Displays : ~ds[d].on})

\* Candidates are numbered: each display of an order has four, one after the other.
Candidates(order) == 1..(4 * Len(order))

Beside(order, k) == order[1 + (k - 1) \div 4]

Side(k) == (k - 1) % 4

\* The first of the places at the least distance, of those with the numbers K.
Nearest(K, place, distance) ==
  LET least == Min({distance[k] : k \in K})
  IN place[Min({k \in K : distance[k] = least})]

SquareDistance(o, p) == (p[1] - o.x) * (p[1] - o.x) + (p[2] - o.y) * (p[2] - o.y)

Covered(ds, d, place) ==
  \E e \in Displays \ {d} :
    Reflowable(ds[e]) /\ Overlap(Box(MoveTo(ds[d], place[1], place[2])), Box(ds[e]))

\* Flush against another display, on either axis.
Edges(ds, d, order) ==
  LET o == ds[d]
  IN [k \in Candidates(order) |->
        LET b == Box(ds[Beside(order, k)])
        IN CASE Side(k) = 0 -> <<b.left - Width(o), o.y>>
             [] Side(k) = 1 -> <<b.right, o.y>>
             [] Side(k) = 2 -> <<o.x, b.top - Height(o)>>
             [] OTHER -> <<o.x, b.bottom>>]

ClearEdges(ds, d, order) ==
  {k \in Candidates(order) :
     Beside(order, k) # d /\ Reflowable(ds[Beside(order, k)]) /\ ~Covered(ds, d, Edges(ds, d, order)[k])}

\* PlaceOutsideOverlaps
PlaceOutside(ds, d, order) ==
  LET o == ds[d]
      edges == Edges(ds, d, order)
      clear == ClearEdges(ds, d, order)
      best == Nearest(clear, edges, [k \in clear |-> SquareDistance(o, edges[k])])
  IN IF ~Reflowable(o) \/ ~Covered(ds, d, <<o.x, o.y>>) \/ clear = {} THEN ds
     ELSE [ds EXCEPT ![d] = MoveTo(@, best[1], best[2])]

\* Mutant: only the edited display is cleared.
ResolvesOne(ds, d, order) == PlaceOutside(ds, d, order)

\* ResolveLayoutOverlaps: the edited display first, then the others in their order.
ResolveOverlaps(ds, d, order) ==
  LET after[n \in 0..Len(order)] ==
        IF n = 0 THEN PlaceOutside(ds, d, order)
        ELSE IF order[n] = d THEN after[n - 1]
        ELSE PlaceOutside(after[n - 1], order[n], order)
  IN after[Len(order)]

\* AnalyzeSnap and ApplySnap, one axis at a time: edges that would meet count only in
\* the same row or column, edges that would line up always, and so does zero, last.
Zero(order) == 4 * Len(order) + 1

Start(ds, e, axis) == IF axis = "x" THEN ds[e].x ELSE ds[e].y

Extent(ds, e, axis) == IF axis = "x" THEN Width(ds[e]) ELSE Height(ds[e])

Meets(ds, d, e, axis) ==
  IF axis = "x" THEN SameRow(Box(ds[d]), Box(ds[e])) ELSE SameColumn(Box(ds[d]), Box(ds[e]))

SnapPlaces(ds, d, order, axis) ==
  [k \in Candidates(order) \cup {Zero(order)} |->
     IF k = Zero(order) THEN 0
     ELSE LET e == Beside(order, k)
              start == Start(ds, e, axis)
              end == start + Extent(ds, e, axis)
          IN CASE Side(k) = 0 -> start - Extent(ds, d, axis)
               [] Side(k) = 1 -> end
               [] Side(k) = 2 -> start
               [] OTHER -> end - Extent(ds, d, axis)]

Snaps(ds, d, order, axis) ==
  {Zero(order)} \cup
  {k \in Candidates(order) :
     /\ Beside(order, k) # d /\ Placeable(ds[Beside(order, k)])
     /\ Side(k) < 2 => Meets(ds, d, Beside(order, k), axis)}

Snapped(ds, d, distance, order, axis) ==
  LET at == Start(ds, d, axis)
      places == SnapPlaces(ds, d, order, axis)
      Dist(p) == IF p < at THEN at - p ELSE p - at
      best == Nearest(Snaps(ds, d, order, axis), places, [k \in DOMAIN places |-> Dist(places[k])])
  IN IF Dist(best) <= distance THEN best ELSE at

ApplySnap(ds, d, distance, order) ==
  IF ~ds[d].on THEN ds
  ELSE [ds EXCEPT ![d] = MoveTo(@, Snapped(ds, d, distance, order, "x"),
                                   Snapped(ds, d, distance, order, "y"))]

ResolveDrop(ds, d, distance, order) == PlaceOutside(ApplySnap(ds, d, distance, order), d, order)

\* MoveOutput, for a display that mirrors none: one that is off is only written down.
MoveOutput(ds, d, x, y, distance, order) ==
  LET put == [ds EXCEPT ![d] = MoveTo(@, x, y)]
      dropped == IF distance > 0 THEN ResolveDrop(put, d, distance, order) ELSE put
  IN IF ds[d].on THEN ResolveOverlaps(dropped, d, order) ELSE put

\* NearestAnchor, on twice the coordinates so that centres are whole.
Anchors(ds, d, order) ==
  {k \in DOMAIN order : order[k] # d /\ Placeable(ds[d]) /\ Placeable(ds[order[k]])}

Centre(o) == <<2 * o.x + Width(o), 2 * o.y + Height(o)>>

NearestAnchor(ds, d, order) ==
  LET c == Centre(ds[d])
      Dist(e) == LET k == Centre(ds[e])
                 IN (c[1] - k[1]) * (c[1] - k[1]) + (c[2] - k[2]) * (c[2] - k[2])
  IN Nearest(Anchors(ds, d, order), order, [k \in DOMAIN order |-> Dist(order[k])])

\* Go's division rounds towards zero.
Half(n) == IF n < 0 THEN -((-n) \div 2) ELSE n \div 2

BesidePosition(o, other, direction) ==
  LET b == Box(other)
  IN CASE direction = "left" -> <<b.left - Width(o), other.y + Half(Height(other) - Height(o))>>
       [] direction = "right" -> <<b.right, other.y + Half(Height(other) - Height(o))>>
       [] direction = "above" -> <<other.x + Half(Width(other) - Width(o)), b.top - Height(o)>>
       [] direction = "below" -> <<other.x + Half(Width(other) - Width(o)), b.bottom>>

-----------------------------------------------------------------------------
\* RememberRotationUpright, for a panel whose rotation choice was "was".
RememberUpright(was, now) ==
  IF was.auto /\ ~now.auto /\ now.turn = 0 THEN [now EXCEPT !.upright = was.turn]
  ELSE IF ~was.auto /\ now.auto /\ now.turn = 0
         THEN [now EXCEPT !.turn = now.upright, !.upright = 0]
  ELSE IF now.auto \/ now.turn # 0 THEN [now EXCEPT !.upright = 0]
  ELSE now

\* The rotation list: Auto keeps the rotation as the panel's upright one.
Rotated(o, choice) ==
  RememberUpright(o, IF choice = FollowsDevice THEN [o EXCEPT !.auto = TRUE]
                     ELSE [o EXCEPT !.turn = choice, !.auto = FALSE])

\* An edit of one display: what is beside it moves with its edges, and then what
\* overlaps is cleared.
Edited(ds, d, o, order) ==
  LET old == [width |-> Width(ds[d]), height |-> Height(ds[d])]
  IN ResolveOverlaps(Reflow([ds EXCEPT ![d] = o], d, old), d, order)

\* ApplyEditorEdit by a panel: x and y with a snap distance are the end of a drag,
\* and a draft with every display off is refused. Only a built-in panel, the first
\* display here, can follow the device.
PanelEdit(ds, d, o, distance) ==
  LET old == [width |-> Width(ds[d]), height |-> Height(ds[d])]
      order == SortedOrder(ds)
      edited == Reflow([ds EXCEPT ![d] = RememberUpright(ds[d], o)], d, old)
      dropped == IF distance > 0 THEN ResolveDrop(edited, d, distance, order) ELSE edited
      result == ResolveOverlaps(dropped, d, order)
  IN IF Clear(result) /\ (\E e \in Displays : result[e].on) THEN result ELSE ds

PanelEdits(o) ==
  {[o EXCEPT !.on = ~@]} \cup {[o EXCEPT !.mirror = m] : m \in 0..Count}
  \cup {[o EXCEPT !.size = s] : s \in Sizes \ {NoMode}}
  \cup {[o EXCEPT !.turn = t, !.auto = FALSE] : t \in 0..1}

-----------------------------------------------------------------------------
\* A draft starts as a layout that was read or loaded.
Opened(layout) ==
  /\ outputs = layout
  /\ excused = ~Clear(layout)

DraftInit ==
  /\ \E layout \in Arrangements : Opened(layout)
  /\ drag = NoDrag
  /\ mode = "main"
  /\ edits = 0
  /\ drags = 0
  /\ loads = 0

\* An edit leaves these outputs: the overlap it was excused for may be gone.
Becomes(ds) ==
  /\ outputs' = ds
  /\ excused' = (excused /\ ~Clear(ds))

EditsDraft ==
  /\ edits < MaxEdits
  /\ edits' = edits + 1
  /\ UNCHANGED <<drag, drags, loads>>

\* guardLayoutEdit around an inspector edit of the selected display; from a list or
\* a number dialog it closes that.
Sets(d, o) ==
  /\ EditsDraft
  /\ Becomes(Edited(outputs, d, o, DraftOrder))
  /\ mode' = "main"

Toggles(d) == mode = "main" /\ Sets(d, [outputs[d] EXCEPT !.on = ~@])

\* The size stays when what is edited is another setting, as its colours.
ChangesSize(d, s) == Sets(d, [outputs[d] EXCEPT !.size = s])

PicksRotation(d, c) == (c = FollowsDevice => d = 1) /\ Sets(d, Rotated(outputs[d], c))

\* The arrows on the rotation row leave Auto as it is.
StepsRotation(d) == mode = "main" /\ Sets(d, [outputs[d] EXCEPT !.turn = 1 - @])

Mirrors(d, e) ==
  e # d /\ e # outputs[d].mirror /\ Sets(d, [outputs[d] EXCEPT !.mirror = e])

TypesPosition(d, x, y) ==
  (x = outputs[d].x) # (y = outputs[d].y) /\ Sets(d, MoveTo(outputs[d], x, y))

\* placeSelected: refused for a display that mirrors another.
Places(d, x, y) ==
  /\ mode = "main"
  /\ EditsDraft
  /\ outputs[d].mirror = NotMirroring
  /\ Becomes(MoveOutput(outputs, d, x, y, 0, DraftOrder))
  /\ UNCHANGED <<mode>>

Nudges(d, dx, dy) == Places(d, outputs[d].x + dx, outputs[d].y + dy)

MovesToOrigin(d) == <<outputs[d].x, outputs[d].y>> # <<0, 0>> /\ Places(d, 0, 0)

PlacesBeside(d, direction) ==
  /\ Anchors(outputs, d, DraftOrder) # {}
  /\ LET other == outputs[NearestAnchor(outputs, d, DraftOrder)]
         place == BesidePosition(outputs[d], other, direction)
     IN Places(d, place[1], place[2])

\* A press on a display of the canvas. One that was being dragged, when its release
\* went to a dialog, is left where the pointer had it.
Presses(d) ==
  /\ mode = "main" /\ drags < MaxDrags
  /\ Reflowable(outputs[d])
  /\ drag' = [of |-> d, x |-> outputs[d].x, y |-> outputs[d].y, moved |-> FALSE]
  /\ drags' = drags + 1
  /\ excused' = (excused \/ ~Clear(outputs))
  /\ UNCHANGED <<outputs, mode, edits, loads>>

\* A press on the row of a display without a place on the canvas, which may enable it.
PressesHidden(d) ==
  /\ mode = "main" /\ drag # NoDrag
  /\ ~Reflowable(outputs[d])
  /\ drag' = NoDrag
  /\ \/ /\ excused' = (excused \/ ~Clear(outputs))
        /\ UNCHANGED <<outputs>>
     \/ /\ ~outputs[d].on
        /\ Becomes(Edited(outputs, d, [outputs[d] EXCEPT !.on = TRUE], DraftOrder))
  /\ UNCHANGED <<mode, edits, drags, loads>>

\* dragMotion: the draft position is the pointer's until the release.
Drags(x, y) ==
  /\ mode = "main"
  /\ drag # NoDrag
  /\ <<x, y>> # <<outputs[drag.of].x, outputs[drag.of].y>>
  /\ drag' = [drag EXCEPT !.moved = TRUE]
  /\ outputs' = [outputs EXCEPT ![drag.of] = MoveTo(@, x, y)]
  /\ UNCHANGED <<mode, excused, edits, drags, loads>>

\* dragRelease: back where it was picked up, and dropped from there.
Dropped(x, y) ==
  LET back == [outputs EXCEPT ![drag.of] = MoveTo(@, drag.x, drag.y)]
  IN IF back[drag.of].mirror # NotMirroring THEN back
     ELSE MoveOutput(back, drag.of, x, y, 1, DraftOrder)

Releases(x, y) ==
  /\ mode = "main"
  /\ drag # NoDrag
  /\ drag' = NoDrag
  /\ IF drag.moved \/ <<x, y>> # <<drag.x, drag.y>> THEN Becomes(Dropped(x, y))
     ELSE UNCHANGED <<outputs, excused>>
  /\ UNCHANGED <<mode, edits, drags, loads>>

\* A dialog takes the keys and the pointer; a release it gets ends no drag.
DialogOpens ==
  /\ mode = "main" /\ drag # NoDrag
  /\ mode' = "dialog"
  /\ UNCHANGED <<outputs, drag, excused, edits, drags, loads>>

ClosesDialog ==
  /\ mode = "dialog"
  /\ mode' = "main"
  /\ UNCHANGED <<outputs, drag, excused, edits, drags, loads>>

\* loadLiveState and loadProfile.
Loads(layout) ==
  /\ loads < MaxLoads
  /\ loads' = loads + 1
  /\ outputs' = layout
  /\ excused' = ~Clear(layout)
  /\ drag' = NoDrag
  /\ mode' = "main"
  /\ UNCHANGED <<edits, drags>>

\* The panel sends its draft with one edit, and takes the one it gets back.
PanelSends(d, o, distance) ==
  /\ drag = NoDrag
  /\ EditsDraft
  /\ Becomes(PanelEdit(outputs, d, o, distance))
  /\ UNCHANGED <<mode>>

DraftNext ==
  \/ DialogOpens \/ ClosesDialog
  \/ \E d \in Displays : Toggles(d) \/ StepsRotation(d) \/ MovesToOrigin(d) \/ Presses(d) \/ PressesHidden(d)
  \/ \E d \in Displays, s \in Sizes \ {NoMode} : ChangesSize(d, s)
  \/ \E d \in Displays, c \in {0, 1, FollowsDevice} : PicksRotation(d, c)
  \/ \E d \in Displays, e \in 0..Count : Mirrors(d, e)
  \/ \E d \in Displays, dx, dy \in -1..1 : dx * dy = 0 /\ dx # dy /\ Nudges(d, dx, dy)
  \/ \E d \in Displays, direction \in {"left", "right", "above", "below"} : PlacesBeside(d, direction)
  \/ \E d \in Displays, x, y \in Coords : TypesPosition(d, x, y)
  \/ \E x, y \in Coords : Drags(x, y) \/ Releases(x, y)
  \/ \E layout \in Arrangements : Loads(layout)
  \/ \E d \in Displays : \E o \in PanelEdits(outputs[d]) : PanelSends(d, o, 0)
  \/ \E d \in Displays, x, y \in Coords : PanelSends(d, MoveTo(outputs[d], x, y), 1)

DraftSpec == DraftInit /\ [][DraftNext]_draftVars

-----------------------------------------------------------------------------
DraftTypeOK ==
  /\ outputs \in [Displays -> Placements]
  /\ drag \in [of : 0..Count, x : Int, y : Int, moved : BOOLEAN]
  /\ mode \in {"main", "dialog"}
  /\ excused \in BOOLEAN
  /\ edits \in 0..MaxEdits
  /\ drags \in 0..MaxDrags
  /\ loads \in 0..MaxLoads

\* Whatever is edited, in whatever order, no display lies on another: collisions are
\* always moved to a clear edge, none of the moves makes a new one, and a drop that
\* changes its mind goes back (ResolveLayoutOverlaps, dragRelease). Excused are a
\* layout that came in overlapping until an edit repairs it, and a drag whose release
\* a dialog took, until its display is dropped or another is picked up.
DraftIsClear == excused \/ drag # NoDrag \/ Clear(outputs)

\* Of every step: an edit that resizes nothing moves the edited display alone: enabling or moving one
\* never displaces a layout that was in order (ResolveLayoutOverlaps).
OthersStay ==
  Clear(outputs) /\ drag = NoDrag /\ loads' = loads
    /\ (\A d \in Displays : Width(outputs'[d]) = Width(outputs[d]) /\ Height(outputs'[d]) = Height(outputs[d]))
  => \E d \in Displays : \A e \in Displays \ {d} :
       outputs'[e].x = outputs[e].x /\ outputs'[e].y = outputs[e].y

InOneRow(ds, d, e) ==
  SameRow(Box(ds[d]), Box(ds[e])) /\ (ds[e].x >= Box(ds[d]).right \/ Box(ds[e]).right <= ds[d].x)

\* Of every step: when displays stand in one row and one of them is resized, the gaps between its
\* neighbours stay as they were, none or deliberate (ReflowAfterResize).
RowKeepsItsGaps ==
  \A d \in Displays :
       /\ drag = NoDrag /\ loads' = loads /\ Width(outputs'[d]) # Width(outputs[d])
       /\ <<outputs'[d].x, outputs'[d].y>> = <<outputs[d].x, outputs[d].y>>
       /\ \A e \in Displays : Reflowable(outputs[e]) /\ Reflowable(outputs'[e])
       /\ \A e, f \in Displays : e # f => InOneRow(outputs, e, f)
     => \A e, f \in Displays :
          outputs[e].x >= Box(outputs[f]).right /\ f = d =>
            outputs'[e].x - Box(outputs'[f]).right = outputs[e].x - Box(outputs[f]).right

\* An edit moves only what it must, and a row keeps its gaps.
EditsAreLocal == [][OthersStay /\ RowKeepsItsGaps]_draftVars

=============================================================================
