-------------------------------- MODULE Drawing -------------------------------
(* Under the windows: the clip stack and the shapes of graphics/draw, and the  *)
(* damage tracker, the blits and the mouse cursor of graphics/server.  The     *)
(* cursor keeps its picture in a surface of the compositor, whose calls are    *)
(* those of WindowManager; the others share no state and are libraries.        *)
(*                                                                             *)
(* Colours are left out.  A shape is the sequence of pixels it paints, so that *)
(* a pixel painted twice, which shows in a translucent colour, counts twice; a *)
(* copied pixel is the place it comes from.                                    *)
EXTENDS WindowManager

CONSTANTS
    CanvasW, CanvasH,   \* size of the surface drawn on
    ClipDepth,          \* CLIP_STACK_DEPTH
    ClipRects,          \* rectangles that are pushed and clipped
    MaxRects,           \* DAMAGE_MAX_RECTS
    Near,               \* distance below which rectangles merge, 8 in damage_add_rect
    DamageRects,        \* rectangles that are damaged
    Sizes,              \* sizes <<w, h>> of the tracked surfaces
    CURSOR_SIZE,
    Pointed,            \* where the mouse is moved to
    Pictures,           \* cursor types that are set
    DrawCalls,          \* calls <<name, arguments>> of the drawing functions
    NoCall,
    MaxSteps            \* bound: calls on the clip stack, a tracker, the cursor

ASSUME DrawingConstants ==
    /\ {CanvasW, CanvasH, ClipDepth, MaxRects, Near, CURSOR_SIZE, MaxSteps} \subseteq Nat
    /\ Sizes \subseteq Nat \X Nat /\ Pointed \subseteq Int \X Int
    /\ NoCall \notin DrawCalls

VARIABLES
    cs,         \* the clip stack: [stack, active]
    pushed,     \* history: the rectangles on it, as they were passed
    trackers,   \* two damage trackers: [rects, full, w, h]
    owed,       \* history: the pixels damaged in each since it was reset
    cm,         \* the cursor manager
    screen,     \* what each pixel of a framebuffer without compositor shows
    lost,       \* history: pixels whose background is no longer known
    drawn,      \* a call of the drawing functions, and what it painted or copied
    steps       \* calls made, for the bound

clipVars == <<cs, pushed>>
damageVars == <<trackers, owed>>
cursorVars == <<cm, screen, lost>>
drawingVars == <<cs, pushed, trackers, owed, cm, screen, lost, drawn, steps>>

NonNeg(n) == Max({0, n})
Rect(x, y, w, h) == [x |-> x, y |-> y, w |-> w, h |-> h]
Canvas == (0 .. CanvasW - 1) \X (0 .. CanvasH - 1)

\* The pixels of a rectangle.
Area(r) == (r.x .. r.x + r.w - 1) \X (r.y .. r.y + r.h - 1)

\* The part of a rectangle on a surface of w by h (clamp_rect).
Clamped(r, w, h) ==
    LET x == NonNeg(r.x)
        y == NonNeg(r.y)
    IN  Rect(x, y, NonNeg(Min({r.x + r.w, w}) - x), NonNeg(Min({r.y + r.h, h}) - y))

-----------------------------------------------------------------------------
(* graphics/draw/clip.c: a stack of nested rectangles.                         *)

WholeCanvas == Rect(0, 0, CanvasW, CanvasH)

clip_init == [stack |-> << >>, active |-> WholeCanvas]

recompute_active(c) ==
    [c EXCEPT !.active = IF c.stack = << >> THEN WholeCanvas ELSE Last(c.stack)]

\* What two rectangles share.
Meet(r, cur) ==
    LET x == Max({r.x, cur.x})
        y == Max({r.y, cur.y})
    IN  Rect(x, y, Min({r.x + r.w, cur.x + cur.w}) - x, Min({r.y + r.h, cur.y + cur.h}) - y)

\* Mutant of clip_push: the rectangle is not cut to the one it is nested in.
clip_push_apart(c, r) ==
    IF Len(c.stack) < ClipDepth
    THEN recompute_active([c EXCEPT !.stack = Append(@, Clamped(r, CanvasW, CanvasH))])
    ELSE c

\* A full stack takes no more: the clip stays, and the pop that belongs to this
\* push will take another rectangle away.
clip_push(c, r) ==
    LET met == Meet(r, c.active)
        clipped == IF c.stack = << >> THEN r
                   ELSE [met EXCEPT !.w = NonNeg(@), !.h = NonNeg(@)]
    IN  recompute_active(
            IF Len(c.stack) < ClipDepth
            THEN [c EXCEPT !.stack = Append(@, Clamped(clipped, CanvasW, CanvasH))]
            ELSE c)

clip_pop(c) == IF c.stack = << >> THEN c ELSE recompute_active([c EXCEPT !.stack = Front(@)])

clip_contains(c, p) == Inside(p, c.active)

clip_rect_visible(c, r) ==
    /\ c.active.w > 0 /\ c.active.h > 0 /\ r.w > 0 /\ r.h > 0
    /\ r.x < c.active.x + c.active.w /\ r.x + r.w > c.active.x
    /\ r.y < c.active.y + c.active.h /\ r.y + r.h > c.active.y

\* The clipped forms of a line to the right, a line down and a rectangle; an
\* empty one is not drawn.
clip_line_h(c, x, y, w) ==
    IF w <= 0 \/ y < c.active.y \/ y >= c.active.y + c.active.h THEN Rect(x, y, 0, 1)
    ELSE LET x0 == Max({x, c.active.x}) IN
         Rect(x0, y, Min({x + w, c.active.x + c.active.w}) - x0, 1)

clip_line_v(c, x, y, h) ==
    IF h <= 0 \/ x < c.active.x \/ x >= c.active.x + c.active.w THEN Rect(x, y, 1, 0)
    ELSE LET y0 == Max({y, c.active.y}) IN
         Rect(x, y0, 1, Min({y + h, c.active.y + c.active.h}) - y0)

clip_rect(c, r) == IF r.w <= 0 \/ r.h <= 0 THEN r ELSE Meet(r, c.active)

push(r) ==
    /\ cs' = clip_push(cs, r)
    /\ pushed' = IF Len(cs'.stack) > Len(cs.stack) THEN Append(pushed, r) ELSE pushed

pop ==
    /\ cs' = clip_pop(cs)
    /\ pushed' = IF pushed = << >> THEN pushed ELSE Front(pushed)

clip_reset == cs' = clip_init /\ pushed' = << >>

ClipNext == (\E r \in ClipRects : push(r)) \/ pop \/ clip_reset

\* However rectangles are pushed, refused, popped and reset, a pixel may be
\* painted exactly if it lies on the surface and in every rectangle still on the
\* stack; a line or rectangle is cut to exactly its pixels of that kind, and is
\* called visible exactly if there is one (clip_push, clip_rect, clip_line_h).
ClipExact ==
    LET open == {p \in Canvas : \A i \in DOMAIN pushed : Inside(p, pushed[i])} IN
    /\ \A p \in (-1 .. CanvasW) \X (-1 .. CanvasH) : clip_contains(cs, p) <=> p \in open
    /\ \A r \in ClipRects :
          /\ Area(clip_rect(cs, r)) = Area(r) \cap open
          /\ clip_rect_visible(cs, r) <=> Area(r) \cap open # {}
          /\ Area(clip_line_h(cs, r.x, r.y, r.w)) = Area([r EXCEPT !.h = 1]) \cap open
          /\ Area(clip_line_v(cs, r.x, r.y, r.h)) = Area([r EXCEPT !.w = 1]) \cap open

-----------------------------------------------------------------------------
(* graphics/server/damage.c: what has to be repainted, as few rectangles.      *)

damage_init(w, h) == [rects |-> << >>, full |-> FALSE, w |-> w, h |-> h]

damage_reset(dt) == [dt EXCEPT !.rects = << >>, !.full = FALSE]

rects_overlap(a, b) ==
    /\ a.x < b.x + b.w /\ a.x + a.w > b.x
    /\ a.y < b.y + b.h /\ a.y + a.h > b.y

Distance(a, b) == IF a < b THEN b - a ELSE a - b

\* Rectangles that overlap or begin close to each other, and whose hull is not
\* much larger, become one.
MergesInto(ex, r) ==
    /\ rects_overlap(ex, r) \/ (Distance(ex.x, r.x) < Near /\ Distance(ex.y, r.y) < Near)
    /\ Hull(ex, r).w * Hull(ex, r).h <= ex.w * ex.h + r.w * r.h * 2

damage_add_full(dt) == [dt EXCEPT !.rects = << >>, !.full = TRUE]

\* Mutant of damage_add_rect: when the list is full the rectangle is dropped.
damage_add_rect_dropped(dt, r) ==
    LET clamped == Clamped(r, dt.w, dt.h)
        merging == {i \in DOMAIN dt.rects : MergesInto(dt.rects[i], clamped)}
    IN  IF dt.full \/ clamped.w <= 0 \/ clamped.h <= 0 THEN dt
        ELSE IF merging # {} THEN [dt EXCEPT !.rects[Min(merging)] = Hull(@, clamped)]
        ELSE IF Len(dt.rects) >= MaxRects THEN dt
        ELSE [dt EXCEPT !.rects = Append(@, clamped)]

damage_add_rect(dt, r) ==
    LET clamped == Clamped(r, dt.w, dt.h)
        merging == {i \in DOMAIN dt.rects : MergesInto(dt.rects[i], clamped)}
    IN  IF dt.full \/ clamped.w <= 0 \/ clamped.h <= 0 THEN dt
        ELSE IF merging # {} THEN [dt EXCEPT !.rects[Min(merging)] = Hull(@, clamped)]
        ELSE IF Len(dt.rects) >= MaxRects THEN damage_add_full(dt)
        ELSE [dt EXCEPT !.rects = Append(@, clamped)]

damage_is_empty(dt) == ~ dt.full /\ dt.rects = << >>

damage_merge(dst, src) ==
    IF src.full THEN damage_add_full(dst) ELSE FoldLeft(damage_add_rect, dst, src.rects)

\* The surface takes a new size; rectangles outside it go.
damage_clip_to(dt, w, h) ==
    LET clamped == [i \in DOMAIN dt.rects |-> Clamped(dt.rects[i], w, h)] IN
    [dt EXCEPT !.w = w, !.h = h,
               !.rects = SelectSeq(clamped, LAMBDA r : r.w > 0 /\ r.h > 0)]

\* A full tracker has no rectangles, so its box is empty: the test for them
\* comes first, and the branch for a full one is never reached.
damage_bounding_box(dt) ==
    IF dt.rects = << >> THEN Rect(0, 0, 0, 0)
    ELSE FoldLeft(Hull, dt.rects[1], Tail(dt.rects))

Surface(dt) == Area(Rect(0, 0, dt.w, dt.h))

Tracked(t, dt, pixels) ==
    /\ trackers' = [trackers EXCEPT ![t] = dt]
    /\ owed' = [owed EXCEPT ![t] = pixels \cap Surface(dt)]

DamageNext ==
    \E t \in 1 .. 2 :
       \/ \E r \in DamageRects : Tracked(t, damage_add_rect(trackers[t], r), owed[t] \cup Area(r))
       \/ Tracked(t, damage_add_full(trackers[t]), Surface(trackers[t]))
       \/ Tracked(t, damage_reset(trackers[t]), {})
       \/ Tracked(t, damage_merge(trackers[t], trackers[3 - t]),
                  IF trackers[3 - t].full THEN Surface(trackers[t]) ELSE owed[t] \cup owed[3 - t])
       \/ \E s \in Sizes : Tracked(t, damage_clip_to(trackers[t], s[1], s[2]), owed[t])

\* Whatever is damaged, merged from another tracker or cut to a new size, every
\* damaged pixel of the surface is in some rectangle until the reset, or the
\* tracker asks for everything; no rectangle is empty or leaves the surface; an
\* empty tracker owes nothing and the box of one that is not full holds what it
\* owes (damage_add_rect, damage_merge, damage_clip_to).
DamageKept ==
    \A t \in 1 .. 2 :
       LET dt == trackers[t] IN
       /\ Len(dt.rects) <= MaxRects
       /\ \A i \in DOMAIN dt.rects :
             Area(dt.rects[i]) # {} /\ Area(dt.rects[i]) \subseteq Surface(dt)
       /\ dt.full \/ owed[t] \subseteq UNION {Area(dt.rects[i]) : i \in DOMAIN dt.rects}
       /\ damage_is_empty(dt) => owed[t] = {}
       /\ dt.full \/ owed[t] \subseteq Area(damage_bounding_box(dt))

-----------------------------------------------------------------------------
(* graphics/server/cursor.c.  The flags and places it keeps and never reads    *)
(* are left out.  Of an image only its hot spot matters, whether there is one, *)
(* and whether it is the built-in or the loaded one; every image paints all    *)
(* but the last pixel of its square.                                           *)

CursorTypes ==
    {"ARROW", "IBEAM", "RESIZE", "WAIT", "HIDDEN", "RESIZE_H", "RESIZE_V", "CROSSHAIR"}

Square == (0 .. CURSOR_SIZE - 1) \X (0 .. CURSOR_SIZE - 1)
Ink == Square \ {<<CURSOR_SIZE - 1, CURSOR_SIZE - 1>>}

\* build_all_defaults and the shapes it builds.
build_all_defaults ==
    [t \in CursorTypes |->
        [hot |-> IF t \in {"ARROW", "HIDDEN"} THEN 0 ELSE CURSOR_SIZE \div 2,
         loaded |-> t # "HIDDEN", from |-> "built in"]]

NoBackground == << >>

\* cursor_mgr_new on a compositor without surfaces, as event_loop_new calls it.
cursor_mgr_new ==
    LET x == FbW \div 2
        y == FbH \div 2
        made == compositor_create_surface(compositor_new(MaxDamage),
                                          Rect(x, y, CURSOR_SIZE, CURSOR_SIZE), "CURSOR")
    IN  [comp |-> made.comp,
         cm |-> [x |-> x, y |-> y, type |-> "ARROW", visible |-> TRUE,
                 images |-> build_all_defaults, surface |-> made.id,
                 buffer |-> <<"ARROW", "built in">>, bg |-> NoBackground]]

CursorInit ==
    /\ cm = cursor_mgr_new.cm
    /\ screen = [p \in Pixels |-> "scene"] /\ lost = {}

Hot(c) == c.images[c.type].hot
Corner(c) == <<c.x - Hot(c), c.y - Hot(c)>>
Under(corner, o) == <<corner[1] + o[1], corner[2] + o[2]>>

\* The pixels where a drawn cursor still shows.
Traces == {p \in Pixels : screen[p] = "cursor"}

\* The compositor goes from comp to c while the pictures of these surfaces change.
Composed(c, redrawn) ==
    /\ comp' = c
    /\ outdated' = outdated \cup {p \in Pixels :
                      \/ Shown(c, p) # Shown(comp, p)
                      \/ \E i \in DOMAIN Shown(c, p) : Shown(c, p)[i][1] \in redrawn}
    /\ UNCHANGED excused

\* The picture is replaced in the compositor's surface, which is not moved: the
\* new hot spot counts from the next movement on.  A hidden cursor shows again.
cursor_mgr_set_type(type) ==
    LET image == cm.images[type] IN
    /\ cm.type # type
    /\ IF type = "HIDDEN" \/ ~ image.loaded
       THEN /\ cm' = [cm EXCEPT !.type = type]
            /\ Composed(compositor_hide_surface(comp, cm.surface), {})
       ELSE /\ cm' = [cm EXCEPT !.type = type, !.buffer = <<type, image.from>>]
            /\ Composed(compositor_damage_surface(compositor_show_surface(comp, cm.surface),
                                                  cm.surface), {cm.surface})
    /\ UNCHANGED <<screen, lost>>

cursor_mgr_show ==
    /\ ~ cm.visible
    /\ cm' = [cm EXCEPT !.visible = TRUE]
    /\ Composed(IF cm.type # "HIDDEN" THEN compositor_show_surface(comp, cm.surface) ELSE comp, {})
    /\ UNCHANGED <<screen, lost>>

cursor_mgr_hide ==
    /\ cm.visible
    /\ cm' = [cm EXCEPT !.visible = FALSE]
    /\ Composed(compositor_hide_surface(comp, cm.surface), {})
    /\ UNCHANGED <<screen, lost>>

\* Mutant of cursor_mgr_move: the pointer may go one beyond the screen's edge.
cursor_mgr_move_beyond(x, y) ==
    LET nx == NonNeg(Min({x, FbW}))
        ny == NonNeg(Min({y, FbH}))
    IN  /\ <<nx, ny>> # <<cm.x, cm.y>>
        /\ cm' = [cm EXCEPT !.x = nx, !.y = ny, !.bg = NoBackground]
        /\ lost' = lost \cup Traces
        /\ Composed(compositor_move_surface(comp, cm.surface, nx - Hot(cm), ny - Hot(cm)), {})
        /\ UNCHANGED screen

\* A saved background is forgotten, drawn over or not.
cursor_mgr_move(x, y) ==
    LET nx == NonNeg(Min({x, FbW - 1}))
        ny == NonNeg(Min({y, FbH - 1}))
    IN  /\ <<nx, ny>> # <<cm.x, cm.y>>
        /\ cm' = [cm EXCEPT !.x = nx, !.y = ny, !.bg = NoBackground]
        /\ lost' = lost \cup Traces
        /\ Composed(compositor_move_surface(comp, cm.surface, nx - Hot(cm), ny - Hot(cm)), {})
        /\ UNCHANGED screen

\* Images from files replace some of the built-in ones, in the manager and not
\* in the compositor's surface; cursor_mgr_invalidate forgets the background.
cursor_mgr_load_from_dir(found) ==
    /\ cm' = [cm EXCEPT !.bg = NoBackground,
                 !.images = [t \in CursorTypes |->
                    IF t \in found THEN [hot |-> 0, loaded |-> TRUE, from |-> "file"] ELSE @[t]]]
    /\ lost' = lost \cup Traces
    /\ UNCHANGED <<screen, comp, outdated, excused>>

\* A pixel outside the framebuffer is saved as transparent.
cursor_mgr_save_bg ==
    /\ cm' = [cm EXCEPT !.bg = <<Corner(cm), [o \in Square |->
                 LET p == Under(Corner(cm), o) IN IF p \in Pixels THEN screen[p] ELSE "none"]>>]
    /\ lost' = lost \cup Traces
    /\ UNCHANGED <<screen, comp, outdated, excused>>

\* Mutant of cursor_mgr_restore_bg: the background goes back under the place
\* where the cursor is now.
cursor_mgr_restore_bg_here ==
    /\ cm.bg # NoBackground
    /\ screen' = [p \in Pixels |->
                     LET o == <<p[1] - Corner(cm)[1], p[2] - Corner(cm)[2]>> IN
                     IF o \in Square THEN cm.bg[2][o] ELSE screen[p]]
    /\ cm' = [cm EXCEPT !.bg = NoBackground]
    /\ UNCHANGED <<lost, comp, outdated, excused>>

cursor_mgr_restore_bg ==
    /\ cm.bg # NoBackground
    /\ screen' = [p \in Pixels |->
                     LET o == <<p[1] - cm.bg[1][1], p[2] - cm.bg[1][2]>> IN
                     IF o \in Square THEN cm.bg[2][o] ELSE screen[p]]
    /\ cm' = [cm EXCEPT !.bg = NoBackground]
    /\ UNCHANGED <<lost, comp, outdated, excused>>

\* What is painted outside the saved square can no longer be taken back.
cursor_mgr_draw ==
    LET painted == {Under(Corner(cm), o) : o \in Ink} \cap Pixels
        covered == IF cm.bg = NoBackground THEN {} ELSE {Under(cm.bg[1], o) : o \in Square}
    IN  /\ cm.visible /\ cm.type # "HIDDEN" /\ cm.images[cm.type].loaded
        /\ screen' = [p \in Pixels |-> IF p \in painted THEN "cursor" ELSE screen[p]]
        /\ lost' = lost \cup (painted \ covered)
        /\ UNCHANGED <<cm, comp, outdated, excused>>

\* The manager is not used after it was freed.
cursor_mgr_free ==
    /\ Composed(compositor_destroy_surface(comp, cm.surface), {})
    /\ cm' = [cm EXCEPT !.surface = -1]
    /\ UNCHANGED <<screen, lost>>

CursorNext ==
    /\ \/ /\ cm.surface > 0
          /\ \/ \E t \in Pictures : cursor_mgr_set_type(t)
             \/ cursor_mgr_show \/ cursor_mgr_hide
             \/ \E p \in Pointed : cursor_mgr_move(p[1], p[2])
             \/ \E found \in SUBSET (Pictures \ {"HIDDEN"}) : cursor_mgr_load_from_dir(found)
             \/ cursor_mgr_save_bg \/ cursor_mgr_restore_bg \/ cursor_mgr_draw
             \/ cursor_mgr_free
       \/ (\E r \in Rects : create(r, "NORMAL")) /\ UNCHANGED cursorVars
       \/ compositor_composite /\ UNCHANGED cursorVars
    /\ UNCHANGED calls

\* The pointer stays on the screen and in the square the compositor shows for
\* it, which is above every other surface; that surface shows while the cursor
\* does, and not while its type is the hidden one, with the picture of its type;
\* and a cursor drawn without compositor can be taken back from every pixel
\* whose background was saved before it was drawn, at the edges of the screen
\* too (cursor_mgr_move, cursor_mgr_set_type, cursor_mgr_restore_bg).
CursorSound ==
    /\ cm.surface > 0 =>
          LET s == comp.surfaces[At(comp, cm.surface)] IN
          /\ <<cm.x, cm.y>> \in Pixels /\ <<cm.x - s.x, cm.y - s.y>> \in Square
          /\ Last(comp.surfaces) = s
          /\ cm.visible /\ cm.type # "HIDDEN" => s.visible
          /\ cm.type = "HIDDEN" => ~ s.visible
          /\ cm.type # "HIDDEN" => cm.buffer[1] = cm.type
    /\ \A p \in Pixels \ lost :
          /\ screen[p] # "none"
          /\ screen[p] = "cursor" =>
                /\ cm.bg # NoBackground
                /\ cm.bg[2][<<p[1] - cm.bg[1][1], p[2] - cm.bg[1][2]>>] = "scene"

-----------------------------------------------------------------------------
(* graphics/draw/draw.c and the blits of graphics/server/surface.c.            *)

Flat(seqs) == FlattenSeq(seqs)
Quadrants == << <<1, 1>>, <<-1, 1>>, <<1, -1>>, <<-1, -1>> >>

draw_pixel(x, y) == IF <<x, y>> \in Canvas THEN << <<x, y>> >> ELSE << >>

\* Mutant of draw_hline: a line that begins left of the surface keeps its length.
draw_hline_shifted(x, y, w) ==
    LET x0 == NonNeg(x)
        n == IF w <= 0 \/ y < 0 \/ y >= CanvasH THEN 0 ELSE NonNeg(Min({x0 + w, CanvasW}) - x0)
    IN  [i \in 1 .. n |-> <<x0 + i - 1, y>>]

draw_hline(x, y, w) ==
    LET x0 == NonNeg(x)
        n == IF w <= 0 \/ y < 0 \/ y >= CanvasH THEN 0 ELSE NonNeg(Min({x + w, CanvasW}) - x0)
    IN  [i \in 1 .. n |-> <<x0 + i - 1, y>>]

draw_vline(x, y, h) ==
    LET y0 == NonNeg(y)
        n == IF h <= 0 \/ x < 0 \/ x >= CanvasW THEN 0 ELSE NonNeg(Min({y + h, CanvasH}) - y0)
    IN  [i \in 1 .. n |-> <<x, y0 + i - 1>>]

draw_fill_rect(r) ==
    LET y0 == NonNeg(r.y)
        x0 == NonNeg(r.x)
        w == Min({r.x + r.w, CanvasW}) - x0
    IN  IF r.w <= 0 \/ r.h <= 0 \/ w <= 0 THEN << >>
        ELSE Flat([i \in 1 .. NonNeg(Min({r.y + r.h, CanvasH}) - y0) |->
                      [j \in 1 .. w |-> <<x0 + j - 1, y0 + i - 1>>]])

\* The corners are painted twice.
draw_rect(r) ==
    Flat(<<draw_hline(r.x, r.y, r.w), draw_hline(r.x, r.y + r.h - 1, r.w),
           draw_vline(r.x, r.y, r.h), draw_vline(r.x + r.w - 1, r.y, r.h)>>)

draw_rect_thick(r, t) ==
    Flat([i \in 1 .. NonNeg(t) |->
             draw_rect(Rect(r.x + i - 1, r.y + i - 1, r.w - 2 * (i - 1), r.h - 2 * (i - 1)))])

\* One turn of the loop of draw_line; nothing once the end is reached.
LineStep(l, i) ==
    LET e2 == 2 * l.err
        across == e2 > - l.dy
        down == e2 < l.dx
    IN  IF l.at = l.end THEN l
        ELSE [l EXCEPT !.err = @ - (IF across THEN l.dy ELSE 0) + (IF down THEN l.dx ELSE 0),
                       !.at = <<@[1] + (IF across THEN l.sx ELSE 0),
                                @[2] + (IF down THEN l.sy ELSE 0)>>,
                       !.pixels = @ \o draw_pixel(l.at[1] + (IF across THEN l.sx ELSE 0),
                                                  l.at[2] + (IF down THEN l.sy ELSE 0))]

draw_line(x0, y0, x1, y1) ==
    LET dx == Distance(x0, x1)
        dy == Distance(y0, y1)
        start == [at |-> <<x0, y0>>, end |-> <<x1, y1>>, dx |-> dx, dy |-> dy, err |-> dx - dy,
                  sx |-> IF x0 < x1 THEN 1 ELSE -1, sy |-> IF y0 < y1 THEN 1 ELSE -1,
                  pixels |-> draw_pixel(x0, y0)]
    IN  FoldLeft(LineStep, start, [i \in 1 .. dx + dy |-> i]).pixels

\* C's division, which rounds towards zero.
Toward0(a, b) ==
    IF (a < 0) = (b < 0) THEN Distance(a, 0) \div Distance(b, 0)
    ELSE - (Distance(a, 0) \div Distance(b, 0))

\* The normal is divided by the square of the length, so the copies of a line
\* longer than one pixel fall onto each other.
draw_line_thick(x0, y0, x1, y1, thickness) ==
    LET half == thickness \div 2
        dx == x1 - x0
        dy == y1 - y0
        len == dx * dx + dy * dy
    IN  IF thickness <= 1 THEN draw_line(x0, y0, x1, y1)
        ELSE IF len = 0 THEN draw_fill_rect(Rect(x0 - half, y0 - half, thickness, thickness))
        ELSE Flat([k \in 1 .. 2 * half + 1 |->
                LET ox == Toward0(- dy * (k - half - 1), len)
                    oy == Toward0(dx * (k - half - 1), len)
                IN  draw_line(x0 + ox, y0 + oy, x1 + ox, y1 + oy)])

\* The turns <<x, y>> of the loop that walks an eighth of a circle.
Eighth(r) ==
    FoldLeft(LAMBDA o, i :
                IF o.x > o.y THEN o
                ELSE [turns |-> Append(o.turns, <<o.x, o.y>>), x |-> o.x + 1,
                      y |-> IF o.d < 0 THEN o.y ELSE o.y - 1,
                      d |-> o.d + (IF o.d < 0 THEN 4 * o.x + 6 ELSE 4 * (o.x - o.y) + 10)],
             [turns |-> << >>, x |-> 0, y |-> r, d |-> 3 - 2 * r], [i \in 1 .. r + 1 |-> i]).turns

draw_circle(cx, cy, r) ==
    IF r <= 0 THEN << >>
    ELSE Flat([i \in DOMAIN Eighth(r) |->
            LET o == Eighth(r)[i] IN
            Flat([q \in 1 .. 4 |->
                    draw_pixel(cx + Quadrants[q][1] * o[1], cy + Quadrants[q][2] * o[2])
                    \o draw_pixel(cx + Quadrants[q][1] * o[2], cy + Quadrants[q][2] * o[1])])])

draw_fill_circle(cx, cy, r) ==
    IF r <= 0 THEN << >>
    ELSE Flat([i \in DOMAIN Eighth(r) |->
            LET x == Eighth(r)[i][1]
                y == Eighth(r)[i][2]
            IN  Flat(<<draw_hline(cx - x, cy + y, 2 * x + 1), draw_hline(cx - x, cy - y, 2 * x + 1),
                       draw_hline(cx - y, cy + x, 2 * y + 1), draw_hline(cx - y, cy - x, 2 * y + 1)>>)])

\* The four centres of the corners, in the order of Quadrants.
Centres(r, radius) ==
    << <<r.x + r.w - 1 - radius, r.y + r.h - 1 - radius>>, <<r.x + radius, r.y + r.h - 1 - radius>>,
       <<r.x + r.w - 1 - radius, r.y + radius>>, <<r.x + radius, r.y + radius>> >>

AtCorners(r, radius, dx, dy) ==
    Flat([q \in 1 .. 4 |->
            draw_pixel(Centres(r, radius)[q][1] + Quadrants[q][1] * dx,
                       Centres(r, radius)[q][2] + Quadrants[q][2] * dy)])

draw_rounded_rect(r, radius) ==
    LET straight == r.w - 2 * radius
        upright == r.h - 2 * radius
    IN  IF radius <= 0 THEN draw_rect(r)
        ELSE Flat(<<draw_hline(r.x + radius, r.y, straight),
                    draw_hline(r.x + radius, r.y + r.h - 1, straight),
                    draw_vline(r.x, r.y + radius, upright),
                    draw_vline(r.x + r.w - 1, r.y + radius, upright)>>)
             \o Flat([i \in DOMAIN Eighth(radius) |->
                        LET o == Eighth(radius)[i] IN
                        AtCorners(r, radius, o[1], o[2]) \o AtCorners(r, radius, o[2], o[1])])

draw_fill_rounded_rect(r, wanted) ==
    LET radius == Min({wanted, Min({r.w, r.h}) \div 2})
        near == SelectSeq([i \in 1 .. (radius + 1) * (radius + 1) |->
                              <<(i - 1) % (radius + 1), (i - 1) \div (radius + 1)>>],
                          LAMBDA o : o[1] * o[1] + o[2] * o[2] <= radius * radius)
    IN  IF wanted <= 0 THEN draw_fill_rect(r)
        ELSE Flat(<<draw_fill_rect(Rect(r.x, r.y + radius, r.w, r.h - radius * 2)),
                    draw_fill_rect(Rect(r.x + radius, r.y, r.w - radius * 2, radius)),
                    draw_fill_rect(Rect(r.x + radius, r.y + r.h - radius, r.w - radius * 2, radius))>>)
             \o Flat([i \in DOMAIN near |-> AtCorners(r, radius, near[i][1], near[i][2])])

\* The turns of the two loops of draw_ellipse: above the point where the slope
\* is one, then down to the axis.
FlatTurns(rx, ry) ==
    FoldLeft(LAMBDA e, i :
                IF e.dx >= e.dy THEN e
                ELSE LET inner == e.d >= 0 IN
                     [turns |-> Append(e.turns, <<e.x, e.y>>), x |-> e.x + 1,
                      y |-> IF inner THEN e.y - 1 ELSE e.y, dx |-> e.dx + 2 * ry * ry,
                      dy |-> IF inner THEN e.dy - 2 * rx * rx ELSE e.dy,
                      d |-> e.d + ry * ry * (2 * e.x + 3)
                                + (IF inner THEN rx * rx * (2 - 2 * e.y) ELSE 0)],
             [turns |-> << >>, x |-> 0, y |-> ry, dx |-> 0, dy |-> 2 * rx * rx * ry,
              d |-> ry * ry - rx * rx * ry + (rx * rx) \div 4], [i \in 1 .. rx + 1 |-> i])

SteepTurns(e, rx, ry) ==
    FoldLeft(LAMBDA f, i :
                [turns |-> Append(f.turns, <<f.x, f.y>>), y |-> f.y - 1,
                 x |-> IF f.d > 0 THEN f.x ELSE f.x + 1,
                 d |-> f.d + rx * rx * (3 - 2 * f.y)
                           + (IF f.d > 0 THEN 0 ELSE ry * ry * (2 * f.x + 2))],
             [turns |-> e.turns, x |-> e.x, y |-> e.y,
              d |-> ry * ry * e.x * e.x + rx * rx * (e.y - 1) * (e.y - 1) - rx * rx * ry * ry],
             [i \in 1 .. e.y + 1 |-> i]).turns

draw_ellipse(cx, cy, rx, ry) ==
    LET turns == SteepTurns(FlatTurns(rx, ry), rx, ry) IN
    Flat([i \in DOMAIN turns |->
            Flat([q \in 1 .. 4 |-> draw_pixel(cx + Quadrants[q][1] * turns[i][1],
                                              cy + Quadrants[q][2] * turns[i][2])])])

\* The half width of a row, rounded down; the code computes it in floating
\* point, which is exact for the radii used here.
HalfWidth(rx, ry, py) == Max({k \in 0 .. rx : k * k * ry * ry <= rx * rx * (ry * ry - py * py)})

draw_fill_ellipse(cx, cy, rx, ry) ==
    Flat([i \in 1 .. 2 * ry + 1 |->
            LET half == HalfWidth(rx, ry, i - 1 - ry) IN
            draw_hline(cx - half, cy + i - 1 - ry, 2 * half + 1)])

draw_triangle(a, b, c) ==
    Flat(<<draw_line(a[1], a[2], b[1], b[2]), draw_line(b[1], b[2], c[1], c[2]),
           draw_line(c[1], c[2], a[1], a[2])>>)

\* Three comparisons of heights, each followed by an exchange.
sort3(a, b, c) ==
    LET first == IF a[2] > b[2] THEN <<b, a, c>> ELSE <<a, b, c>>
        second == IF first[1][2] > c[2] THEN <<c, first[2], first[1]>> ELSE first
    IN  IF second[2][2] > second[3][2] THEN <<second[1], second[3], second[2]>> ELSE second

\* Where the edge from a down to b is in row y.
EdgeAt(a, b, y) ==
    a[1] + (IF a[2] = b[2] THEN 0 ELSE Toward0((b[1] - a[1]) * (y - a[2]), b[2] - a[2]))

draw_fill_triangle(p, q, r) ==
    LET v == sort3(p, q, r) IN
    Flat([i \in 1 .. v[3][2] - v[1][2] + 1 |->
            LET y == v[1][2] + i - 1
                long == EdgeAt(v[1], v[3], y)
                short == IF y < v[2][2] THEN EdgeAt(v[1], v[2], y) ELSE EdgeAt(v[2], v[3], y)
            IN  draw_hline(Min({long, short}), y, Distance(long, short) + 1)])

\* One axis of surface_blit: where it begins in both surfaces, and how long.
BlitSpan(d, s, n, dmax, smax) ==
    LET d1 == NonNeg(d)
        s1 == IF d < 0 THEN s - d ELSE s
        n1 == IF d < 0 THEN n + d ELSE n
        d2 == IF s1 < 0 THEN d1 - s1 ELSE d1
        n2 == IF s1 < 0 THEN n1 + s1 ELSE n1
        s2 == NonNeg(s1)
    IN  [to |-> d2, from |-> s2, n |-> NonNeg(Min({n2, dmax - d2, smax - s2}))]

\* The same in server_surface_blit_to, which looks at the source first.
ServerSpan(d, s, n, dmax, smax) ==
    LET s1 == NonNeg(s)
        d1 == IF s < 0 THEN d - s ELSE d
        n1 == IF s < 0 THEN n + s ELSE n
        s2 == IF d1 < 0 THEN s1 - d1 ELSE s1
        n2 == IF d1 < 0 THEN n1 + d1 ELSE n1
        d2 == NonNeg(d1)
    IN  [to |-> d2, from |-> s2,
         n |-> IF n2 <= 0 THEN 0 ELSE NonNeg(Min({n2, smax - s2, dmax - d2}))]

\* Pixels copied over two spans: the place of the source each one now shows.
Blitted(h, v) ==
    [p \in {q \in Canvas : q[1] \in h.to .. h.to + h.n - 1 /\ q[2] \in v.to .. v.to + v.n - 1} |->
        <<p[1] - h.to + h.from, p[2] - v.to + v.from>>]

\* A source of sw by sh stretched to a rectangle.
draw_image_scaled(sw, sh, r) ==
    [p \in Area(r) \cap Canvas |->
        <<Min({((p[1] - r.x) * sw) \div r.w, sw - 1}), Min({((p[2] - r.y) * sh) \div r.h, sh - 1})>>]

\* Rows are moved one by one, the last one first if they move down; label is
\* what each pixel showed before.
draw_copy_region(label, d, s, w, h) ==
    LET rows == [i \in 1 .. h |-> IF d[2] > s[2] THEN h - i ELSE i - 1] IN
    FoldLeft(LAMBDA now, row :
                [p \in Canvas |-> IF p[2] = d[2] + row /\ p[1] \in d[1] .. d[1] + w - 1
                                  THEN now[<<p[1] - d[1] + s[1], s[2] + row>>] ELSE now[p]],
             label, rows)

\* What a call paints: f names the function, r is a rectangle, a the other
\* arguments.
Painted(c) ==
    LET r == c.r
        a == c.a
    IN  CASE c.f = "fill_rect"         -> draw_fill_rect(r)
          [] c.f = "rect_thick"        -> draw_rect_thick(r, a[1])
          [] c.f = "rounded_rect"      -> draw_rounded_rect(r, a[1])
          [] c.f = "fill_rounded_rect" -> draw_fill_rounded_rect(r, a[1])
          [] c.f = "line_thick"        -> draw_line_thick(a[1], a[2], a[3], a[4], a[5])
          [] c.f = "circle"            -> draw_circle(a[1], a[2], a[3])
          [] c.f = "fill_circle"       -> draw_fill_circle(a[1], a[2], a[3])
          [] c.f = "ellipse"           -> draw_ellipse(a[1], a[2], a[3], a[4])
          [] c.f = "fill_ellipse"      -> draw_fill_ellipse(a[1], a[2], a[3], a[4])
          [] c.f = "triangle"          -> draw_triangle(a[1], a[2], a[3])
          [] c.f = "fill_triangle"     -> draw_fill_triangle(a[1], a[2], a[3])

\* What a call copies: r.x, r.y is the target, a the source.
Copied(c) ==
    LET r == c.r
        a == c.a
    IN  CASE c.f = "blit" -> Blitted(BlitSpan(r.x, a[1], r.w, CanvasW, a[3]),
                                     BlitSpan(r.y, a[2], r.h, CanvasH, a[4]))
          [] c.f = "blit_to" -> Blitted(ServerSpan(r.x, a[1], r.w, CanvasW, a[3]),
                                        ServerSpan(r.y, a[2], r.h, CanvasH, a[4]))
          [] c.f = "scaled" -> draw_image_scaled(a[3], a[4], r)
          [] c.f = "copy_region" -> draw_copy_region([p \in Canvas |-> p], <<r.x, r.y>>,
                                                     <<a[1], a[2]>>, r.w, r.h)

Copies == {"blit", "blit_to", "scaled", "copy_region"}

DrawNext ==
    /\ drawn.call = NoCall
    /\ \E c \in DrawCalls :
          drawn' = [call |-> c, out |-> IF c.f \in Copies THEN Copied(c) ELSE Painted(c)]

Coats(pixels, p) == Cardinality({i \in DOMAIN pixels : pixels[i] = p})

\* How far a pixel is from a centre, squared.
FromCentre(p, cx, cy) == (p[1] - cx) * (p[1] - cx) + (p[2] - cy) * (p[2] - cy)

OnEdge(p, r, t) ==
    /\ Inside(p, r)
    /\ \/ p[1] < r.x + t \/ p[1] >= r.x + r.w - t
       \/ p[2] < r.y + t \/ p[2] >= r.y + r.h - t

\* The pixels of a row between two pixels of a set.
Between(pixels) ==
    {p \in Canvas : \E a, b \in pixels : a[2] = p[2] /\ b[2] = p[2] /\ a[1] <= p[1] /\ p[1] <= b[1]}

\* A line of n + 1 pixels, one in each row or column of its longer side, none
\* further than half a pixel from the straight line.
Straight(pixels, a) ==
    LET dx == a[3] - a[1]
        dy == a[4] - a[2]
        n == Max({Distance(dx, 0), Distance(dy, 0)})
        upright == Distance(dy, 0) = n
    IN  /\ \A p \in pixels : 2 * Distance(dx * (p[2] - a[2]), dy * (p[1] - a[1])) <= n
        /\ {<<a[1], a[2]>>, <<a[3], a[4]>>} \cap Canvas \subseteq pixels
        /\ \A p, q \in pixels : p # q => IF upright THEN p[2] # q[2] ELSE p[1] # q[1]

\* Each function paints what its name says, and only on the surface.  A filled
\* rectangle paints each of its pixels once, an outline exactly its edge.  A line
\* is straight, reaches both ends and has no pixel twice; a thick one covers it.  A disc holds the
\* pixels within its radius and none further out than half a pixel, and its
\* outline is the two ends of each of its rows.  A rounded rectangle leaves its
\* rectangle only at the corners; a triangle has its corners and every row
\* between them; ellipses fill their height (draw_line, draw_circle,
\* draw_fill_rounded_rect, draw_fill_triangle).
ShapeExact(c, out) ==
    LET r == c.r
        a == c.a
        pixels == Range(out)
    IN  /\ pixels \subseteq Canvas
        /\ CASE c.f = "fill_rect" ->
                   \A p \in Canvas : Coats(out, p) = (IF Inside(p, r) THEN 1 ELSE 0)
             [] c.f = "rect_thick" -> pixels = {p \in Canvas : OnEdge(p, r, a[1])}
             [] c.f = "rounded_rect" -> \A p \in pixels : OnEdge(p, r, a[1] + 1)
             [] c.f = "fill_rounded_rect" ->
                   /\ \A p \in pixels : Inside(p, r)
                   /\ \A p \in Canvas \ pixels :
                         Inside(p, r) => \E q \in ToSet(Centres(r, 0)) :
                                            FromCentre(p, q[1], q[2]) < a[1] * a[1]
             [] c.f = "line_thick" ->
                   LET thin == draw_line(a[1], a[2], a[3], a[4]) IN
                   /\ Straight(Range(thin), a) /\ Len(thin) = Cardinality(Range(thin))
                   /\ Range(thin) \subseteq pixels
             [] c.f = "circle" ->
                   \A p \in pixels : Distance(FromCentre(p, a[1], a[2]), a[3] * a[3]) <= a[3]
             [] c.f = "fill_circle" ->
                   /\ a[3] > 0 => {p \in Canvas : FromCentre(p, a[1], a[2]) <= a[3] * a[3]} \subseteq pixels
                   /\ \A p \in pixels : FromCentre(p, a[1], a[2]) <= a[3] * a[3] + a[3]
                   /\ Range(draw_circle(a[1], a[2], a[3])) \subseteq pixels
                   /\ Between(pixels) = pixels
             [] c.f = "ellipse" ->
                   \A p \in pixels : /\ Distance(p[1], a[1]) <= a[3] + 1
                                     /\ Distance(p[2], a[2]) <= a[4]
             [] c.f = "fill_ellipse" ->
                   /\ Len(out) = Cardinality(pixels)
                   /\ pixels = {p \in Canvas :
                          Distance(p[2], a[2]) <= a[4] /\ (p[1] - a[1]) * (p[1] - a[1]) * a[4] * a[4]
                          + (p[2] - a[2]) * (p[2] - a[2]) * a[3] * a[3]
                          <= a[3] * a[3] * a[4] * a[4]}
             [] c.f = "triangle" -> {a[1], a[2], a[3]} \cap Canvas \subseteq pixels
             [] c.f = "fill_triangle" ->
                   LET heights == {a[1][2], a[2][2], a[3][2]} IN
                   /\ Between(pixels) = pixels /\ Len(out) = Cardinality(pixels)
                   /\ Cardinality(heights) > 1 => {a[1], a[2], a[3]} \cap Canvas \subseteq pixels
                   /\ {p[2] : p \in pixels} \subseteq Min(heights) .. Max(heights)

\* A blit copies exactly the pixels whose place and whose source exist, whichever
\* end is cut first; stretching keeps order and reaches both ends; and a region
\* copied over itself arrives as it was (surface_blit, server_surface_blit_to,
\* draw_image_scaled, draw_copy_region).
CopyExact(c, out) ==
    LET r == c.r
        a == c.a
        from(p) == <<p[1] - r.x + a[1], p[2] - r.y + a[2]>>
    IN  CASE c.f \in {"blit", "blit_to"} ->
                out = [p \in {q \in Area(r) \cap Canvas :
                                 from(q) \in (0 .. a[3] - 1) \X (0 .. a[4] - 1)} |-> from(p)]
          [] c.f = "scaled" ->
                /\ \A p \in DOMAIN out : out[p] \in (0 .. a[3] - 1) \X (0 .. a[4] - 1)
                /\ \A p, q \in DOMAIN out : p[1] <= q[1] => out[p][1] <= out[q][1]
                /\ <<r.x, r.y>> \in DOMAIN out => out[<<r.x, r.y>>] = <<0, 0>>
          [] c.f = "copy_region" ->
                \A p \in Canvas : out[p] = IF Inside(p, r) THEN from(p) ELSE p

DrawExact ==
    drawn.call # NoCall =>
       IF drawn.call.f \in Copies THEN CopyExact(drawn.call, drawn.out)
       ELSE ShapeExact(drawn.call, drawn.out)

-----------------------------------------------------------------------------
DrawingInit ==
    /\ cs = clip_init /\ pushed = << >>
    /\ trackers = [t \in 1 .. 2 |-> damage_init(CanvasW, CanvasH)]
    /\ owed = [t \in 1 .. 2 |-> {}]
    /\ CursorInit
    /\ drawn = [call |-> NoCall, out |-> << >>] /\ steps = 0
==============================================================================
