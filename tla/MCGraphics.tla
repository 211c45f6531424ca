------------------------------ MODULE MCGraphics ------------------------------
(* The compositor on its own, with a damage list; the window manager on a      *)
(* compositor of its own; the cursor, which has a surface of a compositor; the *)
(* clip stack; two damage trackers; and the drawing functions.  A behaviour    *)
(* exercises one of them.                                                      *)
(*                                                                             *)
(* Compositor: a framebuffer of three by two pixels, two overlapping           *)
(* rectangles, one of them partly off the screen, a damage list of two.        *)
(* Windows: three kinds, of which the first is placed by the cascade and at    *)
(* the smallest size, the second has no client and the third no decoration;    *)
(* room for two windows and three surfaces, so that creating either can fail.  *)
(* The mouse reaches a lower left corner, title bars, buttons and the          *)
(* margins where a dragged window snaps or is maximised.                       *)
(* Drawing: rectangles and shapes that lie in, across and off the canvas,      *)
(* empty ones included; stack and tracker run full.                            *)
EXTENDS Drawing

CONSTANT Components

VARIABLE component

MCRects == {[x |-> 0, y |-> 0, w |-> 2, h |-> 1], [x |-> 1, y |-> 0, w |-> 2, h |-> 2]}

MCNewWindows ==
    {[owned |-> TRUE, r |-> [x |-> -1, y |-> -1, w |-> 2, h |-> 2], flags |-> {}],
     [owned |-> FALSE, r |-> [x |-> 3, y |-> 2, w |-> 7, h |-> 5],
      flags |-> {"DECORATED", "RESIZABLE"}],
     [owned |-> TRUE, r |-> [x |-> 0, y |-> 6, w |-> 5, h |-> 4], flags |-> {"OTHER"}]}

MCWindowRects == {[x |-> 2, y |-> 1, w |-> 7, h |-> 5]}

MCPoints == {<<1, 4>>, <<3, 2>>, <<9, 2>>, <<6, 1>>}

MCClipRects ==
    {[x |-> -1, y |-> 1, w |-> 4, h |-> 2], [x |-> 2, y |-> -2, w |-> 3, h |-> 4],
     [x |-> 1, y |-> 0, w |-> 9, h |-> 9], [x |-> 4, y |-> 4, w |-> 0, h |-> 2], [x |-> 0, y |-> 3, w |-> 2, h |-> 1]}
MCDamageRects ==
    {[x |-> 0, y |-> 0, w |-> 1, h |-> 1], [x |-> 4, y |-> 0, w |-> 2, h |-> 1], [x |-> 0, y |-> 5, w |-> 1, h |-> 3],
     [x |-> -2, y |-> 3, w |-> 4, h |-> 2], [x |-> 6, y |-> 6, w |-> 4, h |-> 4], [x |-> 2, y |-> 2, w |-> 0, h |-> 3]}
MCSizes == {<<3, 4>>, <<7, 7>>}
MCPointed == {<<-1, 0>>, <<1, 1>>, <<9, 9>>}

Call(f, r, a) == [f |-> f, r |-> r, a |-> a]
NoRect == [x |-> 0, y |-> 0, w |-> 0, h |-> 0]
MCShapeRects == {[x |-> x, y |-> 1, w |-> w, h |-> h] : x \in {-2, 1, 4}, w \in 1 .. 6, h \in {1, 4, 5, 8}}
MCCorners == {0, 3, 7} \X {-1, 2, 3}
MCDrawCalls ==
    {Call("fill_rect", r, << >>) : r \in MCShapeRects \cup {NoRect, [x |-> 8, y |-> 0, w |-> 1, h |-> 1]}}
    \cup UNION {{Call("rect_thick", r, <<t>>) : t \in 1 .. Max({1, Min({r.w, r.h}) \div 2})} : r \in MCShapeRects}
    \cup UNION {{Call(f, r, <<radius>>) : radius \in 0 .. Min({r.w, r.h}) \div 2}
                    : r \in MCShapeRects, f \in {"rounded_rect", "fill_rounded_rect"}}
    \cup {Call("line_thick", NoRect, <<x, y, u, v, t>>) : x \in {-1, 3}, y \in {2, 6}, u \in -1 .. 7, v \in 0 .. 7, t \in {1, 3}}
    \cup {Call(f, NoRect, <<x, 3, radius>>) : f \in {"circle", "fill_circle"}, x \in {0, 3, 6}, radius \in 0 .. 5}
    \cup {Call(f, NoRect, <<x, 3, rx, ry>>) : f \in {"ellipse", "fill_ellipse"}, x \in {0, 3}, rx \in 0 .. 4, ry \in 1 .. 4}
    \cup {Call(f, NoRect, <<p, q, r>>) : f \in {"triangle", "fill_triangle"}, p \in MCCorners, q \in MCCorners, r \in MCCorners}
    \cup {Call(f, [x |-> x, y |-> y, w |-> w, h |-> 4], <<u, v, 5, 3>>)
            : f \in {"blit", "blit_to"}, x \in {-2, 0, 5}, y \in {-1, 4}, w \in {1, 4, 8}, u \in {-1, 0, 3}, v \in {-2, 1}}
    \cup {Call("scaled", [x |-> x, y |-> 0, w |-> w, h |-> h], <<0, 0, 3, 2>>) : x \in {-1, 2}, w \in 1 .. 7, h \in {1, 4}}
    \cup {Call("copy_region", [x |-> x, y |-> y, w |-> 3, h |-> 3], <<u, v>>) : x \in 0 .. 3, y \in 0 .. 3, u \in {1, 2}, v \in 0 .. 3}

\* A cursor needs its surface; the others begin with an empty compositor.
Init ==
    /\ component \in Components
    /\ comp = IF component = "cursor" THEN cursor_mgr_new.comp ELSE compositor_new(MaxDamage)
    /\ outdated = Pixels /\ excused = {} /\ calls = 0
    /\ WindowManagerInit /\ DrawingInit

Step == steps < MaxSteps /\ steps' = steps + 1

Next ==
    /\ \/ component = "compositor" /\ CompositorNext /\ UNCHANGED <<wmVars, drawingVars>>
       \/ component = "windows" /\ WindowManagerNext /\ UNCHANGED <<compVars, drawingVars>>
       \/ component = "clip" /\ ClipNext /\ Step /\ UNCHANGED <<compVars, wmVars, damageVars, cursorVars, drawn>>
       \/ component = "damage" /\ DamageNext /\ Step /\ UNCHANGED <<compVars, wmVars, clipVars, cursorVars, drawn>>
       \/ component = "cursor" /\ CursorNext /\ Step /\ UNCHANGED <<wmVars, clipVars, damageVars, drawn>>
       \/ component = "shapes" /\ DrawNext /\ UNCHANGED <<compVars, wmVars, clipVars, damageVars, cursorVars, steps>>
    /\ UNCHANGED component

Spec == Init /\ [][Next]_<<compVars, wmVars, drawingVars, component>>

\* What is shown is what was drawn.  FrameCurrent: outside the damage the
\* framebuffer is current, with the cursor over it.  ClipExact: drawing stays in
\* the clip.  DamageKept: damage is forgotten by nobody.  CursorSound: the cursor
\* is where and what it should be.  DrawExact: shapes and copies are exact.
ScreenExact ==
    /\ component \in {"compositor", "cursor"} => FrameCurrent
    /\ component = "clip" => ClipExact
    /\ component = "damage" => DamageKept
    /\ component = "cursor" => CursorSound
    /\ component = "shapes" => DrawExact
==============================================================================
