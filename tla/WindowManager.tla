---------------------------- MODULE WindowManager -----------------------------
(* The window server's windows: their order and their drawing, and the       *)
(* manager that moves, resizes and focuses them.                             *)
EXTENDS Integers, SequencesExt, FiniteSetsExt

-------------------------------------------------------------------------------
(* The compositor (graphics/server/compositor.c): a table of surfaces kept     *)
(* sorted by depth, a list of damaged rectangles that remembers what to        *)
(* repaint, and the repaint itself.                                            *)
(*                                                                             *)
(* Every call is an operator from the compositor's record to its next value,   *)
(* so that the window manager can make several calls in one step.  Pixels are  *)
(* abstracted to what they show: which surfaces, at which offset, how opaque.  *)
(* The dirty flag is written by every call and read by none; it is left out.   *)

CONSTANTS
    FbW, FbH,       \* size of the framebuffer
    MaxSurfaces,    \* COMPOSITOR_MAX_SURFACES
    MaxDamage,      \* COMPOSITOR_MAX_DAMAGE
    Rects,          \* rectangles callers pass
    Layers,         \* layers callers pass
    Alphas,         \* alpha values callers pass
    Depths,         \* bound: depths raise and lower may reach
    MaxSurfaceId,   \* bound: surfaces created
    MaxCalls        \* bound: calls that change a surface

ASSUME CompositorConstants ==
    /\ {FbW, FbH, MaxSurfaces, MaxDamage, MaxSurfaceId, MaxCalls} \subseteq Nat
    /\ \A r \in Rects : {r.x, r.y, r.w, r.h} \subseteq Int
    /\ Alphas \subseteq Int /\ Depths \subseteq Nat
    /\ Layers \subseteq {"NORMAL", "OVERLAY", "CURSOR", "WALLPAPER", "NOTIFICATION"}

VARIABLES
    comp,       \* [surfaces, next_id, damage, max_damage, full_redraw]
    outdated,   \* history: pixels whose picture changed since they were painted
    excused,    \* history: those of them that changed by a reordering, or by a
                \* resize without memory, and were not damaged
    calls       \* calls that changed a surface, for the bound

compVars == <<comp, outdated, excused, calls>>

Pixels == (0 .. FbW - 1) \X (0 .. FbH - 1)

Opaque == 255

\* compositor_new; the size of the damage array is a field so that a client's
\* model can choose it.
compositor_new(max_damage) ==
    [surfaces |-> << >>, next_id |-> 1, damage |-> << >>, max_damage |-> max_damage,
     full_redraw |-> TRUE]

Inside(p, r) == r.x <= p[1] /\ p[1] < r.x + r.w /\ r.y <= p[2] /\ p[2] < r.y + r.h

\* The smallest rectangle around two.
Hull(d, r) ==
    LET x == Min({d.x, r.x})
        y == Min({d.y, r.y})
    IN  [x |-> x, y |-> y, w |-> Max({d.x + d.w, r.x + r.w}) - x,
         h |-> Max({d.y + d.h, r.y + r.h}) - y]

\* Merging pays if the hull is at most half as large again as the two.
Merges(d, r) ==
    Hull(d, r).w * Hull(d, r).h <= ((r.w * r.h + d.w * d.h) * 3) \div 2

compositor_damage(c, r) ==
    IF r.w <= 0 \/ r.h <= 0 THEN c
    ELSE IF Len(c.damage) >= c.max_damage THEN [c EXCEPT !.full_redraw = TRUE]
    ELSE LET merging == {i \in DOMAIN c.damage : Merges(c.damage[i], r)} IN
         IF merging # {} THEN [c EXCEPT !.damage[Min(merging)] = Hull(@, r)]
         ELSE [c EXCEPT !.damage = Append(@, r)]

-----------------------------------------------------------------------------
find_surface(c, id) == {i \in DOMAIN c.surfaces : c.surfaces[i].id = id}

At(c, id) == CHOOSE i \in find_surface(c, id) : TRUE

RectOf(s) == [x |-> s.x, y |-> s.y, w |-> s.w, h |-> s.h]

\* Damage the surface at an index, whichever it is by now.
DamageAt(c, i) == compositor_damage(c, RectOf(c.surfaces[i]))

\* Insertion sort: each surface goes behind those that are not above it.
sort_by_z(surfaces) ==
    FoldLeft(LAMBDA sorted, s :
                InsertAt(sorted, 1 + Cardinality({i \in DOMAIN sorted :
                                                    sorted[i].z_order <= s.z_order}), s),
             << >>, surfaces)

BaseZ(layer) ==
    CASE layer = "WALLPAPER"    -> 0
      [] layer = "NORMAL"       -> 100
      [] layer = "OVERLAY"      -> 200
      [] layer = "NOTIFICATION" -> 300
      [] layer = "CURSOR"       -> 400

\* compositor_create_surface with what it returns.  The identifier is read
\* through the pointer to the last slot after the sort: it is the identifier of
\* the surface now on top.
compositor_create_surface(c, r, layer) ==
    IF Len(c.surfaces) >= MaxSurfaces \/ r.w <= 0 \/ r.h <= 0 THEN [comp |-> c, id |-> -1]
    ELSE LET s == [id |-> c.next_id, x |-> r.x, y |-> r.y, w |-> r.w, h |-> r.h,
                   z_order |-> BaseZ(layer), visible |-> TRUE, alpha |-> Opaque,
                   layer |-> layer, buffer |-> TRUE]
             surfaces == sort_by_z(Append(c.surfaces, s))
         IN  [comp |-> [c EXCEPT !.surfaces = surfaces, !.next_id = @ + 1,
                                 !.full_redraw = TRUE],
              id |-> Last(surfaces).id]

compositor_destroy_surface(c, id) ==
    IF find_surface(c, id) = {} THEN c
    ELSE [DamageAt(c, At(c, id)) EXCEPT !.surfaces = RemoveAt(@, At(c, id))]

\* Mutant of compositor_move_surface: the place it leaves is not damaged.
compositor_move_surface_new_only(c, id, x, y) ==
    IF find_surface(c, id) = {} THEN c
    ELSE LET i == At(c, id) IN
         DamageAt([c EXCEPT !.surfaces[i].x = x, !.surfaces[i].y = y], i)

compositor_move_surface(c, id, x, y) ==
    IF find_surface(c, id) = {} THEN c
    ELSE LET i == At(c, id) IN
         DamageAt([DamageAt(c, i) EXCEPT !.surfaces[i].x = x, !.surfaces[i].y = y], i)

\* The old buffer is freed before the new one is there.  Without memory the
\* surface keeps its size, has no buffer and is not damaged.
compositor_resize_surface(c, id, w, h, memory) ==
    IF w <= 0 \/ h <= 0 \/ find_surface(c, id) = {} THEN c
    ELSE LET i == At(c, id) IN
         IF ~ memory THEN [c EXCEPT !.surfaces[i].buffer = FALSE]
         ELSE DamageAt([DamageAt(c, i) EXCEPT !.surfaces[i].buffer = TRUE,
                                              !.surfaces[i].w = w, !.surfaces[i].h = h], i)

compositor_set_alpha(c, id, alpha) ==
    IF find_surface(c, id) = {} THEN c
    ELSE LET i == At(c, id) IN
         DamageAt([c EXCEPT !.surfaces[i].alpha = Max({0, Min({alpha, Opaque})})], i)

SetVisible(c, id, visible) ==
    IF find_surface(c, id) = {} \/ c.surfaces[At(c, id)].visible = visible THEN c
    ELSE DamageAt([c EXCEPT !.surfaces[At(c, id)].visible = visible], At(c, id))

compositor_show_surface(c, id) == SetVisible(c, id, TRUE)
compositor_hide_surface(c, id) == SetVisible(c, id, FALSE)

\* The index is found before the sort and damaged after it: what is damaged is
\* the surface that moved into the place.
compositor_raise_surface(c, id) ==
    IF find_surface(c, id) = {} THEN c
    ELSE LET i == At(c, id)
             peers == {s \in ToSet(c.surfaces) : s.layer = c.surfaces[i].layer}
             max_z == Max({0} \cup {s.z_order : s \in peers})
         IN  DamageAt([c EXCEPT !.surfaces =
                          sort_by_z([c.surfaces EXCEPT ![i].z_order = max_z + 1])], i)

compositor_lower_surface(c, id) ==
    IF find_surface(c, id) = {} \/ c.surfaces[At(c, id)].z_order <= 0 THEN c
    ELSE LET i == At(c, id) IN
         DamageAt([c EXCEPT !.surfaces = sort_by_z([c.surfaces EXCEPT ![i].z_order = @ - 1])], i)

compositor_damage_surface(c, id) ==
    IF find_surface(c, id) = {} THEN c ELSE DamageAt(c, At(c, id))

-----------------------------------------------------------------------------
\* What composite_region puts at p: the surfaces over it from the last opaque
\* one upwards, each with the offset its pixel is taken from.
Shown(c, p) ==
    LET over == SelectSeq(c.surfaces, LAMBDA s : s.visible /\ s.buffer /\ Inside(p, RectOf(s)))
        base == Max({1} \cup {i \in DOMAIN over : over[i].alpha = Opaque})
    IN  [i \in 1 .. Len(over) - base + 1 |->
            LET s == over[base + i - 1] IN <<s.id, p[1] - s.x, p[2] - s.y, s.alpha>>]

\* The pixels compositor_composite repaints.
Damaged(c) ==
    IF c.full_redraw THEN Pixels
    ELSE {p \in Pixels : \E i \in DOMAIN c.damage : Inside(p, c.damage[i])}

CompositorInit ==
    /\ comp = compositor_new(MaxDamage)
    /\ outdated = Pixels /\ excused = {} /\ calls = 0

\* A call took the compositor to c; those that reorder are excused.
Called(c, reorders) ==
    LET changed == {p \in Pixels : Shown(c, p) # Shown(comp, p)} IN
    /\ c # comp
    /\ comp' = c
    /\ outdated' = outdated \cup changed
    /\ excused' = IF reorders THEN excused \cup (changed \ Damaged(c)) ELSE excused

create(r, layer) ==
    /\ comp.next_id <= MaxSurfaceId
    /\ Called(compositor_create_surface(comp, r, layer).comp, FALSE)
    /\ UNCHANGED calls

\* A client draws into the surface's buffer and damages it.
draw(id) ==
    /\ comp' = compositor_damage_surface(comp, id)
    /\ outdated' = outdated \cup {p \in Pixels : \E i \in DOMAIN Shown(comp, p) :
                                                    Shown(comp, p)[i][1] = id}
    /\ UNCHANGED excused

\* Raise and lower, as long as the depths stay in bounds.
Reordered(c) ==
    /\ \A s \in ToSet(c.surfaces) : s.z_order \in Depths
    /\ Called(c, TRUE)

change(id) ==
    /\ calls < MaxCalls /\ calls' = calls + 1
    /\ \/ Called(compositor_destroy_surface(comp, id), FALSE)
       \/ \E r \in Rects : Called(compositor_move_surface(comp, id, r.x, r.y), FALSE)
       \/ \E r \in Rects, memory \in BOOLEAN :
             Called(compositor_resize_surface(comp, id, r.w, r.h, memory), ~ memory)
       \/ \E alpha \in Alphas : Called(compositor_set_alpha(comp, id, alpha), FALSE)
       \/ Called(compositor_show_surface(comp, id), FALSE)
       \/ Called(compositor_hide_surface(comp, id), FALSE)
       \/ Reordered(compositor_raise_surface(comp, id))
       \/ Reordered(compositor_lower_surface(comp, id))
       \/ draw(id)

compositor_composite ==
    /\ comp' = [comp EXCEPT !.full_redraw = FALSE, !.damage = << >>]
    /\ outdated' = outdated \ Damaged(comp)
    /\ excused' = excused \ Damaged(comp)
    /\ UNCHANGED calls

CompositorNext ==
    \/ \E r \in Rects, layer \in Layers : create(r, layer)
    \/ \E id \in 1 .. MaxSurfaceId : change(id)
    \/ compositor_composite

CompositorSpec == CompositorInit /\ [][CompositorNext]_compVars

-----------------------------------------------------------------------------
\* The table stays sorted by depth, identifiers are never shared, and a pixel
\* whose picture changed is waiting to be repainted: after any calls, merges and
\* overflows of the damage list, what the framebuffer shows outside the damage
\* is current.  Excused are only pixels a raise or lower moved past several
\* surfaces at once, since those two damage the wrong rectangle, and those of a
\* resize that found no memory (compositor_damage, compositor_composite).
FrameCurrent ==
    /\ \A i, j \in DOMAIN comp.surfaces :
          i < j => /\ comp.surfaces[i].z_order <= comp.surfaces[j].z_order
                   /\ comp.surfaces[i].id # comp.surfaces[j].id
    /\ Len(comp.damage) <= comp.max_damage
    /\ outdated \subseteq Damaged(comp) \cup excused

-------------------------------------------------------------------------------
(* The window manager (graphics/wm/wm.c): a table of windows kept sorted by    *)
(* depth, keyboard focus, the states a window can be in, and dragging and      *)
(* resizing with the mouse.  Every window owns two surfaces of the compositor, *)
(* whose calls are those above, made in the same step.                         *)
(*                                                                             *)
(* Every function is an operator from the manager's record to its next value,  *)
(* as the handlers call one another.  The client rectangle is recomputed after *)
(* each change of the window's rectangle, so it is an operator of it.  Of the  *)
(* messages to clients only the ones about focus are kept.  The compositor     *)
(* asks for a full redraw throughout, so wm_set_title and wm_draw_all, which   *)
(* only damage surfaces, and the two key handlers, which only send, are left   *)
(* out.                                                                        *)

CONSTANTS
    ScreenW, ScreenH, TaskbarH,
    MinWidth, MinHeight, TitlebarH, BorderW, ResizeHandle, SnapThreshold,
    ButtonPitch, ButtonWidth,   \* 24 and 20 in wm_hit_test
    CascadeStart, CascadeStep,  \* 60 and 28 in cascade_position
    MaxWindows,                 \* WM_MAX_WINDOWS
    NewWindows,                 \* [owned, r, flags] of the windows created
    WindowRects,                \* rectangles clients move and resize to
    Points,                     \* places of the mouse
    MaxWindowId,                \* bound: windows created
    MaxEvents                   \* bound: calls and mouse events

ASSUME WindowConstants ==
    /\ {ScreenW, ScreenH, TaskbarH, MinWidth, MinHeight, TitlebarH, BorderW, ResizeHandle,
        SnapThreshold, ButtonPitch, ButtonWidth, CascadeStart, CascadeStep, MaxWindows,
        MaxWindowId, MaxEvents} \subseteq Nat
    /\ MinWidth <= ScreenW /\ MinHeight <= ScreenH - TaskbarH
    /\ \A n \in NewWindows : n.flags \subseteq {"RESIZABLE", "DECORATED", "OTHER"}
    /\ Points \subseteq Int \X Int

VARIABLES
    wm,     \* the manager: its windows, focus, drag and compositor
    events  \* calls and mouse events that changed it, for the bound

wmVars == <<wm, events>>

NoWindow == -1

\* wm_new over a compositor that keeps no damage list: every damage asks for a
\* full redraw, which is all the window manager's properties need.
wm_new ==
    [comp |-> compositor_new(0), windows |-> << >>, next_win_id |-> 1,
     focused_id |-> NoWindow, drag_win_id |-> NoWindow, drag_mode |-> {},
     drag_start |-> [mx |-> 0, my |-> 0, x |-> 0, y |-> 0, w |-> 0, h |-> 0],
     snap |-> [active |-> FALSE, x |-> 0], cascade |-> CascadeStart,
     told |-> [id \in 1 .. MaxWindowId |-> FALSE]]

Exists(m, id) == \E i \in DOMAIN m.windows : m.windows[i].id = id

Slot(m, id) == CHOOSE i \in DOMAIN m.windows : m.windows[i].id = id

Win(m, id) == m.windows[Slot(m, id)]

\* update_client_rect.
ClientRect(w) ==
    IF "DECORATED" \in w.flags
    THEN [x |-> w.x + BorderW, y |-> w.y + TitlebarH, w |-> Max({0, w.w - 2 * BorderW}),
          h |-> Max({0, w.h - TitlebarH - BorderW})]
    ELSE RectOf(w)

WorkArea == [x |-> 0, y |-> 0, w |-> ScreenW, h |-> ScreenH - TaskbarH]
Screen == [x |-> 0, y |-> 0, w |-> ScreenW, h |-> ScreenH]

WithRect(w, r) == [w EXCEPT !.x = r.x, !.y = r.y, !.w = r.w, !.h = r.h]

\* Move and resize a surface, as restore, maximise and fullscreen do.
PutSurface(c, id, r) ==
    compositor_resize_surface(compositor_move_surface(c, id, r.x, r.y), id, r.w, r.h, TRUE)

PutSurfaces(c, w, client) == PutSurface(PutSurface(c, w.frame, RectOf(w)), w.client, client)

\* Mutant of wm_focus_window: the window that had the focus keeps its flag.
wm_focus_window_keeps_others(m, id) ==
    IF ~ Exists(m, id) \/ ~ Win(m, id).visible THEN m
    ELSE [m EXCEPT !.windows[Slot(m, id)].focused = TRUE, !.focused_id = id,
                   !.told[id] = Win(m, id).owned,
                   !.comp = compositor_raise_surface(@, Win(m, id).frame)]

\* The other windows lose the focus and are told; the window's surfaces come to
\* the front, its depth among the windows stays.
wm_focus_window(m, id) ==
    IF ~ Exists(m, id) \/ ~ Win(m, id).visible THEN m
    ELSE LET w == Win(m, id)
             losers == SelectSeq(m.windows, LAMBDA o : o.focused /\ o.id # id)
             damaged == FoldLeft(LAMBDA c, o : compositor_damage_surface(c, o.frame),
                                 m.comp, losers)
             raised == compositor_raise_surface(compositor_raise_surface(damaged, w.frame),
                                                w.client)
             heard == {o.id : o \in {o \in ToSet(losers) : o.owned}}
         IN  [m EXCEPT
                !.windows = sort_by_z([i \in DOMAIN m.windows |->
                                [m.windows[i] EXCEPT !.focused = m.windows[i].id = id]]),
                !.focused_id = id,
                !.comp = compositor_damage_surface(raised, w.frame),
                !.told = [i \in DOMAIN @ |-> IF i = id THEN @[i] \/ w.owned
                                             ELSE @[i] /\ i \notin heard]]

\* Where wm_create_window puts a new window.
Placed(m, r) ==
    LET w == Max({r.w, MinWidth})
        h == Max({r.h, MinHeight})
        x0 == IF r.x < 0 /\ r.y < 0 THEN m.cascade ELSE r.x
        y0 == IF r.x < 0 /\ r.y < 0 THEN m.cascade ELSE r.y
        x1 == IF x0 + w > ScreenW THEN ScreenW - w - BorderW ELSE x0
        y1 == IF y0 + h > ScreenH - TaskbarH THEN ScreenH - TaskbarH - h - BorderW ELSE y0
    IN  [x |-> Max({0, x1}), y |-> Max({0, y1}), w |-> w, h |-> h]

\* cascade_position: both coordinates advance together.
Cascaded(m, r) ==
    IF ~ (r.x < 0 /\ r.y < 0) THEN m.cascade
    ELSE IF m.cascade + CascadeStep > ScreenW \div 2 THEN CascadeStart
    ELSE m.cascade + CascadeStep

wm_create_window(m, owned, r, flags) ==
    IF Len(m.windows) >= MaxWindows THEN m
    ELSE LET id == m.next_win_id
             place == Placed(m, r)
             bare == [id |-> id, x |-> place.x, y |-> place.y, w |-> place.w, h |-> place.h,
                      restore |-> [x |-> 0, y |-> 0, w |-> 0, h |-> 0],
                      state |-> "NORMAL", focused |-> FALSE, visible |-> TRUE,
                      flags |-> IF flags = {} THEN {"DECORATED", "RESIZABLE"} ELSE flags,
                      frame |-> 0, client |-> 0, owned |-> owned,
                      z_order |-> 100 + Len(m.windows) + 1]
             frame == compositor_create_surface(m.comp, place, "NORMAL")
             client == compositor_create_surface(frame.comp, ClientRect(bare), "NORMAL")
             w == [bare EXCEPT !.frame = frame.id, !.client = client.id]
         IN  wm_focus_window([m EXCEPT !.windows = Append(@, w), !.next_win_id = @ + 1,
                                       !.cascade = Cascaded(m, r),
                                       !.comp = compositor_raise_surface(client.comp, frame.id)],
                             id)

\* Surfaces with identifiers above zero are destroyed; the focus goes to the last
\* window of the table, if that one is visible.
wm_destroy_window(m, id) ==
    IF ~ Exists(m, id) THEN m
    ELSE LET w == Win(m, id)
             c1 == IF w.client > 0 THEN compositor_destroy_surface(m.comp, w.client) ELSE m.comp
             c2 == IF w.frame > 0 THEN compositor_destroy_surface(c1, w.frame) ELSE c1
             left == RemoveAt(m.windows, Slot(m, id))
             gone == [m EXCEPT !.windows = left, !.comp = c2, !.told[id] = FALSE]
         IN  IF m.focused_id # id THEN gone
             ELSE IF left = << >> THEN [gone EXCEPT !.focused_id = NoWindow]
             ELSE wm_focus_window([gone EXCEPT !.focused_id = NoWindow], Last(left).id)

HideSurfaces(c, w) == compositor_hide_surface(compositor_hide_surface(c, w.frame), w.client)
ShowSurfaces(c, w) == compositor_show_surface(compositor_show_surface(c, w.frame), w.client)

\* The focus goes to the uppermost visible window, if any.
wm_minimize_window(m, id) ==
    IF ~ Exists(m, id) THEN m
    ELSE LET hidden == [m EXCEPT !.windows[Slot(m, id)].state = "MINIMIZED",
                                 !.windows[Slot(m, id)].visible = FALSE,
                                 !.comp = HideSurfaces(@, Win(m, id))]
             heirs == {i \in DOMAIN hidden.windows : hidden.windows[i].visible}
         IN  IF m.focused_id # id THEN hidden
             ELSE IF heirs = {} THEN [hidden EXCEPT !.focused_id = NoWindow]
             ELSE wm_focus_window([hidden EXCEPT !.focused_id = NoWindow],
                                  hidden.windows[Max(heirs)].id)

wm_restore_window(m, id) ==
    IF ~ Exists(m, id) THEN m
    ELSE LET w == Win(m, id)
             back == w.state \in {"MAXIMIZED", "FULLSCREEN"}
             r == IF back THEN WithRect(w, w.restore) ELSE w
             c == IF back THEN PutSurfaces(m.comp, r, ClientRect(r)) ELSE m.comp
         IN  wm_focus_window([m EXCEPT !.windows[Slot(m, id)] =
                                          [r EXCEPT !.state = "NORMAL", !.visible = TRUE],
                                       !.comp = ShowSurfaces(c, r)], id)

\* Maximise and fullscreen: remember the rectangle and take the whole area; asked
\* again, restore.
Enlarge(m, id, area, state) ==
    IF ~ Exists(m, id) THEN m
    ELSE IF Win(m, id).state = state THEN wm_restore_window(m, id)
    ELSE LET w == Win(m, id)
             big == [WithRect(w, area) EXCEPT !.restore = RectOf(w), !.state = state]
             client == IF state = "FULLSCREEN" THEN Screen ELSE ClientRect(big)
         IN  [m EXCEPT !.windows[Slot(m, id)] = big, !.comp = PutSurfaces(@, big, client)]

wm_maximize_window(m, id) == Enlarge(m, id, WorkArea, "MAXIMIZED")
wm_fullscreen_window(m, id) == Enlarge(m, id, Screen, "FULLSCREEN")

\* A client is asked to close its window; a window without one is destroyed.
wm_close_window(m, id) ==
    IF Exists(m, id) /\ ~ Win(m, id).owned THEN wm_destroy_window(m, id) ELSE m

wm_resize_window(m, id, nw, nh) ==
    IF ~ Exists(m, id) THEN m
    ELSE LET w == [Win(m, id) EXCEPT !.w = Max({nw, MinWidth}), !.h = Max({nh, MinHeight})]
             c == compositor_resize_surface(m.comp, w.frame, w.w, w.h, TRUE)
         IN  [m EXCEPT !.windows[Slot(m, id)] = w,
                       !.comp = PutSurface(c, w.client, ClientRect(w))]

wm_move_window(m, id, x, y) ==
    IF ~ Exists(m, id) THEN m
    ELSE LET w == [Win(m, id) EXCEPT !.x = x, !.y = y]
             c == compositor_move_surface(m.comp, w.frame, x, y)
         IN  [m EXCEPT !.windows[Slot(m, id)] = w,
                       !.comp = compositor_move_surface(c, w.client, ClientRect(w).x,
                                                        ClientRect(w).y)]

wm_show_window(m, id) ==
    IF ~ Exists(m, id) THEN m
    ELSE wm_focus_window([m EXCEPT !.windows[Slot(m, id)].visible = TRUE,
                                   !.comp = ShowSurfaces(@, Win(m, id))], id)

\* The focus stays where it was.
wm_hide_window(m, id) ==
    IF ~ Exists(m, id) THEN m
    ELSE [m EXCEPT !.windows[Slot(m, id)].visible = FALSE,
                   !.comp = HideSurfaces(@, Win(m, id))]

\* The surface raised is that of the window which the sort moved into the slot.
wm_raise_window(m, id) ==
    IF ~ Exists(m, id) THEN m
    ELSE LET i == Slot(m, id)
             max_z == Max({0} \cup {w.z_order : w \in ToSet(m.windows)})
             sorted == sort_by_z([m.windows EXCEPT ![i].z_order = max_z + 1])
         IN  [m EXCEPT !.windows = sorted,
                       !.comp = compositor_raise_surface(@, sorted[i].frame)]

wm_lower_window(m, id) ==
    IF ~ Exists(m, id) THEN m
    ELSE [m EXCEPT !.windows = sort_by_z([m.windows EXCEPT
                                             ![Slot(m, id)].z_order = Max({0, @ - 1})])]

-----------------------------------------------------------------------------
(* The mouse.                                                                *)

Touchable(w, p) == w.visible /\ w.state # "MINIMIZED" /\ Inside(p, RectOf(w))

\* The k-th button from the right of the title bar.
OnButton(w, p, k) ==
    LET left == w.x + w.w - k * ButtonPitch IN left <= p[1] /\ p[1] < left + ButtonWidth

\* The edges of w within reach of p.
Edges(w, p) ==
    {e \in {"N", "S", "W", "E"} :
        CASE e = "N" -> p[2] < w.y + ResizeHandle
          [] e = "S" -> p[2] >= w.y + w.h - ResizeHandle
          [] e = "W" -> p[1] < w.x + ResizeHandle
          [] e = "E" -> p[1] >= w.x + w.w - ResizeHandle}

\* The zone of w at p; an edge zone is the set of edges it drags, at most one of
\* each direction, the first of N, S and of W, E.
Zone(w, p) ==
    IF "DECORATED" \notin w.flags THEN {"CLIENT"}
    ELSE IF p[2] < w.y + TitlebarH
         THEN IF OnButton(w, p, 1) THEN {"CLOSE"}
              ELSE IF OnButton(w, p, 2) THEN {"MAXIMIZE"}
              ELSE IF OnButton(w, p, 3) THEN {"MINIMIZE"}
              ELSE {"TITLEBAR"}
    ELSE IF "RESIZABLE" \notin w.flags \/ Edges(w, p) = {} THEN {"CLIENT"}
    ELSE LET e == Edges(w, p)
             vertical == IF "N" \in e THEN {"N"} ELSE e \cap {"S"}
             corner == IF "W" \in e THEN {"W"} ELSE e \cap {"E"}
         IN  vertical \cup corner

\* wm_hit_test: the uppermost window at p, if any.
HitSlots(m, p) == {i \in DOMAIN m.windows : Touchable(m.windows[i], p)}

wm_mouse_down(m, p) ==
    IF HitSlots(m, p) = {} THEN m
    ELSE LET id == m.windows[Max(HitSlots(m, p))].id
             zone == Zone(Win(m, id), p)
             f == IF id # m.focused_id THEN wm_focus_window(m, id) ELSE m
             w == Win(f, id)
             start == [mx |-> p[1], my |-> p[2], x |-> w.x, y |-> w.y, w |-> w.w, h |-> w.h]
         IN  CASE zone = {"CLOSE"}    -> wm_close_window(f, id)
               [] zone = {"MAXIMIZE"} -> wm_maximize_window(f, id)
               [] zone = {"MINIMIZE"} -> wm_minimize_window(f, id)
               [] zone = {"CLIENT"}   -> f
               [] zone = {"TITLEBAR"} ->
                     [f EXCEPT !.drag_win_id = id, !.drag_mode = {"MOVE"},
                               !.drag_start = [start EXCEPT !.w = f.drag_start.w,
                                                            !.h = f.drag_start.h]]
               [] OTHER ->
                     [f EXCEPT !.drag_win_id = id, !.drag_mode = zone, !.drag_start = start]

\* The window snaps to the half it was dragged to.
wm_mouse_up(m) ==
    LET id == m.drag_win_id
        snapped == /\ m.drag_mode = {"MOVE"} /\ id > 0 /\ Exists(m, id) /\ m.snap.active
        moved == wm_move_window(m, id, m.snap.x, 0)
        w == Win(moved, id)
        placed == IF ~ snapped THEN m
                  ELSE IF <<w.w, w.h>> = <<ScreenW \div 2, WorkArea.h>> THEN moved
                  ELSE wm_resize_window(moved, id, ScreenW \div 2, WorkArea.h)
    IN  [placed EXCEPT !.drag_win_id = NoWindow, !.drag_mode = {}, !.snap.active = FALSE]

\* Dragging a title bar: snap at the left and right, maximise at the top, else
\* follow the mouse with the title bar kept on the work area.
Dragged(m, p) ==
    LET id == m.drag_win_id
        r == IF Win(m, id).state = "MAXIMIZED" THEN wm_restore_window(m, id) ELSE m
        calm == [r EXCEPT !.snap.active = FALSE]
        ny == m.drag_start.y + p[2] - m.drag_start.my
        lowest == ScreenH - TaskbarH - TitlebarH
    IN  IF p[1] <= SnapThreshold THEN [r EXCEPT !.snap = [active |-> TRUE, x |-> 0]]
        ELSE IF p[1] >= ScreenW - SnapThreshold
             THEN [r EXCEPT !.snap = [active |-> TRUE, x |-> ScreenW \div 2]]
        ELSE IF p[2] <= SnapThreshold
             THEN [wm_maximize_window(calm, id) EXCEPT !.drag_win_id = NoWindow]
        ELSE wm_move_window(calm, id, m.drag_start.x + p[1] - m.drag_start.mx,
                            IF ny < 0 THEN 0 ELSE IF ny > lowest THEN lowest ELSE ny)

\* Mutant of Stretched: at the smallest size the window goes on moving.
Stretched_slides(w, start, edges, dx, dy) ==
    LET nw == IF "E" \in edges THEN start.w + dx ELSE IF "W" \in edges THEN start.w - dx ELSE w.w
        nh == IF "S" \in edges THEN start.h + dy ELSE IF "N" \in edges THEN start.h - dy ELSE w.h
    IN  [x |-> IF "W" \in edges THEN start.x + dx ELSE w.x,
         y |-> IF "N" \in edges THEN start.y + dy ELSE w.y,
         w |-> Max({nw, MinWidth}), h |-> Max({nh, MinHeight})]

\* The rectangle of window w after its edges were dragged by dx and dy.
Stretched(w, start, edges, dx, dy) ==
    LET nw == IF "E" \in edges THEN start.w + dx ELSE IF "W" \in edges THEN start.w - dx ELSE w.w
        nh == IF "S" \in edges THEN start.h + dy ELSE IF "N" \in edges THEN start.h - dy ELSE w.h
    IN  [x |-> IF "W" \notin edges THEN w.x
               ELSE IF nw < MinWidth THEN w.x + w.w - MinWidth ELSE start.x + dx,
         y |-> IF "N" \notin edges THEN w.y
               ELSE IF nh < MinHeight THEN w.y + w.h - MinHeight ELSE start.y + dy,
         w |-> Max({nw, MinWidth}), h |-> Max({nh, MinHeight})]

wm_mouse_move(m, p) ==
    IF m.drag_win_id < 0 \/ m.drag_mode = {} \/ ~ Exists(m, m.drag_win_id) THEN m
    ELSE IF m.drag_mode = {"MOVE"} THEN Dragged(m, p)
    ELSE LET id == m.drag_win_id
             r == Stretched(Win(m, id), m.drag_start, m.drag_mode,
                            p[1] - m.drag_start.mx, p[2] - m.drag_start.my)
         IN  wm_resize_window(wm_move_window(m, id, r.x, r.y), id, r.w, r.h)

-----------------------------------------------------------------------------
WindowManagerInit == wm = wm_new /\ events = 0

\* A handler took the manager to m.
Handled(m) == /\ m # wm /\ wm' = m
              /\ events < MaxEvents /\ events' = events + 1

create_window(n) ==
    /\ wm.next_win_id <= MaxWindowId
    /\ Handled(wm_create_window(wm, n.owned, n.r, n.flags))

\* What programs and the desktop ask for.
client_call(id) ==
    \/ Handled(wm_destroy_window(wm, id))
    \/ Handled(wm_focus_window(wm, id))
    \/ Handled(wm_minimize_window(wm, id))
    \/ Handled(wm_restore_window(wm, id))
    \/ Handled(wm_maximize_window(wm, id))
    \/ Handled(wm_fullscreen_window(wm, id))
    \/ Handled(wm_close_window(wm, id))
    \/ Handled(wm_show_window(wm, id))
    \/ Handled(wm_hide_window(wm, id))
    \/ Handled(wm_raise_window(wm, id))
    \/ Handled(wm_lower_window(wm, id))
    \/ \E r \in WindowRects : \/ Handled(wm_resize_window(wm, id, r.w, r.h))
                              \/ Handled(wm_move_window(wm, id, r.x, r.y))

mouse ==
    \/ \E p \in Points : Handled(wm_mouse_down(wm, p)) \/ Handled(wm_mouse_move(wm, p))
    \/ Handled(wm_mouse_up(wm))

WindowManagerNext ==
    \/ \E n \in NewWindows : create_window(n)
    \/ \E id \in 1 .. MaxWindowId : client_call(id)
    \/ mouse

WindowManagerSpec == WindowManagerInit /\ [][WindowManagerNext]_wmVars

-----------------------------------------------------------------------------
\* Windows keep distinct identifiers, the order of their depths and at least the
\* smallest size.  At most one has the focus flag; if the manager has a focused
\* window, it exists and is that one; and each client knows whether its window
\* has the focus: it was told so and has not been told otherwise since
\* (wm_focus_window, wm_destroy_window, wm_minimize_window, wm_resize_window).
WindowsSound ==
    /\ \A i, j \in DOMAIN wm.windows :
          i < j => /\ wm.windows[i].id # wm.windows[j].id
                   /\ wm.windows[i].z_order <= wm.windows[j].z_order
                   /\ ~ (wm.windows[i].focused /\ wm.windows[j].focused)
    /\ \A w \in ToSet(wm.windows) :
          /\ w.id < wm.next_win_id /\ w.w >= MinWidth /\ w.h >= MinHeight
          /\ w.owned => wm.told[w.id] = w.focused
    /\ wm.focused_id # NoWindow =>
          Exists(wm, wm.focused_id) /\ Win(wm, wm.focused_id).focused

\* Dragging the left edge of a window leaves its right edge in place, also when
\* the mouse goes beyond the smallest size, and dragging the right or lower edge
\* leaves the upper left corner in place (wm_mouse_move).
EdgeAnchored ==
    [][\A w \in ToSet(wm.windows) :
          /\ w.id = wm.drag_win_id /\ wm.drag_mode \cap {"W", "E", "S"} # {}
          /\ w.x + w.w = wm.drag_start.x + wm.drag_start.w
          /\ wm' # wm /\ \E p \in Points : wm' = wm_mouse_move(wm, p)
          => LET v == Win(wm', w.id) IN
             /\ "W" \in wm.drag_mode => v.x + v.w = w.x + w.w
             /\ "W" \notin wm.drag_mode => v.x = w.x
             /\ v.y = w.y]_wmVars
===============================================================================
