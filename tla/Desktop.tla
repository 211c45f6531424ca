------------------------------- MODULE Desktop --------------------------------
(* What the desktop puts on the screen beside the windows.                   *)
EXTENDS Integers, Sequences, SequencesExt, FiniteSetsExt

\* C's division rounds towards zero.
CDiv(a, b) == IF (a >= 0) = (b > 0) THEN (IF a >= 0 THEN a ELSE -a) \div (IF b > 0 THEN b ELSE -b)
              ELSE -((IF a >= 0 THEN a ELSE -a) \div (IF b > 0 THEN b ELSE -b))

-------------------------------------------------------------------------------
(***************************************************************************)
(* The desktop (graphics/desktop/desktop.c): icons, their context menu,    *)
(* dragging and the rubber band.  Coordinates and sizes are small numbers  *)
(* with the code's arithmetic.  The icons are an array with a count: what  *)
(* lies past the count stays there.  An icon's picture is left out.        *)
(***************************************************************************)

CONSTANTS
    DESKTOP_MAX_ICONS, DESKTOP_ICONS_PER_COL, DESKTOP_ICON_SIZE, DESKTOP_ICON_LABEL_H,
    DESKTOP_ICON_SPACING,   \* in both directions; the grid starts at the corner
    DesktopW, DesktopH,
    CONTEXT_W, CONTEXT_ITEM_H, ContextBorder,   \* the border above and below the items
    DefaultIcons,           \* desktop_load_icons: <<label, type>> in order
    DesktopPoints,          \* where the mouse goes
    Wallpapers,
    MaxDeskEvents           \* bound on events

ASSUME DesktopConstants ==
    DESKTOP_MAX_ICONS \in Nat /\ Len(DefaultIcons) <= DESKTOP_MAX_ICONS /\ CONTEXT_ITEM_H \in Nat \ {0}

VARIABLES
    desk,        \* struct Desktop
    painted,     \* what desktop_draw last put on the screen
    launched,    \* the program started by the last event, or "none"
    stale,       \* history: of the indices "selected" and "target", how many places
                 \* their icon moved up since they were taken, Lost once it is gone;
                 \* banded: a rubber band chose the icons after the last click
    deskEvents   \* history: how many events there were

desktopVars == <<desk, painted, launched, stale, deskEvents>>

Lost == DESKTOP_MAX_ICONS

\* An icon without a program ("New File") has exec "none".
Icon(label, type, exec) ==
    [label |-> label, type |-> type, exec |-> exec, x |-> 0, y |-> 0, selected |-> FALSE, hovered |-> FALSE]

NoIcon == Icon("none", "file", "none")
Slots == 1 .. DESKTOP_MAX_ICONS

arrange_icons(d) ==
    [d EXCEPT !.icons = [i \in Slots |->
        IF i > d.icon_count THEN d.icons[i]
        ELSE [d.icons[i] EXCEPT !.x = ((i - 1) \div DESKTOP_ICONS_PER_COL) * DESKTOP_ICON_SPACING,
                                !.y = ((i - 1) % DESKTOP_ICONS_PER_COL) * DESKTOP_ICON_SPACING]]]

desktop_add_icon(d, label, type, exec) ==
    IF d.icon_count >= DESKTOP_MAX_ICONS THEN d
    ELSE arrange_icons([d EXCEPT !.icon_count = @ + 1, !.needs_redraw = TRUE,
                                 !.icons[d.icon_count + 1] = Icon(label, type, exec)])

desktop_load_icons(d) ==
    FoldLeft(LAMBDA e, icon : desktop_add_icon(e, icon[1], icon[2], icon[1]), d, DefaultIcons)

\* selected_icon and ctx_target_icon keep their values.
desktop_refresh(d) == [desktop_load_icons([d EXCEPT !.icon_count = 0]) EXCEPT !.needs_redraw = TRUE]

\* The image may not load; then the plain background is drawn.
desktop_set_wallpaper(d, image) == [d EXCEPT !.wallpaper = image, !.needs_redraw = TRUE]

\* memmove and arrange_icons.  Past the count the length of the move is negative.
RemoveIcon(d, i) ==
    IF i > d.icon_count THEN [d EXCEPT !.wild = TRUE]
    ELSE arrange_icons([d EXCEPT !.icon_count = @ - 1,
                                 !.icons = [j \in Slots |-> IF j \in i .. d.icon_count - 1
                                                            THEN d.icons[j + 1] ELSE d.icons[j]]])

\* Where the icons that the indices stood for are after icon i is removed.
AfterRemoval(i) ==
    LET index == [selected |-> desk.selected_icon, target |-> desk.target] IN
    [k \in DOMAIN stale |-> IF k = "banded" THEN stale[k] ELSE
        LET at == index[k] - stale[k] IN
        CASE index[k] = 0 \/ stale[k] = Lost -> stale[k]
          [] at = i -> Lost
          [] at > i -> stale[k] + 1
          [] OTHER -> stale[k]]
AllLost == [stale EXCEPT !.selected = Lost, !.target = Lost]

icon_hit(icon, p) ==
    /\ p[1] \in icon.x .. icon.x + DESKTOP_ICON_SIZE - 1
    /\ p[2] \in icon.y .. icon.y + DESKTOP_ICON_SIZE + DESKTOP_ICON_LABEL_H - 1

MenuHeight(n) == n * CONTEXT_ITEM_H + 2 * ContextBorder

\* The menu is moved to fit; the four pixels of slack are left out.
Menu(p, items) ==
    [visible |-> TRUE, items |-> items, hovered |-> 0,
     x |-> IF p[1] + CONTEXT_W > DesktopW THEN DesktopW - CONTEXT_W ELSE p[1],
     y |-> IF p[2] + MenuHeight(Len(items)) > DesktopH THEN DesktopH - MenuHeight(Len(items)) ELSE p[2]]

show_context_menu_desktop(d, p) ==
    [d EXCEPT !.target = 0, !.needs_redraw = TRUE,
              !.menu = Menu(p, <<"new_folder", "new_file", "-", "wallpaper", "-", "refresh">>)]

show_context_menu_icon(d, i, p) ==
    LET opens == CASE d.icons[i].type = "folder" -> <<"open", "open_terminal">>
                   [] d.icons[i].type = "file" -> <<"open", "open_with">>
                   [] OTHER -> <<"open">>
    IN  [d EXCEPT !.target = i, !.needs_redraw = TRUE,
                  !.menu = Menu(p, opens \o <<"-", "rename", "delete", "-", "properties">>)]

\* The item under y; counted from 1, and 1 above the first one as well.
ItemAt(m, y) == CDiv(y - m.y - ContextBorder, CONTEXT_ITEM_H) + 1

\* yes: what the dialog answers.  open_with has no branch.
dispatch_context_action(d, action, yes, image) ==
    CASE action = "delete" /\ d.target > 0 /\ yes -> RemoveIcon(d, d.target)
      [] action = "rename" /\ d.target > 0 /\ yes -> [d EXCEPT !.icons[d.target].label = "renamed"]
      [] action = "wallpaper" /\ yes -> desktop_set_wallpaper(d, image)
      [] action = "refresh" -> desktop_refresh(d)
      [] action = "new_folder" -> desktop_add_icon(d, "new folder", "folder", "home")
      [] action = "new_file" -> desktop_add_icon(d, "new file", "file", "none")
      [] OTHER -> d

Started(d, action) ==
    IF action \in {"open", "open_terminal"} /\ d.target > 0 THEN d.icons[d.target].exec ELSE "none"

\* The topmost icon under p, 0 without one.
Hit(d, p) ==
    LET under == {i \in 1 .. d.icon_count : icon_hit(d.icons[i], p)} IN IF under = {} THEN 0 ELSE Max(under)

Select(d, set) ==
    [d EXCEPT !.icons = [i \in Slots |-> IF i <= d.icon_count THEN [d.icons[i] EXCEPT !.selected = i \in set]
                                                            ELSE d.icons[i]]]

Mouse(d) == ~d.wild

ClickMenu(p, yes, image) ==
    LET m == desk.menu
        item == ItemAt(m, p[2])
        inside == p[1] \in m.x .. m.x + CONTEXT_W - 1 /\ p[2] \in m.y .. m.y + MenuHeight(Len(m.items)) - 1
        action == IF inside /\ item \in 1 .. Len(m.items) THEN m.items[item] ELSE "-"
        after == dispatch_context_action(desk, action, yes, image)
    IN  /\ Mouse(desk) /\ m.visible
        /\ desk' = [after EXCEPT !.menu.visible = FALSE, !.needs_redraw = TRUE]
        /\ launched' = Started(desk, action)
        /\ stale' = CASE action = "delete" /\ desk.target > 0 /\ yes -> AfterRemoval(desk.target)
                      [] action = "refresh" -> AllLost
                      [] OTHER -> stale
        /\ UNCHANGED painted

RightClick(p) ==
    LET i == Hit(desk, p) IN
    /\ Mouse(desk) /\ ~desk.menu.visible
    /\ desk' = IF i > 0 THEN show_context_menu_icon(desk, i, p) ELSE show_context_menu_desktop(desk, p)
    /\ launched' = "none" /\ stale' = [stale EXCEPT !.target = 0]
    /\ UNCHANGED painted

\* The first of the icons under p is started, not the topmost.
desktop_double_click(d, p) ==
    LET under == {i \in 1 .. d.icon_count : icon_hit(d.icons[i], p)}
    IN  IF under = {} THEN "none" ELSE d.icons[Min(under)].exec

\* soon: the clock of whole seconds has not moved since the last click.
LeftClick(p, soon) ==
    LET i == Hit(desk, p) IN
    /\ Mouse(desk) /\ ~desk.menu.visible
    /\ IF i > 0 /\ soon /\ desk.last_click_icon = i
       THEN desk' = desk /\ launched' = desktop_double_click(desk, p) /\ UNCHANGED stale
       ELSE /\ desk' = IF i > 0
                       THEN [Select(desk, {i}) EXCEPT !.selected_icon = i, !.last_click_icon = i,
                                !.drag_active = TRUE, !.needs_redraw = TRUE,
                                !.offset = <<p[1] - desk.icons[i].x, p[2] - desk.icons[i].y>>]
                       ELSE [Select(desk, {}) EXCEPT !.selected_icon = 0, !.needs_redraw = TRUE,
                                !.band = [active |-> TRUE, from |-> p, to |-> p]]
            /\ launched' = "none" /\ stale' = [stale EXCEPT !.selected = 0, !.banded = FALSE]
    /\ UNCHANGED painted

Between(v, a, b) == v \in Min({a, b}) .. Max({a, b})

Banded(d) ==
    {i \in 1 .. d.icon_count :
        /\ Between(d.icons[i].x + DESKTOP_ICON_SIZE \div 2, d.band.from[1], d.band.to[1])
        /\ Between(d.icons[i].y + DESKTOP_ICON_SIZE \div 2, d.band.from[2], d.band.to[2])}

desktop_mouse_up ==
    /\ Mouse(desk)
    /\ desk' = [(IF desk.band.active THEN Select(desk, Banded(desk)) ELSE desk)
                   EXCEPT !.drag_active = FALSE, !.band.active = FALSE, !.needs_redraw = TRUE]
    /\ stale' = [stale EXCEPT !.banded = @ \/ desk.band.active]
    /\ launched' = "none" /\ UNCHANGED painted

Inside(v, room) == IF v + DESKTOP_ICON_SIZE > room THEN room - DESKTOP_ICON_SIZE ELSE IF v < 0 THEN 0 ELSE v

\* Mutant of Hovering: the repaint is asked for by the last icon alone.
Hovering_last(d, p) ==
    LET h == [i \in Slots |-> [d.icons[i] EXCEPT !.hovered = IF i <= d.icon_count THEN icon_hit(d.icons[i], p) ELSE @]]
    IN  [d EXCEPT !.icons = h, !.needs_redraw = d.icon_count > 0 /\ h[d.icon_count] # d.icons[d.icon_count]]

Hovering(d, p) ==
    LET h == [i \in Slots |-> [d.icons[i] EXCEPT !.hovered = IF i <= d.icon_count THEN icon_hit(d.icons[i], p) ELSE @]]
    IN  [d EXCEPT !.icons = h, !.needs_redraw = @ \/ h # d.icons]

\* Dragging, then the band, then the menu, then the icons.
desktop_mouse_move(p) ==
    LET m == desk.menu
        item == ItemAt(m, p[2])
        over == IF p[1] \in m.x .. m.x + CONTEXT_W - 1 /\ item \in 1 .. Len(m.items) THEN item ELSE 0
        i == desk.selected_icon
    IN  /\ Mouse(desk)
        /\ desk' = CASE desk.drag_active /\ i > 0 ->
                            [desk EXCEPT !.icons[i].x = Inside(p[1] - desk.offset[1], DesktopW),
                                         !.icons[i].y = Inside(p[2] - desk.offset[2], DesktopH),
                                         !.needs_redraw = TRUE]
                     [] desk.band.active -> [desk EXCEPT !.band.to = p, !.needs_redraw = TRUE]
                     [] m.visible -> [desk EXCEPT !.menu.hovered = over, !.needs_redraw = @ \/ over # m.hovered]
                     [] OTHER -> Hovering(desk, p)
        /\ launched' = "none" /\ UNCHANGED <<painted, stale>>

desktop_key_down(key, yes) ==
    LET i == desk.selected_icon IN
    /\ Mouse(desk)
    /\ desk' = CASE desk.menu.visible /\ key = "escape" -> [desk EXCEPT !.menu.visible = FALSE, !.needs_redraw = TRUE]
                 [] key = "delete" /\ i > 0 /\ yes ->
                        LET d == RemoveIcon(desk, i) IN [d EXCEPT !.selected_icon = 0, !.needs_redraw = TRUE]
                 [] key = "delete" /\ i > 0 /\ ~yes -> [desk EXCEPT !.needs_redraw = TRUE]
                 [] key = "F5" -> desktop_refresh(desk)
                 [] key = "ctrl a" -> [Select(desk, Slots) EXCEPT !.needs_redraw = TRUE]
                 [] OTHER -> desk
    /\ launched' = IF key = "return" /\ i > 0 THEN desk.icons[i].exec ELSE "none"
    /\ stale' = CASE key = "F5" -> AllLost
                  [] key = "delete" /\ i \in 1 .. desk.icon_count /\ yes -> [AfterRemoval(i) EXCEPT !.selected = 0]
                  [] OTHER -> stale
    /\ UNCHANGED painted

draw_icon(icon) == [label |-> icon.label, type |-> icon.type, x |-> icon.x, y |-> icon.y,
                    look |-> IF icon.selected THEN "selected" ELSE IF icon.hovered THEN "hovered" ELSE "plain"]
draw_rubber_band(b) == IF b.active THEN <<b.from, b.to>> ELSE << >>
draw_context_menu(m) == IF m.visible THEN <<m>> ELSE << >>

View(d) ==
    [wallpaper |-> d.wallpaper, icons |-> [i \in 1 .. d.icon_count |-> draw_icon(d.icons[i])],
     band |-> draw_rubber_band(d.band), menu |-> draw_context_menu(d.menu)]

desktop_draw ==
    /\ Mouse(desk) /\ desk.needs_redraw
    /\ painted' = View(desk)
    /\ desk' = [desk EXCEPT !.needs_redraw = FALSE]
    /\ launched' = "none" /\ UNCHANGED stale

\* desktop_new: memset to 0, so that the first icon counts as the one last clicked.
desktop_new ==
    [icons |-> [i \in Slots |-> NoIcon], icon_count |-> 0, selected_icon |-> 0, target |-> 0,
     drag_active |-> FALSE, offset |-> <<0, 0>>, last_click_icon |-> 1, wallpaper |-> "none", wild |-> FALSE,
     band |-> [active |-> FALSE, from |-> <<0, 0>>, to |-> <<0, 0>>],
     menu |-> [visible |-> FALSE, items |-> << >>, hovered |-> 0, x |-> 0, y |-> 0], needs_redraw |-> TRUE]

DesktopInit ==
    /\ desk = desktop_load_icons(desktop_new)
    /\ painted = << >> /\ launched = "none" /\ stale = [selected |-> 0, target |-> 0, banded |-> FALSE] /\ deskEvents = 0

DesktopEvent ==
    \/ \E p \in DesktopPoints, yes \in BOOLEAN, w \in Wallpapers : ClickMenu(p, yes, w)
    \/ \E p \in DesktopPoints : RightClick(p) \/ desktop_mouse_move(p)
    \/ \E p \in DesktopPoints, soon \in BOOLEAN : LeftClick(p, soon)
    \/ \E k \in {"escape", "delete", "F5", "ctrl a", "return"}, yes \in BOOLEAN : desktop_key_down(k, yes)
    \/ desktop_mouse_up

DesktopNext ==
    \/ deskEvents < MaxDeskEvents /\ DesktopEvent /\ deskEvents' = deskEvents + 1
    \/ desktop_draw /\ UNCHANGED deskEvents

\* When no repaint is asked for, the screen shows the desktop as it is (every
\* handler sets needs_redraw).  The selection that Delete, Return and a drag act
\* on is an icon shown selected (a rubber band still open when an icon is pressed
\* chooses others), and the target of an open menu is an icon.  An
\* index kept over removals (the menu's Delete keeps selected_icon, the Delete
\* key keeps ctx_target_icon) is off by exactly the icons removed before its own,
\* and so acts on one that follows it; only when its own icon was removed or
\* reloaded is nothing left to say.  A removal past the count needs such an index.
DesktopSound ==
    /\ ~desk.needs_redraw => painted = View(desk)
    /\ (desk.selected_icon > 0 /\ stale.selected # Lost) =>
          LET i == desk.selected_icon - stale.selected IN i \in 1 .. desk.icon_count /\ (desk.icons[i].selected \/ stale.banded)
    /\ (desk.menu.visible /\ desk.target > 0 /\ stale.target # Lost) => desk.target - stale.target \in 1 .. desk.icon_count
    /\ desk.wild => stale.selected > 0 \/ stale.target > 0
    /\ desk.icon_count <= DESKTOP_MAX_ICONS

-------------------------------------------------------------------------------
(***************************************************************************)
(* The task bar and the launcher its start button opens                    *)
(* (graphics/desktop/taskbar.c, launcher.c).  The window manager's calls   *)
(* arrive in any order; what the bar asks of it is the last request.  The  *)
(* bar is laid out in pixels; the launcher in rows.                        *)
(***************************************************************************)

CONSTANTS
    TASKBAR_MAX_BTNS, BarWidth,
    BarWindows, Titles,
    BarPoints,                 \* x of the mouse on the bar
    LAUNCHER_MAX_VISIBLE,
    LauncherItems,             \* launcher_load_defaults: the names, as sequences of letters
    SearchLetters, MaxSearch,  \* sizeof search - 1
    MinRows,                   \* the height of 100 pixels, in rows
    Days,                      \* days since 1970 on which the clock is read
    MaxBarEvents               \* bound on events

ASSUME BarConstants == TASKBAR_MAX_BTNS \in Nat /\ LAUNCHER_MAX_VISIBLE \in Nat \ {0} /\ Days \subseteq Nat

VARIABLES
    bar,         \* struct Taskbar
    menu,        \* struct Launcher, the one of launcher_toggle; left (history): the
                 \* search that was in the box when it was last hidden
    barShown, menuShown,       \* what was drawn last
    asked,       \* the last request to the window manager or to nv_exec
    dismissed,   \* history: the launcher was closed other than by the start button
    arrowed,     \* history: an arrow key was the last to move highlight or list
    barEvents

taskbarVars == <<bar, menu, barShown, menuShown, asked, dismissed, arrowed, barEvents>>

(***************************************************************************)
(* The clock                                                               *)
(***************************************************************************)
Leap(y) == y % 4 = 0 /\ (y % 100 # 0 \/ y % 400 = 0)
DaysInYear(y) == IF Leap(y) THEN 366 ELSE 365
DaysInMonth(y, m) == IF m = 2 /\ Leap(y) THEN 29 ELSE <<31, 28, 31, 30, 31, 30, 31, 31, 30, 31, 30, 31>>[m]

\* The two loops: days left at the start of a year, then of a month.
LeftInYear[y \in Nat, d \in Nat] == IF d < DaysInYear(y) THEN <<y, d>> ELSE LeftInYear[y + 1, d - DaysInYear(y)]

\* Mutant of DateOf: the leap day is given to every year.
DateOf_leap(day) ==
    LET yd == LeftInYear[1970, day]
        days(m) == IF m = 2 THEN 29 ELSE DaysInMonth(1970, m)
        before(m) == MapThenSumSet(days, 1 .. m - 1)
        month == Max({k \in 1 .. 12 : before(k) <= yd[2]})
    IN  <<yd[1], month, yd[2] - before(month) + 1>>

DateOf(day) ==
    LET yd == LeftInYear[1970, day]
        before(m) == MapThenSumSet(LAMBDA k : DaysInMonth(yd[1], k), 1 .. m - 1)
        month == Max({k \in 1 .. 12 : before(k) <= yd[2]})
    IN  <<yd[1], month, yd[2] - before(month) + 1>>

update_clock(t, day) == [t EXCEPT !.date = DateOf(day), !.day = day]

(***************************************************************************)
(* The launcher                                                            *)
(***************************************************************************)
\* Letters are compared without case; the program and the category are
\* searched as the name is.
str_icontains(name, search) ==
    \E i \in 0 .. Len(name) - Len(search) : SubSeq(name, i + 1, i + Len(search)) = search

Matches(search) == SelectSeq(LauncherItems, LAMBDA n : search = << >> \/ str_icontains(n, search))

rebuild_filtered(l) ==
    LET found == Matches(l.search)
    IN  [l EXCEPT !.filtered = found, !.hovered = IF found = << >> THEN 0 ELSE 1, !.scroll = 0, !.redraw = TRUE]

MaxScroll(l) == Max({0, Len(l.filtered) - LAUNCHER_MAX_VISIBLE})
clamp_scroll(l) == [l EXCEPT !.scroll = Max({0, Min({@, MaxScroll(l)})})]

\* Mutant of ensure_visible: off by one at the lower edge.
ensure_visible_short(l, i) ==
    clamp_scroll([l EXCEPT !.scroll = CASE i <= @ -> i - 1
                                        [] i > @ + LAUNCHER_MAX_VISIBLE + 1 -> i - LAUNCHER_MAX_VISIBLE
                                        [] OTHER -> @])

\* Items are counted from 1: item i is in row i - scroll.
ensure_visible(l, i) ==
    clamp_scroll([l EXCEPT !.scroll = CASE i <= @ -> i - 1
                                        [] i > @ + LAUNCHER_MAX_VISIBLE -> i - LAUNCHER_MAX_VISIBLE
                                        [] OTHER -> @])

\* The height is that of the list of the last search (left), which is then
\* cleared; no search made while the launcher is open changes it.
launcher_show(l) ==
    rebuild_filtered([l EXCEPT !.rows = Max({MinRows, Min({Len(l.filtered), LAUNCHER_MAX_VISIBLE})}),
                               !.visible = TRUE, !.search = << >>])

launcher_hide(l) == [l EXCEPT !.visible = FALSE, !.redraw = TRUE, !.search = << >>, !.left = l.search]

launcher_toggle(l) == IF l.visible THEN launcher_hide(l) ELSE launcher_show(l)

Hides(l) ==
    /\ menu' = launcher_hide(l)
    /\ dismissed' = TRUE

launch_selected(i) ==
    IF i \in DOMAIN menu.filtered
    THEN asked' = <<"exec", menu.filtered[i]>> /\ Hides(menu)
    ELSE UNCHANGED <<menu, asked, dismissed>>

\* row: of the list, counted from 1; 0 is the search box, rows below the panel
\* are outside.
launcher_mouse_down(row) ==
    /\ menu.visible
    /\ IF row > menu.rows THEN Hides(menu) /\ UNCHANGED asked
       ELSE IF row > 0 THEN launch_selected(row + menu.scroll)
       ELSE UNCHANGED <<menu, asked, dismissed>>
    /\ UNCHANGED <<bar, barShown, menuShown, arrowed>>

\* Below the panel the pointer still hovers.
launcher_mouse_move(row) ==
    LET i == row + menu.scroll
        h == IF row > 0 /\ i \in DOMAIN menu.filtered THEN i ELSE 0
    IN  /\ menu.visible
        /\ menu' = [menu EXCEPT !.hovered = h, !.redraw = @ \/ h # menu.hovered]
        /\ arrowed' = FALSE
        /\ UNCHANGED <<bar, barShown, menuShown, asked, dismissed>>

Hover(l, i) == [ensure_visible([l EXCEPT !.hovered = i], i) EXCEPT !.redraw = TRUE]

launcher_key_down(key) ==
    /\ menu.visible
    /\ CASE key = "escape" -> Hides(menu) /\ UNCHANGED asked
         [] key = "return" -> launch_selected(Max({1, menu.hovered}))
         [] OTHER ->
              /\ menu' = CASE key = "up" -> IF menu.hovered > 1 THEN Hover(menu, menu.hovered - 1) ELSE menu
                           [] key = "down" -> IF menu.hovered < Len(menu.filtered) THEN Hover(menu, menu.hovered + 1)
                                              ELSE menu
                           [] key = "page up" -> [clamp_scroll([menu EXCEPT !.scroll = @ - LAUNCHER_MAX_VISIBLE])
                                                     EXCEPT !.redraw = TRUE]
                           [] key = "page down" -> [clamp_scroll([menu EXCEPT !.scroll = @ + LAUNCHER_MAX_VISIBLE])
                                                       EXCEPT !.redraw = TRUE]
                           [] key = "backspace" -> IF menu.search = << >> THEN menu
                                                   ELSE rebuild_filtered([menu EXCEPT !.search = Front(@)])
                           [] OTHER -> IF Len(menu.search) < MaxSearch
                                       THEN rebuild_filtered([menu EXCEPT !.search = Append(@, key)]) ELSE menu
              /\ UNCHANGED <<asked, dismissed>>
    /\ arrowed' = (key \in {"up", "down"} /\ (arrowed \/ menu' # menu))
    /\ UNCHANGED <<bar, barShown, menuShown>>

MenuView(l) ==
    [search |-> l.search, rows |-> l.rows, hovered |-> l.hovered - l.scroll, scrolled |-> l.scroll,
     items |-> SubSeq(l.filtered, l.scroll + 1, Min({Len(l.filtered), l.scroll + LAUNCHER_MAX_VISIBLE}))]

launcher_draw ==
    /\ menu.visible /\ menu.redraw
    /\ menuShown' = MenuView(menu)
    /\ menu' = [menu EXCEPT !.redraw = FALSE]
    /\ UNCHANGED <<bar, barShown, asked, dismissed, arrowed>>

(***************************************************************************)
(* The bar                                                                 *)
(***************************************************************************)
BtnW == 140
StartW == 60
Margin == 4
ClockW == 70
TrayW == 24
TrayCount == 2

\* The trays do not shorten the buttons below 48 pixels.
layout_buttons(t) ==
    LET start == StartW + 2 * Margin
        avail == BarWidth - start - ClockW - TrayCount * TrayW - 16
        w == IF t.btns = << >> THEN BtnW ELSE Max({48, Min({BtnW, avail \div Len(t.btns)})})
    IN  [t EXCEPT !.btns = [i \in DOMAIN @ |-> [@[i] EXCEPT !.x = start + (i - 1) * (w + Margin), !.w = w]]]

Focus(t, i) == [t EXCEPT !.btns = [j \in DOMAIN @ |-> [@[j] EXCEPT !.focused = (j = i)]], !.redraw = TRUE]

\* Beyond the bar's room the window gets no button, and the focus stays.
taskbar_add_window(id, title) ==
    /\ bar' = IF Len(bar.btns) >= TASKBAR_MAX_BTNS THEN bar
              ELSE layout_buttons(Focus([bar EXCEPT !.btns =
                       Append(@, [id |-> id, title |-> title, focused |-> TRUE, minimized |-> FALSE, x |-> 0, w |-> 0])],
                       Len(bar.btns) + 1))
    /\ UNCHANGED <<menu, barShown, menuShown, asked, dismissed, arrowed>>

Button(id) ==
    LET found == {i \in DOMAIN bar.btns : bar.btns[i].id = id} IN IF found = {} THEN 0 ELSE Min(found)

\* The hovered button keeps its number.
taskbar_remove_window(id) ==
    /\ Button(id) > 0
    /\ bar' = [layout_buttons([bar EXCEPT !.btns = RemoveAt(@, Button(id))]) EXCEPT !.redraw = TRUE]
    /\ UNCHANGED <<menu, barShown, menuShown, asked, dismissed, arrowed>>

\* Mutant of taskbar_update_window: the focus of the others is kept.
taskbar_update_window_keeps(id, title, focused, minimized) ==
    LET i == Button(id) IN
    /\ i > 0
    /\ bar' = [bar EXCEPT !.btns[i] = [@ EXCEPT !.title = title, !.focused = focused, !.minimized = minimized],
                          !.redraw = TRUE]
    /\ UNCHANGED <<menu, barShown, menuShown, asked, dismissed, arrowed>>

taskbar_update_window(id, title, focused, minimized) ==
    LET i == Button(id)
        t == [bar EXCEPT !.btns[i] = [@ EXCEPT !.title = title, !.focused = focused, !.minimized = minimized],
                         !.redraw = TRUE]
    IN  /\ i > 0
        /\ bar' = IF focused THEN Focus(t, i) ELSE t
        /\ UNCHANGED <<menu, barShown, menuShown, asked, dismissed, arrowed>>

\* What is at x of the bar: the start button, a button, a tray item or nothing.
At(x) ==
    LET over == {i \in DOMAIN bar.btns : x \in bar.btns[i].x .. bar.btns[i].x + bar.btns[i].w - 1}
        tray == BarWidth - ClockW - TrayCount * TrayW - 8
    IN  CASE x \in Margin .. StartW - Margin - 1 -> <<"start", 0>>
          [] x \notin Margin .. StartW - Margin - 1 /\ over # {} -> <<"button", Min(over)>>
          [] x \notin Margin .. StartW - Margin - 1 /\ over = {} /\ x \in tray .. tray + TrayCount * TrayW - 1 ->
                <<"tray", (x - tray) \div TrayW + 1>>
          [] OTHER -> <<"none", 0>>

\* The focused button minimizes its window; another one focuses and restores it.
PressButton(i) ==
    LET b == bar.btns[i] IN
    IF b.focused /\ ~b.minimized
    THEN /\ bar' = [bar EXCEPT !.btns[i] = [@ EXCEPT !.minimized = TRUE, !.focused = FALSE], !.redraw = TRUE]
         /\ asked' = <<"minimize", b.id>>
    ELSE /\ bar' = Focus([bar EXCEPT !.btns[i].minimized = FALSE], i)
         /\ asked' = IF b.minimized THEN <<"focus, restore", b.id>> ELSE <<"focus", b.id>>

\* The trays have no click handler.
taskbar_mouse_down(x, button) ==
    LET at == At(x) IN
    /\ CASE at[1] = "start" -> /\ bar' = [bar EXCEPT !.pressed = TRUE, !.launcher_open = ~@, !.redraw = TRUE]
                               /\ menu' = launcher_toggle(menu)
                               /\ UNCHANGED asked
         [] at[1] = "button" /\ button = "left" -> PressButton(at[2]) /\ UNCHANGED menu
         [] at[1] = "button" /\ button = "middle" -> asked' = <<"close", bar.btns[at[2]].id>> /\ UNCHANGED <<bar, menu>>
         [] OTHER -> UNCHANGED <<bar, menu, asked>>
    /\ arrowed' = (arrowed /\ at[1] # "start")
    /\ UNCHANGED <<barShown, menuShown, dismissed>>

taskbar_mouse_move(x) ==
    /\ bar' = [bar EXCEPT !.hovered = At(x), !.redraw = @ \/ At(x) # bar.hovered]
    /\ UNCHANGED <<menu, barShown, menuShown, asked, dismissed, arrowed>>

taskbar_mouse_up ==
    /\ bar' = [bar EXCEPT !.pressed = FALSE, !.redraw = TRUE]
    /\ UNCHANGED <<menu, barShown, menuShown, asked, dismissed, arrowed>>

\* The sixtieth tick reads the clock; the days go forward.
taskbar_tick(day) ==
    /\ day >= bar.day
    /\ bar' = [update_clock(bar, day) EXCEPT !.redraw = TRUE]
    /\ UNCHANGED <<menu, barShown, menuShown, asked, dismissed, arrowed>>

draw_start_button(t) == [hovered |-> t.hovered[1] = "start", pressed |-> t.pressed, line |-> t.launcher_open]

draw_task_buttons(t) ==
    [i \in DOMAIN t.btns |->
        [title |-> t.btns[i].title, x |-> t.btns[i].x, w |-> t.btns[i].w,
         look |-> CASE t.btns[i].focused -> "focused"
                    [] ~t.btns[i].focused /\ t.hovered = <<"button", i>> -> "hovered"
                    [] ~t.btns[i].focused /\ t.hovered # <<"button", i>> /\ t.btns[i].minimized -> "minimized"
                    [] OTHER -> "normal",
         dim |-> t.btns[i].minimized]]

draw_tray(t) == IF t.hovered[1] = "tray" THEN t.hovered[2] ELSE 0

BarView(t) == <<draw_start_button(t), draw_task_buttons(t), draw_tray(t), t.date>>

taskbar_draw ==
    /\ bar.redraw
    /\ barShown' = BarView(bar)
    /\ bar' = [bar EXCEPT !.redraw = FALSE]
    /\ UNCHANGED <<menu, menuShown, asked, dismissed, arrowed>>

taskbar_new ==
    [btns |-> << >>, hovered |-> <<"none", 0>>, pressed |-> FALSE, launcher_open |-> FALSE,
     date |-> DateOf(0), day |-> 0, redraw |-> TRUE]

launcher_new ==
    rebuild_filtered([visible |-> FALSE, search |-> << >>, filtered |-> << >>, hovered |-> 0, scroll |-> 0,
                      left |-> << >>, rows |-> 0, redraw |-> TRUE])

TaskbarInit ==
    /\ bar = taskbar_new /\ menu = launcher_new
    /\ barShown = << >> /\ menuShown = << >> /\ asked = <<"none">> /\ dismissed = FALSE /\ arrowed = FALSE /\ barEvents = 0

LauncherKeys == {"escape", "return", "up", "down", "page up", "page down", "backspace"} \union SearchLetters

TaskbarEvent ==
    \/ \E id \in BarWindows, title \in Titles : taskbar_add_window(id, title) /\ Button(id) = 0
    \/ \E id \in BarWindows : taskbar_remove_window(id)
    \/ \E id \in BarWindows, title \in Titles, f, m \in BOOLEAN : taskbar_update_window(id, title, f, m)
    \/ \E x \in BarPoints : taskbar_mouse_move(x) \/ \E b \in {"left", "middle"} : taskbar_mouse_down(x, b)
    \/ taskbar_mouse_up

LauncherEvent ==
    \/ \E x \in BarPoints : At(x)[1] = "start" /\ taskbar_mouse_down(x, "left")
    \/ \E row \in 0 .. LAUNCHER_MAX_VISIBLE + 1 : launcher_mouse_down(row) \/ launcher_mouse_move(row)
    \/ \E k \in LauncherKeys : launcher_key_down(k)

Draws == (taskbar_draw \/ launcher_draw) /\ UNCHANGED barEvents
TaskbarNext == Draws \/ (barEvents < MaxBarEvents /\ TaskbarEvent /\ barEvents' = barEvents + 1)
ClockNext == Draws \/ \E day \in Days : taskbar_tick(day) /\ UNCHANGED barEvents
LauncherNext == Draws \/ (barEvents < MaxBarEvents /\ LauncherEvent /\ barEvents' = barEvents + 1)

\* The day number of a date, by counting leap years.
DayNumber(date) ==
    LET y == date[1] - 1
        leaps(n) == n \div 4 - n \div 100 + n \div 400
        offset == <<0, 31, 59, 90, 120, 151, 181, 212, 243, 273, 304, 334>>[date[2]]
    IN  365 * (date[1] - 1970) + leaps(y) - leaps(1969) + offset
            + (IF date[2] > 2 /\ Leap(date[1]) THEN 1 ELSE 0) + date[3] - 1

\* When no repaint is asked for, the bar and the launcher show their state.  At
\* most one button has the focus (taskbar_add_window, taskbar_update_window,
\* taskbar_mouse_down) and buttons do not overlap (layout_buttons).  The date is
\* that of the day the clock was last read.
TaskbarSound ==
    /\ ~bar.redraw => barShown = BarView(bar)
    /\ \A i, j \in DOMAIN bar.btns :
          i < j => /\ ~(bar.btns[i].focused /\ bar.btns[j].focused)
                   /\ bar.btns[i].x + bar.btns[i].w < bar.btns[j].x
    /\ DayNumber(bar.date) = bar.day
    /\ Len(bar.btns) <= TASKBAR_MAX_BTNS

\* An open launcher lists exactly the matches of its search box, in order, and
\* what the arrow keys highlight is among the rows drawn (ensure_visible).  Every
\* row drawn lies on the panel, where a click starts it instead of closing the
\* launcher, unless the list is longer than that of the search the launcher was
\* last closed with, by which launcher_show sized the panel.  The
\* bar's mark agrees with it until it is closed other than by the start button
\* (launcher_hide does not tell the bar).
LauncherSound ==
    /\ menu.visible /\ ~menu.redraw => menuShown = MenuView(menu)
    /\ menu.visible => menu.filtered = Matches(menu.search)
    /\ menu.hovered <= Len(menu.filtered) /\ menu.scroll \in 0 .. MaxScroll(menu)
    /\ menu.visible /\ arrowed => menu.hovered - menu.scroll \in DOMAIN MenuView(menu).items
    /\ menu.visible /\ Len(menu.filtered) <= Len(Matches(menu.left)) =>
          DOMAIN MenuView(menu).items \subseteq 1 .. menu.rows
    /\ ~dismissed => (bar.launcher_open <=> menu.visible)

-------------------------------------------------------------------------------
(***************************************************************************)
(* The notification stack (graphics/desktop/notification.c).  A frame is   *)
(* one tick of 16 ms; times are counted in ticks.                          *)
(***************************************************************************)

CONSTANTS
    NOTIF_MAX, NOTIF_DURATION, NOTIF_ANIM,   \* in ticks
    NotifPitch,        \* NOTIF_H + NOTIF_MARGIN
    ScreenBottom,      \* screen_h; the stack starts 36 pixels above it
    FullAlpha,         \* 255
    MaxPushed          \* bound on notifications

ASSUME NotifConstants == NOTIF_MAX \in Nat \ {0} /\ NOTIF_ANIM \in Nat \ {0} /\ NOTIF_DURATION >= NOTIF_ANIM

VARIABLES notifs, pushed

notifVars == <<notifs, pushed>>

\* Every notification is alive between two calls, so slot and index are the same.
restack(ns) == [i \in DOMAIN ns |-> [ns[i] EXCEPT !.target_y = ScreenBottom - i * NotifPitch]]

\* A full stack drops its oldest at once.
notif_push ==
    LET room == IF Len(notifs) >= NOTIF_MAX THEN Tail(notifs) ELSE notifs IN
    /\ pushed < MaxPushed /\ pushed' = pushed + 1
    /\ notifs' = restack(Append(room, [id |-> pushed + 1, y |-> ScreenBottom, target_y |-> 0, age |-> 0,
                                       closing |-> FALSE, alpha |-> 0]))

\* Mutant of Slide: without the last pixel the quarter rounds to nothing.
Slide_quarter(n) == n.y + CDiv(n.target_y - n.y, 4)

Slide(n) ==
    LET dy == n.target_y - n.y
    IN  IF dy = 0 THEN n.y ELSE n.y + CDiv(dy, 4) + (IF dy > 0 THEN 1 ELSE -1)

\* Mutant of Aged: one that closes no longer ages or fades.
Aged_fades(n) ==
    LET age == n.age + 1 IN
    IF n.closing THEN [n EXCEPT !.y = Slide(n)]
    ELSE [n EXCEPT !.age = age, !.y = Slide(n), !.closing = age >= NOTIF_DURATION,
                   !.alpha = IF age < NOTIF_ANIM THEN (age * FullAlpha) \div NOTIF_ANIM ELSE FullAlpha]

Aged(n) ==
    LET age == n.age + 1 IN
    IF n.closing THEN [n EXCEPT !.age = age, !.y = Slide(n), !.alpha = @ - FullAlpha \div NOTIF_ANIM]
    ELSE [n EXCEPT !.age = age, !.y = Slide(n), !.closing = age >= NOTIF_DURATION,
                   !.alpha = IF age < NOTIF_ANIM THEN (age * FullAlpha) \div NOTIF_ANIM ELSE FullAlpha]

\* The faded are removed in the same tick; the others move up.
notif_tick ==
    /\ notifs # << >>
    /\ notifs' = restack(SelectSeq([i \in DOMAIN notifs |-> Aged(notifs[i])],
                                   LAMBDA n : ~(n.closing /\ n.alpha <= 0)))
    /\ UNCHANGED pushed

\* The close button.
notif_mouse_down(i) ==
    /\ notifs' = [notifs EXCEPT ![i].closing = TRUE]
    /\ UNCHANGED pushed

NotifInit == notifs = << >> /\ pushed = 0
NotifNext == notif_push \/ notif_tick \/ \E i \in DOMAIN notifs : notif_mouse_down(i)

\* Every notification leaves the screen, also one that is closed early or pushed
\* down the stack, once the frames keep coming (notif_tick).
NotifsLeave == \A id \in 1 .. MaxPushed : (\E i \in DOMAIN notifs : notifs[i].id = id)
                                              ~> (\A i \in DOMAIN notifs : notifs[i].id # id)

\* The stack keeps the order of arrival, and a tick brings every notification
\* nearer to its place and never past it (notif_tick, restack).
StackOrdered ==
    /\ Len(notifs) <= NOTIF_MAX
    /\ \A i, j \in DOMAIN notifs : i < j => notifs[i].id < notifs[j].id
    /\ \A i \in DOMAIN notifs :
          LET way == notifs[i].target_y - notifs[i].y
              left == notifs[i].target_y - Slide(notifs[i])
          IN  CASE way = 0 -> left = 0
                [] way > 0 -> left \in 0 .. way - 1
                [] way < 0 -> left \in way + 1 .. 0
===============================================================================
