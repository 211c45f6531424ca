-------------------------------- MODULE FileManager --------------------------------
(***************************************************************************)
(* The file manager (apps/file_manager): ops.c, the recursive copy, move   *)
(* and delete; dir_view.c, the list of a directory's entries; main.c, the  *)
(* window that joins them.  A path is the sequence of its names, and the   *)
(* file system a function from the paths that exist to a directory mark or *)
(* the file's content, with the time of creation: a directory is read with *)
(* its newest entry first.  The system calls are those of this kernel and  *)
(* of its libc.  Sizes, dates, types other than directory, symbolic *)
(* links and the sort orders no key reaches are left out.  One action is   *)
(* one click or key with everything its handler does; other programs may   *)
(* change the tree between two of them, so the list can be out of date.    *)
(***************************************************************************)
EXTENDS Integers, Sequences, FiniteSets, SequencesExt, FiniteSetsExt

CONSTANTS
    StartTree,       \* the file system at the start: <<path, value>>, the oldest first
    StartPath,       \* main's argument
    NameOrder,       \* every name, in the order of strcasecmp
    HiddenNames,     \* names that begin with "."
    NewNames,        \* what is typed into a dialog
    StartMarks,      \* bookmarks_init's paths
    MAX_BOOKMARKS, MAX_NAV, ITEM_H, ViewH,
    FmRows,          \* heights of clicks in the list
    FmPlaces,        \* heights of clicks in the sidebar
    MaxDepth,        \* bound on the length of a path
    MaxFmEvents      \* bound on clicks and keys

VARIABLES
    fm,          \* FileManager and its DirView
    tree,        \* the file system
    onView,      \* what on_paint drew last
    dirty,       \* nv_surface_invalidate has been called since
    did,         \* history: the last operation on files, and the tree before it
    spent,       \* history: contents whose removal or overwriting was asked for
    fmEvents     \* clicks and keys so far

fmVars == <<fm, tree, onView, dirty, did, spent, fmEvents>>

Dir == -1          \* the values of tree other than a file's content ...
Cut_short == -2    \* ... a copy that stopped on a write error ...
Nothing == 0       \* ... and an empty file
Unasked == << >>   \* the path when no write is to fail

Exists(t, p) == p \in DOMAIN t
Holds(t, p) == t[p].v
IsDir(t, p) == Exists(t, p) /\ Holds(t, p) = Dir
path_parent(p) == IF p = << >> THEN << >> ELSE Front(p)
path_join(p, name) == Append(p, name)
Below(t, p) == {q \in DOMAIN t : IsPrefix(p, q)}
Rebase(q, src, dst) == dst \o SubSeq(q, Len(src) + 1, Len(q))
EntryNames(t, p) == {Last(q) : q \in {r \in DOMAIN t : r # << >> /\ Front(r) = p}}
Rank(a) == CHOOSE i \in 1..Len(NameOrder) : NameOrder[i] = a
Put(t, p, v) ==
    LET now == 1 + Max({t[q].born : q \in DOMAIN t})
    IN  [q \in DOMAIN t \union {p} |-> IF q # p THEN t[q]
                                      ELSE [v |-> v, born |-> IF Exists(t, p) THEN t[p].born ELSE now]]
Drop(t, ps) == [q \in DOMAIN t \ ps |-> t[q]]

----------------------------------------------------------------------------
(* The system calls, and ops.c.  Each returns the tree and its result.  The  *)
(* path bad cannot be opened for reading, or not be written to the end.      *)

\* The entries of a directory in the order of its list: vfs_attach_child adds in front.
Listed(t, p) ==
    SetToSortSeq(EntryNames(t, p), LAMBDA a, b : t[path_join(p, a)].born > t[path_join(p, b)].born)

\* Every missing directory above p, from the top.
make_parent_dirs(t, p) ==
    LET Made(u, q) == IF Exists(u, q) \/ ~IsDir(u, Front(q)) THEN u ELSE Put(u, q, Dir)
    IN  FoldLeft(Made, t, [n \in 1..(Len(p) - 1) |-> SubSeq(p, 1, n)])

vfs_create(t, p, v) ==
    IF IsDir(t, path_parent(p)) /\ ~Exists(t, p) THEN [tree |-> Put(t, p, v), ret |-> "ok"]
    ELSE [tree |-> t, ret |-> "fail"]

\* The error is EINVAL, also of a path that exists.
mkdir(t, p) == vfs_create(make_parent_dirs(t, p), p, Dir)

\* open with O_CREAT; what exists is opened, a directory too.
creat(t, p) ==
    IF Exists(t, p) THEN [tree |-> t, ret |-> "ok"] ELSE vfs_create(make_parent_dirs(t, p), p, Nothing)

\* Mutant of unlink: a directory goes whatever it holds.
unlink_populated(t, p) ==
    IF Exists(t, p) /\ p # << >> THEN [tree |-> Drop(t, {p}), ret |-> "ok"] ELSE [tree |-> t, ret |-> "fail"]

\* unlink and rmdir are one call.
unlink(t, p) ==
    IF Below(t, p) = {p} /\ p # << >> THEN [tree |-> Drop(t, {p}), ret |-> "ok"]
    ELSE [tree |-> t, ret |-> "fail"]

\* The kernel has no handler for it: -ENOSYS, with errno as it was.
rename(t, src, dst) == [tree |-> t, ret |-> "ENOSYS"]

\* The destination is opened with O_TRUNC before the source is read, so that a
\* file copied onto itself ends up empty.  A directory in its place takes no byte.
copy_file(t, src, dst, bad) ==
    LET opened == creat(t, dst)
        Written(v, ret) == [tree |-> Put(opened.tree, dst, v), ret |-> ret]
    IN  IF src = bad THEN [tree |-> t, ret |-> "fail"]
        ELSE IF opened.ret # "ok" THEN opened
        ELSE IF IsDir(t, dst) THEN [tree |-> t, ret |-> IF Holds(t, src) = Nothing THEN "ok" ELSE "fail"]
        ELSE IF src = dst THEN Written(Nothing, "ok")
        ELSE IF dst = bad THEN Written(Cut_short, "fail")
        ELSE Written(Holds(t, src), "ok")

\* The children as nv_readdir returns them: the i-th call returns the i-th entry the
\* directory has at that time.  The first failure ends the loop.
RECURSIVE copy_recursive(_, _, _, _)
copy_recursive(t, src, dst, bad) ==
    IF ~Exists(t, src) THEN [tree |-> t, ret |-> "fail"]
    ELSE IF ~IsDir(t, src) THEN copy_file(t, src, dst, bad)
    ELSE LET made == mkdir(t, dst)
             Child(r, i) ==
                LET entries == Listed(r.tree, src)
                IN  IF r.ret # "ok" \/ i > Len(entries) THEN r
                    ELSE copy_recursive(r.tree, path_join(src, entries[i]), path_join(dst, entries[i]), bad)
         IN  IF made.ret # "ok" \/ src = bad THEN [made EXCEPT !.ret = "fail"]
             ELSE FoldLeft(Child, made, [i \in 1..Cardinality(EntryNames(t, src)) |-> i])

\* An entry that is removed moves the next ones up, and the call after it skips one.
RECURSIVE delete_recursive(_, _, _)
delete_recursive(t, p, bad) ==
    IF ~Exists(t, p) THEN [tree |-> t, ret |-> "fail"]
    ELSE IF ~IsDir(t, p) THEN unlink(t, p)
    ELSE IF p = bad THEN [tree |-> t, ret |-> "fail"]
    ELSE LET Child(r, i) ==
                LET entries == Listed(r.tree, p)
                IN  IF r.ret # "ok" \/ i > Len(entries) THEN r
                    ELSE delete_recursive(r.tree, path_join(p, entries[i]), bad)
             emptied == FoldLeft(Child, [tree |-> t, ret |-> "ok"], [i \in 1..Cardinality(EntryNames(t, p)) |-> i])
         IN  IF emptied.ret = "ok" THEN unlink(emptied.tree, p) ELSE emptied

ops_copy(t, src, dst, bad) == copy_recursive(t, src, dst, bad)

\* The copy that follows on EXDEV is never made: no call of the kernel returns it.
ops_move(t, src, dst) == rename(t, src, dst)

ops_delete(t, p, bad) == delete_recursive(t, p, bad)

----------------------------------------------------------------------------
(* dir_view.c.  The fields of the view are fields of the manager m.          *)

cmp_entries(a, b) == IF a.dir # b.dir THEN a.dir ELSE Rank(a.name) < Rank(b.name)
count(m) == Len(m.entries)
FmMaxScroll(m) == Max({0, count(m) * ITEM_H - ViewH})

\* The path is taken, and the old list dropped, before the directory is opened.
dir_view_load(m, t, p) ==
    LET entry(name) == [name |-> name, dir |-> IsDir(t, path_join(p, name))]
        shown == {entry(name) : name \in {n \in EntryNames(t, p) : m.hidden \/ n \notin HiddenNames}}
    IN  [m EXCEPT !.path = p, !.selected = -1, !.scroll = 0,
                  !.entries = IF IsDir(t, p) THEN SetToSortSeq(shown, cmp_entries) ELSE << >>]

\* The selection is kept as an index.
dir_view_refresh(m, t) ==
    LET loaded == dir_view_load(m, t, m.path)
    IN  IF m.selected < count(loaded) THEN [loaded EXCEPT !.selected = m.selected] ELSE loaded

dir_view_toggle_hidden(m, t) == dir_view_refresh([m EXCEPT !.hidden = ~@], t)

HasSelected(m) == m.selected \in 0..(count(m) - 1)
dir_view_selected_entry(m) == m.entries[m.selected + 1]
SelectedPath(m) == path_join(m.path, dir_view_selected_entry(m).name)

dir_view_select_by_name(m, name) ==
    LET found == {i \in 1..count(m) : m.entries[i].name = name}
        i == Min(found)
        top == (i - 1) * ITEM_H
    IN  IF found = {} THEN m
        ELSE [m EXCEPT !.selected = i - 1,
                       !.scroll = IF top < @ THEN top
                                  ELSE IF i * ITEM_H > @ + ViewH THEN i * ITEM_H - ViewH ELSE @]

\* What a click at height y selects, and the action it asks for.
dir_view_mouse_down(m, y) ==
    LET row == (y + m.scroll) \div ITEM_H
    IN  IF row >= count(m) THEN [m |-> [m EXCEPT !.selected = -1], action |-> "none"]
        ELSE IF row = m.selected THEN [m |-> m, action |-> "activate"]
        ELSE [m |-> [m EXCEPT !.selected = row], action |-> "select"]

dir_view_scroll(m, delta) == [m EXCEPT !.scroll = Min({Max({0, @ + delta * ITEM_H}), FmMaxScroll(m)})]

\* Mutant of dir_view_key_down: the end of the list is reached without the test for a short one.
dir_view_key_down_end(m, key) ==
    CASE key = "end" -> [m |-> [m EXCEPT !.selected = count(m) - 1, !.scroll = count(m) * ITEM_H - ViewH], action |-> "select"]
      [] key = "down" /\ m.selected < count(m) - 1 -> [m |-> [m EXCEPT !.selected = @ + 1], action |-> "select"]
      [] OTHER -> [m |-> m, action |-> "none"]

dir_view_key_down(m, key) ==
    LET sel == m.selected
        up == Max({0, m.scroll - ViewH})
        down == Min({m.scroll + ViewH, FmMaxScroll(m)})
        Select(s, scroll) == [m |-> [m EXCEPT !.selected = s, !.scroll = scroll], action |-> "select"]
    IN  CASE key = "up" /\ sel > 0 -> Select(sel - 1, Min({m.scroll, (sel - 1) * ITEM_H}))
          [] key = "down" /\ sel < count(m) - 1 -> Select(sel + 1, Max({m.scroll, (sel + 2) * ITEM_H - ViewH}))
          [] key = "return" /\ HasSelected(m) -> [m |-> m, action |-> "activate"]
          [] key = "home" -> Select(0, 0)
          [] key = "end" -> Select(count(m) - 1, FmMaxScroll(m))
          [] key = "page_up" -> Select(up \div ITEM_H, up)
          [] key = "page_down" -> Select(Min({(down + ViewH - 1) \div ITEM_H, count(m) - 1}), down)
          [] key = "backspace" -> [m |-> m, action |-> "go_up"]
          [] OTHER -> [m |-> m, action |-> "none"]

----------------------------------------------------------------------------
(* main.c.  A handler takes the manager, the tree, the dirty mark and the    *)
(* two histories together, as w, and returns them.                           *)

W == [m |-> fm, t |-> tree, dirty |-> dirty, did |-> [op |-> "none"], spent |-> spent]

set_status(w, text) == [w EXCEPT !.m.status = text, !.dirty = TRUE]
update_status_for_dir(w) ==
    set_status(w, <<"items", count(w.m), IF HasSelected(w.m) THEN dir_view_selected_entry(w.m).name ELSE "">>)
Refreshed(w) == update_status_for_dir([w EXCEPT !.m = dir_view_refresh(w.m, w.t)])

\* Mutant of nav_push_history: what lies ahead is kept.
nav_push_history_keeps(m, p) ==
    LET kept == IF Len(m.history) >= MAX_NAV THEN Tail(m.history) ELSE m.history
    IN  [m EXCEPT !.history = Append(kept, p), !.pos = m.pos + 1]

\* history_pos counts from 0: pos here is the number of the entry, from 1.
nav_push_history(m, p) ==
    LET past == SubSeq(m.history, 1, m.pos)
        kept == IF Len(past) >= MAX_NAV THEN Tail(past) ELSE past
    IN  [m EXCEPT !.history = Append(kept, p), !.pos = Len(kept) + 1]

\* astray is a history: the last path asked for could not be opened.
nav_go(w, p) ==
    LET loaded == dir_view_load(w.m, w.t, p)
    IN  IF ~IsDir(w.t, p) THEN set_status([w EXCEPT !.m = [loaded EXCEPT !.astray = TRUE]], <<"Cannot open", p>>)
        ELSE update_status_for_dir([w EXCEPT !.m = [nav_push_history(loaded, p) EXCEPT !.astray = FALSE]])

Travel(w, pos) ==
    LET m == [dir_view_load(w.m, w.t, w.m.history[pos]) EXCEPT !.pos = pos, !.astray = FALSE]
    IN  update_status_for_dir([w EXCEPT !.m = m])
nav_back(w) == IF w.m.pos <= 1 THEN w ELSE Travel(w, w.m.pos - 1)
nav_forward(w) == IF w.m.pos >= Len(w.m.history) THEN w ELSE Travel(w, w.m.pos + 1)

\* The directory left behind is selected in the new list; the status was written before.
nav_up(w) ==
    IF w.m.path = << >> THEN w
    ELSE LET gone == nav_go(w, path_parent(w.m.path))
         IN  [gone EXCEPT !.m = dir_view_select_by_name(@, Last(w.m.path))]

nav_activate(w) ==
    IF ~HasSelected(w.m) THEN w
    ELSE IF dir_view_selected_entry(w.m).dir THEN nav_go(w, SelectedPath(w.m))
    ELSE set_status(w, <<"Open", SelectedPath(w.m)>>)

bookmark_add(w) ==
    IF Len(w.m.marks) >= MAX_BOOKMARKS THEN w
    ELSE [w EXCEPT !.m.marks = Append(@, w.m.path), !.dirty = TRUE]

Clip(w, mode) ==
    IF ~HasSelected(w.m) THEN w
    ELSE set_status([w EXCEPT !.m.clip = SelectedPath(w.m), !.m.mode = mode],
                    <<mode, dir_view_selected_entry(w.m).name>>)
clip_copy(w) == Clip(w, "copy")
clip_cut(w) == Clip(w, "cut")

\* The histories: what was done to which tree, and the contents that had to go.
Overwritten(t, src, dst) ==
    {Holds(t, Rebase(q, src, dst)) : q \in {r \in Below(t, src) : Exists(t, Rebase(r, src, dst))}}
Record(w, op, src, dst, r, bad) ==
    [w EXCEPT !.t = r.tree,
              !.did = [op |-> op, src |-> src, dst |-> dst, ret |-> r.ret, bad |-> bad, was |-> w.t],
              !.spent = @ \union CASE op = "delete" -> {Holds(w.t, q) : q \in Below(w.t, src)}
                                   [] op = "copy" -> Overwritten(w.t, src, dst)
                                   [] op = "move" -> {}]

\* A cut path is forgotten whether or not the move succeeded.
clip_paste(w, bad) ==
    IF w.m.mode = "none" THEN w
    ELSE LET src == w.m.clip
             dst == path_join(w.m.path, Last(src))
             done == IF w.m.mode = "copy" THEN Record(w, "copy", src, dst, ops_copy(w.t, src, dst, bad), bad)
                     ELSE Record(w, "move", src, dst, ops_move(w.t, src, dst), Unasked)
         IN  Refreshed(IF w.m.mode = "cut" THEN [done EXCEPT !.m.mode = "none", !.m.clip = << >>] ELSE done)

Created(w, t, name) ==
    LET made == [w EXCEPT !.t = t, !.m = dir_view_refresh(w.m, t)]
    IN  update_status_for_dir([made EXCEPT !.m = dir_view_select_by_name(@, name)])

action_new_folder(w, name) ==
    LET r == mkdir(w.t, path_join(w.m.path, name))
    IN  IF r.ret = "ok" THEN Created(w, r.tree, name)
        ELSE set_status([w EXCEPT !.t = r.tree], <<"Failed to create folder">>)

\* O_CREAT without O_TRUNC: what exists is opened and closed.
action_new_file(w, name) ==
    LET r == creat(w.t, path_join(w.m.path, name))
    IN  IF r.ret = "ok" THEN Created(w, r.tree, name)
        ELSE set_status([w EXCEPT !.t = r.tree], <<"Failed to create file">>)

action_rename(w, name) ==
    IF ~HasSelected(w.m) \/ dir_view_selected_entry(w.m).name = name THEN w
    ELSE LET src == SelectedPath(w.m)
             dst == path_join(w.m.path, name)
             r == ops_move(w.t, src, dst)
             done == Record(w, "move", src, dst, r, Unasked)
         IN  IF r.ret = "ok" THEN Created(done, r.tree, name) ELSE set_status(done, <<"Rename failed">>)

action_delete(w, bad) ==
    IF ~HasSelected(w.m) THEN w
    ELSE LET r == ops_delete(w.t, SelectedPath(w.m), bad)
             done == Record(w, "delete", SelectedPath(w.m), << >>, r, bad)
         IN  IF r.ret = "ok" THEN Refreshed(done) ELSE set_status(done, <<"Delete failed">>)

ToggleHidden(w) == update_status_for_dir([w EXCEPT !.m = dir_view_toggle_hidden(w.m, w.t)])

----------------------------------------------------------------------------
(* The window's callbacks.                                                   *)

FmBecome(w) ==
    /\ fmEvents < MaxFmEvents
    /\ fmEvents' = fmEvents + 1
    /\ fm' = w.m /\ tree' = w.t /\ dirty' = w.dirty /\ did' = w.did /\ spent' = w.spent
    /\ \A p \in DOMAIN w.t : Len(p) <= MaxDepth
    /\ UNCHANGED onView

\* What cannot be opened or written, if anything: one of the paths a copy works on;
\* for a delete, a directory.
Failures(src, dst) == {Unasked} \union Below(tree, src) \union {Rebase(q, src, dst) : q \in Below(tree, src)}
Unopened(src) == {Unasked} \union {q \in Below(tree, src) : IsDir(tree, q)}

Go == \/ FmBecome(nav_back(W)) \/ FmBecome(nav_forward(W)) \/ FmBecome(nav_up(W))
      \/ FmBecome(bookmark_add(W)) \/ FmBecome(ToggleHidden(W)) \/ FmBecome(Refreshed(W))
Clipping == FmBecome(clip_copy(W)) \/ FmBecome(clip_cut(W))
\* A directory is not copied into itself: that goes on until the path is too long.
Pasting == /\ fm.mode = "copy" => ~IsStrictPrefix(fm.clip, path_join(fm.path, Last(fm.clip)))
           /\ \E bad \in IF fm.mode # "copy" THEN {Unasked} ELSE Failures(fm.clip, path_join(fm.path, Last(fm.clip))) :
                 FmBecome(clip_paste(W, bad))
Creating == \E name \in NewNames : FmBecome(action_new_folder(W, name)) \/ FmBecome(action_new_file(W, name))
Renaming == \E name \in NewNames : FmBecome(action_rename(W, name))
Deleting == \E bad \in IF HasSelected(fm) THEN Unopened(SelectedPath(fm)) ELSE {Unasked} :
               FmBecome(action_delete(W, bad))

\* sidebar: the quotient is C's, so that the heading above the first place counts as it.
Places == \E y \in FmPlaces :
    LET i == IF y < 0 THEN -((-y) \div 32) ELSE y \div 32
    IN  IF i \in 0..(Len(fm.marks) - 1) THEN FmBecome(nav_go([W EXCEPT !.m.side = i], fm.marks[i + 1])) ELSE FmBecome(W)

\* A click below the last row takes the selection away and asks for no redraw.
RowClicks == \E y \in FmRows :
    LET r == dir_view_mouse_down(fm, y)
        w == [W EXCEPT !.m = r.m]
    IN  FmBecome(CASE r.action = "select" -> update_status_for_dir(w)
                 [] r.action = "activate" -> nav_activate(w)
                 [] OTHER -> [w EXCEPT !.m.unseen = TRUE])

on_scroll == \E delta \in {-1, 1} : FmBecome([W EXCEPT !.m = dir_view_scroll(fm, delta), !.dirty = TRUE])

on_key_down == \E key \in {"up", "down", "return", "home", "end", "page_up", "page_down", "backspace"} :
    LET r == dir_view_key_down(fm, key)
        w == [W EXCEPT !.m = r.m]
    IN  FmBecome(CASE r.action = "select" -> update_status_for_dir(w)
                 [] r.action = "activate" -> nav_activate(w)
                 [] r.action = "go_up" -> nav_up(w)
                 [] OTHER -> w)

\* on_paint: what the drawing functions read.
FmView == [path |-> fm.path, entries |-> fm.entries, selected |-> fm.selected, scroll |-> fm.scroll,
         status |-> fm.status, marks |-> fm.marks, side |-> fm.side, mode |-> fm.mode,
         back |-> fm.pos > 1, fwd |-> fm.pos < Len(fm.history)]
on_paint == /\ dirty /\ dirty' = FALSE /\ onView' = FmView
            /\ fm' = [fm EXCEPT !.unseen = FALSE]
            /\ UNCHANGED <<tree, did, spent, fmEvents>>

\* Another program removes a file or an empty directory.
Others == \E p \in DOMAIN tree :
    /\ fmEvents < MaxFmEvents /\ fmEvents' = fmEvents + 1
    /\ p # << >> /\ Below(tree, p) = {p}
    /\ tree' = Drop(tree, {p}) /\ spent' = spent \union {Holds(tree, p)}
    /\ did' = [op |-> "none"]
    /\ UNCHANGED <<fm, onView, dirty>>

FirstTree ==
    [p \in {StartTree[i][1] : i \in DOMAIN StartTree} |->
        LET i == CHOOSE j \in DOMAIN StartTree : StartTree[j][1] = p IN [v |-> StartTree[i][2], born |-> i]]

\* unseen is a history: the selection was taken away by a click.
FmStart ==
    LET m == [path |-> << >>, entries |-> << >>, selected |-> -1, scroll |-> 0, hidden |-> FALSE,
              history |-> << >>, pos |-> 0, astray |-> FALSE, marks |-> StartMarks, side |-> 0,
              clip |-> << >>, mode |-> "none", status |-> << >>, unseen |-> FALSE]
        w == [m |-> m, t |-> FirstTree, dirty |-> TRUE, did |-> [op |-> "none"], spent |-> {}]
    IN  set_status(nav_go(w, StartPath), <<"Ready">>)
FmInit ==
    /\ fm = FmStart.m /\ tree = FirstTree /\ dirty = TRUE /\ did = [op |-> "none"] /\ spent = {}
    /\ onView = FmView /\ fmEvents = 0
FmNext == \/ Go \/ Clipping \/ Pasting \/ Creating \/ Renaming \/ Deleting
          \/ Places \/ RowClicks \/ on_scroll \/ on_key_down \/ on_paint \/ Others

----------------------------------------------------------------------------
(* Properties.                                                               *)

\* No content disappears from the file system unless its removal, or the
\* overwriting of the file that held it, was asked for: a copy that fails half way,
\* or a cut that is pasted and not carried out, leaves what it started from (ops.c).
NothingLost == \A i \in DOMAIN StartTree :
    LET v == StartTree[i][2] IN v > 0 => v \in {Holds(tree, q) : q \in DOMAIN tree} \union spent

\* A copy that reports success has put every file and directory of its source at the
\* destination, with its content; an empty file is "copied" onto a directory without
\* a trace.  A delete that reports success has left nothing.  Whatever the result,
\* nothing outside the source and the destination has changed but for directories
\* made above the destination, a copy has not changed its source, unless that is the
\* destination, and a move, which the kernel does not offer, nothing (copy_recursive,
\* delete_recursive, ops_move).
OpsExact == did.op # "none" =>
    LET was == did.was
        apart == did.src # did.dst
        inTheWay == IsDir(was, did.dst) /\ ~IsDir(was, did.src)
        Same(p, q) == Exists(tree, q) /\ Holds(tree, q) = Holds(was, p)
        Untouched(p) == ~IsPrefix(did.src, p) /\ (did.op = "delete" \/ ~IsPrefix(did.dst, p))
    IN  /\ \A p \in DOMAIN was : Untouched(p) => Same(p, p)
        /\ \A p \in DOMAIN tree \ DOMAIN was : Untouched(p) => IsDir(tree, p) /\ IsStrictPrefix(p, did.dst)
        /\ did.op = "copy" /\ apart => \A p \in Below(was, did.src) : Same(p, p)
        /\ did.op = "copy" /\ did.ret = "ok" /\ apart /\ ~inTheWay =>
              \A p \in Below(was, did.src) : Same(p, Rebase(p, did.src, did.dst))
        /\ did.op = "move" => tree = was /\ did.ret # "ok"
        /\ did.op = "delete" /\ did.ret = "ok" => Below(tree, did.src) = {}

\* A delete reaches everything, and reports success, exactly when no directory holds
\* more than one entry: the entries are read by position while they are removed, so
\* of several every second one stays, and with it the directory (delete_recursive,
\* sys_readdir).  What stays is a file or directory that was there.
DeleteReaches == did.op = "delete" /\ did.bad = Unasked /\ Exists(did.was, did.src) =>
    LET dirs == {q \in Below(did.was, did.src) : IsDir(did.was, q)}
    IN  /\ did.ret = "ok" <=> \A q \in dirs : Cardinality(EntryNames(did.was, q)) <= 1
        /\ Below(tree, did.src) \subseteq Below(did.was, did.src)

\* The manager keeps its place: the directory shown is the one its history says,
\* unless the last one asked for could not be opened; the history holds at most
\* MAX_NAV directories and the place is in it; the list is in order, without
\* repetition, and hides what it should; selection and scroll position stay in
\* the list; and what is on the screen is the present state, unless a click has
\* just taken the selection away (main.c, dir_view.c).
ManagerSound ==
    /\ fm.pos \in 1..Len(fm.history) /\ Len(fm.history) <= MAX_NAV
    /\ ~fm.astray => fm.path = fm.history[fm.pos]
    /\ \A i, j \in 1..count(fm) : i < j => cmp_entries(fm.entries[i], fm.entries[j])
    /\ \A i \in 1..count(fm) : fm.entries[i].name \in HiddenNames => fm.hidden
    /\ fm.selected \in -1..Max({0, count(fm) - 1})
    /\ fm.scroll \in 0..FmMaxScroll(fm)
    /\ ~dirty /\ ~fm.unseen => onView = FmView
    /\ fm.mode # "none" => fm.clip # << >>
====
