------------------------------ MODULE GuiEvents -------------------------------
(* Events on both sides of the window protocol: how the server makes them of *)
(* its devices' input, and what an application's windows do with them.       *)
EXTENDS Integers, Sequences, SequencesExt, FiniteSetsExt, FiniteSets

-------------------------------------------------------------------------------
(***************************************************************************)
(* An application's windows and its main loop (libnv0/src/window.c,        *)
(* app.c).  The server's messages arrive in any order and may name windows *)
(* that are gone.  A key callback stands for the application's code: it    *)
(* may create or destroy windows while a message is dispatched, and so may *)
(* a paint callback while the loop runs over the windows.                  *)
(***************************************************************************)

CONSTANTS
    NV0_MAX_WINDOWS,
    MaxWindowId,       \* bound on windows ever created
    Widths,            \* window sizes
    NoSurface

ASSUME AppConstants == NV0_MAX_WINDOWS \in Nat /\ MaxWindowId \in Nat

VARIABLES
    windows,           \* nv_windows: [id, width, surface, dirty]
    next_window_id,
    running,
    loop,              \* where nv_app_run is: [at, index of the window]
    owed               \* history: windows to be painted before the next poll

appVars == <<windows, next_window_id, running, loop, owed>>

AppInit ==
    /\ windows = << >> /\ next_window_id = 1 /\ running = FALSE
    /\ loop = [at |-> "before", index |-> 0] /\ owed = {}

Ids(ws) == {ws[i].id : i \in DOMAIN ws}

nv_window_find(ws, id) ==
    LET found == {i \in DOMAIN ws : ws[i].id = id}
    IN  IF found = {} THEN 0 ELSE Min(found)

\* Without memory for the surface there is no window, as if it was not called.
nv_window_create(s, width) ==
    IF Len(s.windows) >= NV0_MAX_WINDOWS THEN s
    ELSE [s EXCEPT !.next_id = @ + 1,
                   !.windows = Append(@, [id |-> s.next_id, width |-> width, surface |-> width,
                                          dirty |-> TRUE])]

\* Mutant of nv_window_destroy: the last entry moves into the gap.
nv_window_destroy_swaps(s, i) ==
    LET ws == [s.windows EXCEPT ![i] = Last(s.windows)]
        left == SubSeq(ws, 1, Len(ws) - 1)
    IN  [s EXCEPT !.windows = left, !.running = @ /\ left # << >>]

\* The last window ends the loop.
nv_window_destroy(s, i) ==
    LET left == RemoveAt(s.windows, i)
    IN  [s EXCEPT !.windows = left, !.running = @ /\ left # << >>]

\* Mutant of OnResize: the surface is kept.
OnResize_keeps(ws, i, width, surface) ==
    IF ws[i].width = width THEN ws ELSE [ws EXCEPT ![i].width = width, ![i].dirty = TRUE]

\* A size that did not change is ignored, also when the surface is missing.
OnResize(ws, i, width, surface) ==
    IF ws[i].width = width THEN ws
    ELSE [ws EXCEPT ![i].width = width, ![i].surface = surface, ![i].dirty = TRUE]

State == [windows |-> windows, next_id |-> next_window_id, running |-> running]
Become(s) == windows' = s.windows /\ next_window_id' = s.next_id /\ running' = s.running

\* What application code may do inside a callback.
Callback(s) ==
    {s} \union {nv_window_create(s, w) : w \in Widths}
        \union {nv_window_destroy(s, i) : i \in DOMAIN s.windows}

Within(s) == s.next_id <= MaxWindowId + 1

\* nv_window_dispatch; an unknown window is ignored.  nv_window_close calls
\* on_close, which leaves the window itself to the library.
OnMessage(s, type, id, width, surface) ==
    LET i == nv_window_find(s.windows, id)
    IN  IF i = 0 THEN {s}
        ELSE CASE type = "PAINT"  -> {[s EXCEPT !.windows[i].dirty = TRUE]}
               [] type = "KEY"    -> Callback(s)
               [] type = "RESIZE" -> {[s EXCEPT !.windows = OnResize(@, i, width, surface)]}
               [] type = "CLOSE"  -> {nv_window_destroy(t, nv_window_find(t.windows, id)) :
                                         t \in {u \in Callback(s) : id \in Ids(u.windows)}}

\* The application prepares its windows, then enters the loop.
Prepare ==
    /\ loop.at = "before"
    /\ \/ \E s \in Callback(State) : Within(s) /\ Become(s) /\ UNCHANGED loop
       \/ loop' = [loop EXCEPT !.at = "poll"] /\ running' = TRUE /\ UNCHANGED <<windows, next_window_id>>
    /\ UNCHANGED owed

\* nv_ipc_poll dispatches one message after another.
Dispatch ==
    /\ loop.at = "poll" /\ running /\ windows # << >>
    /\ \E type \in {"PAINT", "KEY", "RESIZE", "CLOSE"}, id \in 1 .. MaxWindowId, w \in Widths :
          \E f \in {w, NoSurface} : \E s \in OnMessage(State, type, id, w, f) :
              Within(s) /\ Become(s)
    /\ UNCHANGED <<loop, owed>>

\* The poll is over; the loop over the windows begins.  It ends the application if
\* there is nothing left to do.
EndPoll ==
    /\ loop.at = "poll"
    /\ IF running /\ windows # << >>
       THEN loop' = [at |-> "paint", index |-> 1] /\ owed' = {windows[i].id : i \in {j \in DOMAIN windows : windows[j].dirty}}
       ELSE loop' = [loop EXCEPT !.at = "done"] /\ UNCHANGED owed
    /\ UNCHANGED <<windows, next_window_id, running>>

Cleaned(s, i) == [s EXCEPT !.windows[i].dirty = FALSE]

\* nv_window_paint_if_dirty: the flag is cleared before the callback runs.  Every
\* window here has a callback to paint it; the flush that follows is one message
\* to the server (WindowProtocol).
Paint ==
    /\ loop.at = "paint"
    /\ IF loop.index > Len(windows)
       THEN loop' = [at |-> "poll", index |-> 0] /\ UNCHANGED <<windows, next_window_id, running, owed>>
       ELSE LET w == windows[loop.index] IN
            /\ \E s \in IF w.dirty THEN Callback(Cleaned(State, loop.index)) ELSE {State} :
                  /\ Within(s) /\ Become(s)
                  /\ owed' = IF Ids(windows) \subseteq Ids(s.windows) THEN owed \ {w.id}
                             ELSE {}   \* a window went away: those behind it may be a turn late
            /\ loop' = [loop EXCEPT !.index = @ + 1]

AppNext == Prepare \/ Dispatch \/ EndPoll \/ Paint
AppStops == loop.at = "done" /\ UNCHANGED appVars

\* Window ids are never used twice and stay in creation order, which is the order
\* of painting, whatever callbacks create and destroy.  A surface has the size of
\* its window, or is missing after a failed resize.  A loop that goes on has
\* windows, or is about to end.  A turn of the loop in which no window goes away
\* paints every window that was dirty when it began
\* (nv_window_destroy, nv_window_dispatch, nv_app_run).
WindowsTended ==
    /\ \A i, j \in DOMAIN windows : i < j => windows[i].id < windows[j].id
    /\ \A i \in DOMAIN windows : windows[i].surface \in {windows[i].width, NoSurface}
    /\ loop.at = "poll" => owed = {}
    /\ \A id \in owed : \E i \in DOMAIN windows : windows[i].id = id /\ windows[i].dirty

-------------------------------------------------------------------------------
(***************************************************************************)
(* The window server's input: keys, mouse packets and timers               *)
(* (graphics/server/event_loop.c).  The devices deliver scan codes and     *)
(* packets in order; the handler is given events and keeps its own idea of *)
(* the pointer, the buttons and the keys.                                  *)
(***************************************************************************)

CONSTANTS
    ModifierKeys,      \* physical key -> the modifier its scan code stands for
    PlainKeys,
    ScreenW, ScreenH,
    Deltas,            \* movements of a packet
    Intervals,         \* of timers, in ms
    MAX_TIMERS,
    MaxTime            \* bound on the clock

ASSUME LoopConstants == ScreenW \in Nat \ {0} /\ ScreenH \in Nat \ {0} /\ MAX_TIMERS \in Nat

VARIABLES
    modifiers,         \* the modifier bits
    pointer,           \* [x, y, buttons]
    timers,            \* [id, interval, next, active], in slot order
    next_timer_id,
    clock,             \* CLOCK_MONOTONIC (external)
    held,              \* history: keys that are down
    seen,              \* the handler's idea of the pointer, from the events alone
    firings            \* history: timer -> times of its last two events

loopVars == <<modifiers, pointer, timers, next_timer_id, clock, held, seen, firings>>

LoopInit ==
    /\ modifiers = {} /\ held = {}
    /\ pointer = [x |-> ScreenW \div 2, y |-> ScreenH \div 2, buttons |-> {}]
    /\ seen = pointer
    /\ timers = << >> /\ next_timer_id = 1 /\ clock = 0 /\ firings = << >>

\* Mutant of poll_keyboard: a release code is taken for a press.
poll_keyboard_release(key, released) ==
    /\ released <=> key \in held
    /\ held' = IF released THEN held \ {key} ELSE held \union {key}
    /\ modifiers' = IF key \in DOMAIN ModifierKeys THEN modifiers \union {ModifierKeys[key]} ELSE modifiers
    /\ UNCHANGED <<pointer, timers, next_timer_id, clock, seen, firings>>

\* One scan code.  Left and right keys, and the extended codes, set and clear the
\* same bit; other keys are reported with the bits.
poll_keyboard(key, released) ==
    /\ released <=> key \in held
    /\ held' = IF released THEN held \ {key} ELSE held \union {key}
    /\ modifiers' = CASE key \notin DOMAIN ModifierKeys -> modifiers
                      [] released -> modifiers \ {ModifierKeys[key]}
                      [] OTHER -> modifiers \union {ModifierKeys[key]}
    /\ UNCHANGED <<pointer, timers, next_timer_id, clock, seen, firings>>

Clamp(v, size) == IF v < 0 THEN 0 ELSE IF v >= size THEN size - 1 ELSE v

\* flags & 1, 2, 4 are left, right and middle; button numbers are 1, 3 and 2.
Flags == {1, 2, 4}
ButtonOf == [f \in Flags |-> CASE f = 1 -> 1 [] f = 2 -> 3 [] f = 4 -> 2]

AfterPacket(p, dx, dy, flags) ==
    [x |-> Clamp(p.x + dx, ScreenW), y |-> Clamp(p.y - dy, ScreenH),
     buttons |-> {ButtonOf[f] : f \in flags}]

\* Mutant of poll_mouse: a packet that moves the pointer reports no releases.
poll_mouse_sticky(dx, dy, flags) ==
    LET p == AfterPacket(pointer, dx, dy, flags)
        moved == p.x # pointer.x \/ p.y # pointer.y
    IN  /\ pointer' = p
        /\ seen' = [x |-> p.x, y |-> p.y,
                    buttons |-> IF moved THEN seen.buttons \union p.buttons ELSE p.buttons]
        /\ UNCHANGED <<modifiers, timers, next_timer_id, clock, held, firings>>

\* The events of a packet as the handler applies them: a move if the position
\* changed, then DOWN for what is pressed now and UP for what no longer is.
poll_mouse(dx, dy, flags) ==
    LET p == AfterPacket(pointer, dx, dy, flags)
        moved == p.x # pointer.x \/ p.y # pointer.y
    IN  /\ pointer' = p
        /\ seen' = [x |-> IF moved THEN p.x ELSE seen.x, y |-> IF moved THEN p.y ELSE seen.y,
                    buttons |-> (seen.buttons \union (p.buttons \ pointer.buttons))
                                    \ (pointer.buttons \ p.buttons)]
        /\ UNCHANGED <<modifiers, timers, next_timer_id, clock, held, firings>>

event_loop_add_timer(interval) ==
    /\ Len(timers) < MAX_TIMERS
    /\ timers' = Append(timers, [id |-> next_timer_id, interval |-> interval,
                                 next |-> clock + interval, active |-> TRUE])
    /\ next_timer_id' = next_timer_id + 1
    /\ firings' = Append(firings, <<clock>>)
    /\ UNCHANGED <<modifiers, pointer, clock, held, seen>>

\* The slot is not given back.
event_loop_remove_timer(i) ==
    /\ timers[i].active
    /\ timers' = [timers EXCEPT ![i].active = FALSE]
    /\ UNCHANGED <<modifiers, pointer, next_timer_id, clock, held, seen, firings>>

\* Mutant of poll_timers: the next time counts from the one that was due.
poll_timers_catch_up ==
    LET due(t) == t.active /\ clock >= t.next IN
    /\ timers' = [i \in DOMAIN timers |-> IF due(timers[i])
                                          THEN [timers[i] EXCEPT !.next = @ + timers[i].interval]
                                          ELSE timers[i]]
    /\ firings' = [i \in DOMAIN timers |-> IF due(timers[i]) THEN <<firings[i][Len(firings[i])], clock>> ELSE firings[i]]
    /\ UNCHANGED <<modifiers, pointer, next_timer_id, clock, held, seen>>

poll_timers ==
    LET due(t) == t.active /\ clock >= t.next IN
    /\ timers' = [i \in DOMAIN timers |-> IF due(timers[i])
                                          THEN [timers[i] EXCEPT !.next = clock + timers[i].interval]
                                          ELSE timers[i]]
    /\ firings' = [i \in DOMAIN timers |->
                      IF due(timers[i]) THEN <<firings[i][Len(firings[i])], clock>> ELSE firings[i]]
    /\ UNCHANGED <<modifiers, pointer, next_timer_id, clock, held, seen>>

\* Time passes between two frames, by any amount: the frame handler may be slow.
Later(t) ==
    /\ clock' = clock + t /\ clock' <= MaxTime
    /\ UNCHANGED <<modifiers, pointer, timers, next_timer_id, held, seen, firings>>

\* Keys, pointer and timers do not depend on each other.
KeyNext == \E k \in DOMAIN ModifierKeys \union PlainKeys, r \in BOOLEAN : poll_keyboard(k, r)
PointerNext == \E dx, dy \in Deltas, flags \in SUBSET Flags : poll_mouse(dx, dy, flags)
TimerNext ==
    \/ \E ms \in Intervals : event_loop_add_timer(ms) \/ Later(ms)
    \/ \E i \in DOMAIN timers : event_loop_remove_timer(i)
    \/ poll_timers

\* What the handler makes of the events is where the pointer and the buttons are,
\* and the pointer is on the screen (poll_mouse).  A modifier is on only while one
\* of its keys is down; with one key per modifier it is on exactly then
\* (poll_keyboard).  Two events of a timer are at least its interval apart, even
\* after a slow frame (poll_timers).
InputFaithful ==
    /\ seen = pointer
    /\ pointer.x \in 0 .. ScreenW - 1 /\ pointer.y \in 0 .. ScreenH - 1
    /\ \A m \in modifiers : \E k \in held \intersect DOMAIN ModifierKeys : ModifierKeys[k] = m
    /\ \A k \in DOMAIN ModifierKeys :
          (\A j \in DOMAIN ModifierKeys : ModifierKeys[j] = ModifierKeys[k] => j = k)
             => (k \in held <=> ModifierKeys[k] \in modifiers)
    /\ \A i \in DOMAIN timers : Len(firings[i]) = 2 => firings[i][2] - firings[i][1] >= timers[i].interval
===============================================================================
