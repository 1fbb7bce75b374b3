-------------------------------- MODULE Input -------------------------------
(***************************************************************************)
(* input/input.cc, input.hh: the inputs of the game and what moves them.   *)
(* An input has a raw value of this frame and the one before; a key sets   *)
(* it to 1 or 0, the motion of the mouse during a frame to its sum.        *)
(* The bindings are those of game_impl and main, made before the first     *)
(* frame and never changed; mouse buttons are bound to nothing.            *)
(***************************************************************************)
EXTENDS Integers

VARIABLES
    m_raw, m_old,           \* of every input
    m_moved_mouse,          \* whether the mouse has moved since pre_events
    m_mouse_accumulation    \* [x, y]: how far

inputVars == <<m_raw, m_old, m_moved_mouse, m_mouse_accumulation>>

MouseX == [n |-> "look.x-", p |-> "look.x+"]
MouseY == [n |-> "look.y-", p |-> "look.y+"]
MouseInputs == {MouseX.n, MouseX.p, MouseY.n, MouseY.p}

m_keyboard == [A |-> "move.x-", D |-> "move.x+", W |-> "move.y-", S |-> "move.y+",
               SPACE |-> "jump", LSHIFT |-> "sneak", LALT |-> "unlock_cursor"]

KeyInputs == {m_keyboard[key] : key \in DOMAIN m_keyboard}

Inputs == MouseInputs \union KeyInputs

InputInit ==
    /\ m_raw = [i \in Inputs |-> 0]
    /\ m_old = [i \in Inputs |-> 0]
    /\ m_moved_mouse = FALSE
    /\ m_mouse_accumulation = [x |-> 0, y |-> 0]

pressed(i) == m_raw[i] >= 1
was_pressed(i) == m_old[i] >= 1
value(i) == IF m_raw[i] < -1 THEN -1 ELSE IF m_raw[i] > 1 THEN 1 ELSE m_raw[i]
down(i) == ~was_pressed(i) /\ pressed(i)
-----------------------------------------------------------------------------
\* Slip: the old values taken only if the mouse has moved.
OldValues_Moved(raw) == IF m_moved_mouse THEN raw ELSE m_old

\* The old values are taken in every frame, of what the mouse leaves behind.
OldValues(raw) == raw

\* Slip: the sum goes on into the next frame.
Accumulated_Kept == m_mouse_accumulation

\* What is left of the motion when a frame begins.
Accumulated == IF m_moved_mouse THEN [x |-> 0, y |-> 0] ELSE m_mouse_accumulation

pre_events ==
    LET raw == [i \in Inputs |-> IF m_moved_mouse /\ i \in MouseInputs THEN 0 ELSE m_raw[i]]
    IN  /\ m_raw' = raw
        /\ m_old' = OldValues(raw)
        /\ m_mouse_accumulation' = Accumulated
        /\ m_moved_mouse' = FALSE

\* SDL_MOUSEMOTION: screen coordinates grow downwards.
handle_motion(xrel, yrel) ==
    /\ m_moved_mouse' = TRUE
    /\ m_mouse_accumulation' = [x |-> m_mouse_accumulation.x + xrel, y |-> m_mouse_accumulation.y - yrel]
    /\ UNCHANGED <<m_raw, m_old>>

\* SDL_KEYDOWN, SDL_KEYUP: repeats and keys bound to nothing are ignored.
handle_key(key, is_down, repeat) ==
    /\ m_raw' = IF ~repeat /\ key \in DOMAIN m_keyboard
                THEN [m_raw EXCEPT ![m_keyboard[key]] = IF is_down THEN 1 ELSE 0]
                ELSE m_raw
    /\ UNCHANGED <<m_old, m_moved_mouse, m_mouse_accumulation>>

\* An axis of the mouse moves one of its two inputs.
Axis(i, axis, sum) == IF i = axis.n THEN (IF sum < 0 THEN -sum ELSE 0)
                                    ELSE (IF sum > 0 THEN sum ELSE 0)

post_events ==
    /\ m_raw' = [i \in Inputs |->
                    CASE m_moved_mouse /\ i \in {MouseX.n, MouseX.p} -> Axis(i, MouseX, m_mouse_accumulation.x)
                      [] m_moved_mouse /\ i \in {MouseY.n, MouseY.p} -> Axis(i, MouseY, m_mouse_accumulation.y)
                      [] OTHER -> m_raw[i]]
    /\ UNCHANGED <<m_old, m_moved_mouse, m_mouse_accumulation>>
=============================================================================
