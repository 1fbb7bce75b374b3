----------------------------- MODULE Application ----------------------------
(***************************************************************************)
(* application.cc: main builds everything up, runs frames until it should  *)
(* exit and takes everything down; with the constructor and destructor of  *)
(* the renderer (renderer/renderer.cc), the loading of its shader          *)
(* (renderer/shader.cc), the inputs, the variables a user may change       *)
(* (cvar.cc) and the part of a frame that reads them (game.cc).            *)
(*                                                                         *)
(* Building up may fail at almost every step.  Nothing catches what is     *)
(* thrown: an implementation of C++ may then unwind the stack, which runs  *)
(* the scope guards and destructors, or end the process at once.           *)
(***************************************************************************)
EXTENDS Input, Sequences

CONSTANTS
    Keyboard,       \* the keys a user presses
    Motions,        \* the motions of the mouse: pairs
    Typed,          \* what a user types as the value of a variable
    MaxEvents       \* bound: events in a frame

ASSUME ApplicationAssumption ==
    /\ Motions \subseteq Int \X Int
    /\ MaxEvents \in Nat

VARIABLES
    phase,              \* the step main is at
    process,            \* "running", "returned", "terminated" or "aborted"
    held,               \* what has been built up and not taken down
    releases,           \* what is left to take down
    failed,             \* whether the renderer's constructor has thrown
    m_id,               \* of the shader: its program, 0 for none
    attached,           \* the shader objects attached to the program
    m_capture_mouse, m_should_exit,
    want_keyboard,      \* ImGui's WantCaptureKeyboard
    m_value,            \* of every cvar
    gl,                 \* what OpenGL was last told
    m_camera,           \* how the last frame turned and moved the camera
    events,             \* how many events this frame has had
    polled,             \* history: the motion of this frame while captured
    pressed_now         \* history: the unlock key went down in this frame

lifeVars == <<phase, process, held, releases, failed>>
shaderVars == <<m_id, attached>>
gameVars == <<m_value, gl, m_camera>>
mouseVars == <<m_capture_mouse, m_should_exit, want_keyboard>>
frameVars == <<events, polled, pressed_now>>

vars == <<lifeVars, shaderVars, gameVars, mouseVars, frameVars, inputVars>>

loopVars == <<mouseVars, frameVars, inputVars>>
-----------------------------------------------------------------------------
\* What main and the renderer's constructor build up, in this order.
Startup == << "sdl", "imgui", "io", "app", "cvars", "assets", "resources", "input",
              "window", "context", "glad", "imgui_sdl", "imgui_gl",
              "program", "vertex", "fragment", "link", "texture", "renderer", "game", "client" >>

\* What is there to be taken down again; "renderer" is the finished object.
Things == {"sdl", "imgui", "io", "app", "cvars", "assets", "resources", "input", "window",
           "context", "imgui_sdl", "imgui_gl", "renderer", "game", "client"}

\* The steps that may throw: SDL, OpenGL and ImGui may refuse, files may not be read.
CanThrow == {"sdl", "assets", "resources", "window", "context", "glad", "imgui_sdl", "imgui_gl",
             "vertex", "fragment", "texture"}

ShaderSteps == {"program", "vertex", "fragment", "link"}

RendererSteps == {"window", "context", "glad", "imgui_sdl", "imgui_gl", "texture"} \union ShaderSteps

After(s) == LET i == CHOOSE i \in DOMAIN Startup : Startup[i] = s
            IN  IF i = Len(Startup) THEN "loop" ELSE Startup[i + 1]

\* Slip: the window and the context destroyed before what was built on them.
ReleaseOrder_WindowFirst(in_constructor) ==
    << "client", "game", "renderer", "window", "context", "program", "imgui_gl", "imgui_sdl",
       "input", "resources", "assets", "cvars", "app", "io", "imgui", "sdl" >>

\* The order of taking down.  A destroyed renderer unloads its shader first; if its
\* constructor fails, the scope guards of the body run and then the destructor of
\* the member m_shader.  Of application_impl's members the last goes first.
ReleaseOrder(in_constructor) ==
    (IF in_constructor
     THEN << "imgui_gl", "imgui_sdl", "context", "window", "program" >>
     ELSE << "client", "game", "renderer", "program", "imgui_gl", "imgui_sdl", "context", "window" >>)
    \o << "input", "resources", "assets", "cvars", "app", "io", "imgui", "sdl" >>

Init ==
    /\ phase = Startup[1]
    /\ process = "running"
    /\ held = {}
    /\ releases = <<>>
    /\ failed = FALSE
    /\ m_id = 0
    /\ attached = {}
    /\ m_capture_mouse = FALSE
    /\ m_should_exit = FALSE
    /\ want_keyboard = FALSE
    /\ m_value = [r_cull_faces |-> 1, r_wireframe |-> 0]
    /\ gl = [cull |-> FALSE, face |-> "BACK", polygon |-> "FILL"]
    /\ m_camera = [turn |-> [x |-> 0, y |-> 0], move |-> [x |-> 0, y |-> 0], fly |-> 0]
    /\ events = 0
    /\ polled = [x |-> 0, y |-> 0]
    /\ pressed_now = FALSE
    /\ InputInit

Running(where) == process = "running" /\ phase = where
-----------------------------------------------------------------------------
\* An exception leaves main.
Throws ==
    /\ failed' = (phase \in RendererSteps)
    /\ \/ process' = "terminated" /\ UNCHANGED <<phase, releases>>
       \/ phase' = "release" /\ releases' = ReleaseOrder(phase \in RendererSteps) /\ UNCHANGED process
    /\ UNCHANGED held

\* A step of building up that only makes something.
Build(s) ==
    /\ Running(s)
    /\ s \notin ShaderSteps
    /\ held' = held \union ({s} \intersect Things)
    /\ gl' = IF s = "renderer" THEN [gl EXCEPT !.cull = TRUE] ELSE gl
    /\ phase' = After(s)
    /\ UNCHANGED <<process, releases, failed, shaderVars, m_value, m_camera, loopVars>>

BuildThrows(s) ==
    /\ Running(s)
    /\ s \in CanThrow
    /\ Throws
    /\ UNCHANGED <<shaderVars, gameVars, loopVars>>

\* A shader or texture that is not among the assets: find_file returns null, and
\* read_file uses it.  A texture that cannot be decoded has no size, and OpenGL
\* reads as many pixels as happens to be there.
BuildAborts(s) ==
    /\ Running(s)
    /\ s \in {"vertex", "fragment", "texture"}
    /\ process' = "aborted"
    /\ UNCHANGED <<phase, held, releases, failed, shaderVars, gameVars, loopVars>>

\* shader::load, whose result the constructor ignores.
CreateProgram ==
    /\ Running("program")
    /\ \/ m_id' = 1 /\ phase' = "vertex"
       \/ m_id' = 0 /\ phase' = "texture"
    /\ UNCHANGED <<process, held, releases, failed, attached, gameVars, loopVars>>

\* Every object in the list is detached, which deletes it.
Detached(objects) == {}

CompileAndAttach(stage) ==
    /\ Running(stage)
    /\ stage \in {"vertex", "fragment"}
    /\ \/ attached' = attached \union {stage} /\ phase' = After(stage)
       \/ attached' = Detached(attached) /\ phase' = "texture"
    /\ UNCHANGED <<process, held, releases, failed, m_id, gameVars, loopVars>>

\* Whether linking succeeds or not.
LinkProgram ==
    /\ Running("link")
    /\ attached' = Detached(attached)
    /\ phase' = "texture"
    /\ UNCHANGED <<process, held, releases, failed, m_id, gameVars, loopVars>>
-----------------------------------------------------------------------------
\* The loop: io.poll and pre_events, unless it should exit.
BeginFrame ==
    /\ Running("loop")
    /\ ~m_should_exit
    /\ pre_events
    /\ phase' = "events"
    /\ events' = 0
    /\ polled' = [x |-> 0, y |-> 0]
    /\ pressed_now' = FALSE
    /\ UNCHANGED <<process, held, releases, failed, shaderVars, gameVars, mouseVars>>

\* What a completion handler throws leaves io.poll.
PollThrows ==
    /\ Running("loop")
    /\ ~m_should_exit
    /\ Throws
    /\ UNCHANGED <<shaderVars, gameVars, loopVars>>

Event ==
    /\ Running("events")
    /\ events < MaxEvents
    /\ events' = events + 1
    /\ UNCHANGED <<lifeVars, shaderVars, gameVars, m_capture_mouse, want_keyboard>>

\* SDL_QUIT, or the window is closed.
QuitEvent ==
    /\ Event
    /\ m_should_exit' = TRUE
    /\ UNCHANGED <<polled, pressed_now, inputVars>>

\* A key, which is the user interface's if it wants the keyboard.
KeyEvent(key, is_down, repeat) ==
    /\ Event
    /\ IF want_keyboard
       THEN UNCHANGED <<inputVars, pressed_now>>
       ELSE /\ handle_key(key, is_down, repeat)
            /\ pressed_now' = (pressed_now \/ (key = "LALT" /\ is_down /\ ~repeat))
    /\ UNCHANGED <<m_should_exit, polled>>

\* The mouse, which is the user interface's unless it is captured.
MotionEvent(motion) ==
    /\ Event
    /\ IF m_capture_mouse
       THEN /\ handle_motion(motion[1], motion[2])
            /\ polled' = [x |-> polled.x + motion[1], y |-> polled.y + motion[2]]
       ELSE UNCHANGED <<inputVars, polled>>
    /\ UNCHANGED <<m_should_exit, pressed_now>>

EndEvents ==
    /\ Running("events")
    /\ post_events
    /\ phase' = "capture"
    /\ UNCHANGED <<process, held, releases, failed, shaderVars, gameVars, mouseVars, frameVars>>

\* unlock_cursor, and ImGui::NewFrame, which decides whose the keyboard is.
ToggleCapture ==
    /\ Running("capture")
    /\ m_capture_mouse' = (IF down("unlock_cursor") THEN ~m_capture_mouse ELSE m_capture_mouse)
    /\ want_keyboard' \in BOOLEAN
    /\ phase' = "frame"
    /\ UNCHANGED <<process, held, releases, failed, shaderVars, gameVars, m_should_exit, frameVars, inputVars>>

\* The callbacks the renderer gives its variables: what they tell OpenGL, and
\* whether they accept the value.
Accepts(name, typed) == typed \in IF name = "r_cull_faces" THEN 0..3 ELSE 0..2

Callback(name, typed) ==
    IF ~Accepts(name, typed) THEN gl
    ELSE IF name = "r_wireframe" THEN [gl EXCEPT !.polygon = <<"FILL", "LINE", "POINT">>[typed + 1]]
    ELSE IF typed = 0 THEN [gl EXCEPT !.cull = FALSE]
    ELSE [gl EXCEPT !.cull = TRUE, !.face = <<"BACK", "FRONT", "FRONT_AND_BACK">>[typed]]

\* Slip: the value stored whatever the callback says.
Stored_Always(name, typed) == [m_value EXCEPT ![name] = typed]

Stored(name, typed) == IF Accepts(name, typed) THEN [m_value EXCEPT ![name] = typed] ELSE m_value

\* What game_impl::on_frame makes of the inputs: how it turns, moves and lifts the
\* camera, before sensitivity, speed and the time of a frame.
Camera ==
    [turn |-> [x |-> m_raw["look.x+"] - m_raw["look.x-"], y |-> m_raw["look.y+"] - m_raw["look.y-"]],
     move |-> [x |-> value("move.x+") - value("move.x-"), y |-> value("move.y+") - value("move.y-")],
     fly  |-> (IF pressed("jump") THEN 1 ELSE 0) - (IF pressed("sneak") THEN 1 ELSE 0)]

\* on_frame; a variable the user has typed a value for is set.
OnFrame ==
    /\ Running("frame")
    /\ m_camera' = Camera
    /\ \/ UNCHANGED <<m_value, gl>>
       \/ \E name \in DOMAIN m_value, typed \in Typed :
             m_value' = Stored(name, typed) /\ gl' = Callback(name, typed)
    /\ phase' = "loop"
    /\ UNCHANGED <<process, held, releases, failed, shaderVars, loopVars>>

LeaveLoop ==
    /\ Running("loop")
    /\ m_should_exit
    /\ phase' = "release"
    /\ releases' = ReleaseOrder(FALSE)
    /\ UNCHANGED <<process, held, failed, shaderVars, gameVars, loopVars>>
-----------------------------------------------------------------------------
\* A destructor or scope guard.  shader::unload forgets the program; OpenGL does not
\* delete it by glDeleteShader, it goes with the context.
Release ==
    /\ Running("release")
    /\ releases # <<>>
    /\ held' = held \ {Head(releases)}
    /\ releases' = Tail(releases)
    /\ m_id' = IF Head(releases) = "program" THEN 0 ELSE m_id
    /\ attached' = IF Head(releases) = "context" THEN {} ELSE attached
    /\ UNCHANGED <<phase, process, failed, gameVars, loopVars>>

\* main returns 0, or what was thrown has left it.
End ==
    /\ Running("release")
    /\ releases = <<>>
    /\ process' = IF m_should_exit THEN "returned" ELSE "terminated"
    /\ UNCHANGED <<phase, held, releases, failed, shaderVars, gameVars, loopVars>>

StartupNext ==
    \/ \E s \in {Startup[i] : i \in DOMAIN Startup} :
          Build(s) \/ BuildThrows(s) \/ BuildAborts(s) \/ CompileAndAttach(s)
    \/ CreateProgram
    \/ LinkProgram

UserEvent ==
    \/ QuitEvent
    \/ \E key \in Keyboard, is_down, repeat \in BOOLEAN : KeyEvent(key, is_down, repeat)
    \/ \E motion \in Motions : MotionEvent(motion)

FrameNext ==
    \/ BeginFrame \/ PollThrows \/ UserEvent \/ EndEvents \/ ToggleCapture \/ OnFrame \/ LeaveLoop

Next == StartupNext \/ FrameNext \/ Release \/ End

Spec == Init /\ [][Next]_vars
-----------------------------------------------------------------------------
\* Each frame turns the camera by exactly the motion the mouse made while it was
\* captured among the events of that frame: none is lost, and none is left over
\* for a frame in which the mouse does not move or is not captured.
MotionOnce == phase = "loop" => m_camera.turn = [x |-> polled.x, y |-> -polled.y]

\* The mouse is captured or let go only in a frame in which the key went down: a
\* key that is held or whose release the user interface took does nothing more.
TogglesArePresses == [][m_capture_mouse' # m_capture_mouse => pressed_now]_vars

\* The value of a variable is what OpenGL was told, whatever values were refused.
CvarMatchesGL ==
    process = "running" /\ phase \in {"loop", "events", "capture", "frame"} =>
        /\ IF gl.cull
           THEN <<m_value.r_cull_faces, gl.face>> \in {<<1, "BACK">>, <<2, "FRONT">>, <<3, "FRONT_AND_BACK">>}
           ELSE m_value.r_cull_faces = 0
        /\ <<m_value.r_wireframe, gl.polygon>> \in {<<0, "FILL">>, <<1, "LINE">>, <<2, "POINT">>}

\* What each thing uses until it is taken down.
Needs ==
    [sdl |-> {}, imgui |-> {}, io |-> {}, app |-> {}, cvars |-> {"app"}, assets |-> {"app"},
     resources |-> {"assets"}, input |-> {"app"}, window |-> {"sdl"}, context |-> {"window"},
     imgui_sdl |-> {"imgui", "window", "context"}, imgui_gl |-> {"imgui", "context"},
     renderer |-> {"imgui_gl", "imgui_sdl", "resources"}, game |-> {"cvars", "input", "renderer"},
     client |-> {"game", "io"}]

\* However far building up has come and whatever ends the program, nothing is taken
\* down while something that uses it is left; a program that returns has nothing
\* left; no shader object stays attached when loading has ended, well or not,
\* except by an exception; and the shader is unloaded while there is a context,
\* except if the renderer's constructor throws behind it: then m_shader is destroyed
\* after the context.
ReleasedInOrder ==
    /\ \A thing \in held : Needs[thing] \subseteq held
    /\ m_id # 0 => "context" \in held \/ failed
    /\ attached # {} => phase \in ShaderSteps \/ failed
    /\ process = "returned" => held = {} /\ m_id = 0
=============================================================================
