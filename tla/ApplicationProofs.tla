-------------------------- MODULE ApplicationProofs -------------------------
(***************************************************************************)
(* Theorems about Application, for any keys, any motions of the mouse, any *)
(* values a user may type and any number of events in a frame: every       *)
(* motion turns the camera once, only the press of a key captures the      *)
(* mouse or lets it go, a variable is what OpenGL was told; and however    *)
(* building up ends, nothing is taken down before what needs it.           *)
(***************************************************************************)
EXTENDS Application, SequenceTheorems, TLAPS

StartupSteps == {Startup[i] : i \in 1..21}

FramePhases == {"events", "capture", "frame"}

\* The phases in which the renderer is finished and no frame has begun.
LateSteps == {"game", "client", "loop"}
-----------------------------------------------------------------------------
\* Startup is a list of 21 different steps, none of them a phase of a frame.
LEMMA StartupList ==
    /\ DOMAIN Startup = 1..21
    /\ Len(Startup) = 21
    /\ \A i \in 1..21 : Startup[i] \notin FramePhases \union {"loop", "release"}
  BY DEF Startup, FramePhases

LEMMA StartupNames ==
    /\ Startup[19] = "renderer" /\ Startup[20] = "game" /\ Startup[21] = "client"
    /\ \A i \in 1..21 : /\ Startup[i] = "renderer" => i = 19
                        /\ Startup[i] = "game" => i = 20
                        /\ Startup[i] = "client" => i = 21
  BY DEF Startup

\* Behind a step of building up comes another one or the loop; the renderer is
\* finished when game begins, and only then.
LEMMA AfterStep ==
    ASSUME NEW s \in StartupSteps
    PROVE  /\ After(s) \in StartupSteps \union {"loop"}
           /\ After(s) \in LateSteps <=> s \in {"renderer", "game", "client"}
           /\ s = "renderer" => After(s) = "game"
<1>1. PICK j \in 1..21 : Startup[j] = s  BY DEF StartupSteps
<1> DEFINE i == CHOOSE k \in DOMAIN Startup : Startup[k] = s
<1>2. i \in 1..21 /\ Startup[i] = s  BY <1>1, StartupList
<1>3. After(s) = IF i = 21 THEN "loop" ELSE Startup[i + 1]  BY StartupList DEF After
<1> HIDE DEF i
<1>4. CASE i = 21
  BY <1>2, <1>3, <1>4, StartupNames DEF LateSteps
<1>5. CASE i # 21
  <2>1. After(s) = Startup[i + 1] /\ i + 1 \in 1..21 /\ i \in 1..20  BY <1>2, <1>3, <1>5
  <2>2. After(s) \in StartupSteps  BY <2>1 DEF StartupSteps
  <2>3. After(s) # "loop"  BY <2>1, StartupList
  <2>4. After(s) \in {"game", "client"} <=> i \in {19, 20}  BY <2>1, StartupNames
  <2>5. s \in {"renderer", "game", "client"} <=> i \in {19, 20}  BY <1>2, <1>5, StartupNames
  <2>6. s = "renderer" => i = 19  BY <1>2, StartupNames
  <2>7. s = "renderer" => After(s) = "game"  BY <2>1, <2>6, StartupNames
  <2> QED  BY <2>2, <2>3, <2>4, <2>5, <2>7 DEF LateSteps
<1> QED  BY <1>4, <1>5
-----------------------------------------------------------------------------
Pair == [x : Int, y : Int]

Zero == [x |-> 0, y |-> 0]

\* The types of what the motion of the mouse goes through.
MotionTypes ==
    /\ m_raw \in [Inputs -> Int]
    /\ m_moved_mouse \in BOOLEAN
    /\ m_mouse_accumulation \in Pair
    /\ polled \in Pair

\* What the inputs of the mouse show is what has been polled: in the sum while there
\* are events, in the raw values behind them, in the camera behind the frame; and
\* without a motion nothing is left from frames before.
MotionInv ==
    /\ MotionTypes
    /\ ~m_moved_mouse => m_mouse_accumulation = Zero /\ \A i \in MouseInputs : m_raw[i] = 0
    /\ phase = "events" =>
          /\ m_mouse_accumulation = [x |-> polled.x, y |-> -polled.y]
          /\ \A i \in MouseInputs : m_raw[i] = 0
    /\ phase \in {"capture", "frame"} =>
          /\ m_raw["look.x+"] - m_raw["look.x-"] = polled.x
          /\ m_raw["look.y+"] - m_raw["look.y-"] = -polled.y
    /\ phase \notin FramePhases \union {"release"} =>
          m_camera.turn = [x |-> polled.x, y |-> -polled.y]

\* The unlock key counts as going down only behind an event that pressed it.
PressInv ==
    phase \in {"events", "capture"} /\ down("unlock_cursor") => pressed_now

Matches ==
    /\ IF gl.cull
       THEN <<m_value.r_cull_faces, gl.face>> \in {<<1, "BACK">>, <<2, "FRONT">>, <<3, "FRONT_AND_BACK">>}
       ELSE m_value.r_cull_faces = 0
    /\ <<m_value.r_wireframe, gl.polygon>> \in {<<0, "FILL">>, <<1, "LINE">>, <<2, "POINT">>}

\* Until the renderer is finished its variables have their first values and OpenGL
\* what it begins with, except that it does not cull yet; from then on they match.
CvarInv ==
    /\ gl \in [cull : BOOLEAN, face : {"BACK", "FRONT", "FRONT_AND_BACK"}, polygon : {"FILL", "LINE", "POINT"}]
    /\ m_value \in [r_cull_faces : 0..3, r_wireframe : 0..2]
    /\ phase \in StartupSteps \ {"game", "client"} =>
          gl.face = "BACK" /\ gl.polygon = "FILL" /\ m_value = [r_cull_faces |-> 1, r_wireframe |-> 0]
    /\ phase \in LateSteps \union FramePhases => Matches

\* main is building up, in a frame, or taking down.
PhaseInv == phase \in StartupSteps \union FramePhases \union {"loop", "release"}

ApplicationInv == PhaseInv /\ MotionInv /\ PressInv /\ CvarInv
-----------------------------------------------------------------------------
LEMMA StartupRange == StartupSteps = {Startup[i] : i \in DOMAIN Startup}
  BY StartupList DEF StartupSteps

LEMMA StartupPhases == StartupSteps \intersect (FramePhases \union {"loop", "release"}) = {}
  BY StartupList DEF StartupSteps

LEMMA StartupMembers ==
    {"program", "vertex", "fragment", "link", "texture", "renderer", "game", "client"} \subseteq StartupSteps
<1>1. /\ Startup[14] = "program" /\ Startup[15] = "vertex" /\ Startup[16] = "fragment"
      /\ Startup[17] = "link" /\ Startup[18] = "texture" /\ Startup[19] = "renderer"
      /\ Startup[20] = "game" /\ Startup[21] = "client"
  BY DEF Startup
<1> QED  BY <1>1 DEF StartupSteps

\* The inputs of the mouse are none of the keys'.
LEMMA InputsApart ==
    /\ MouseInputs = {"look.x-", "look.x+", "look.y-", "look.y+"}
    /\ MouseInputs \subseteq Inputs
    /\ MouseInputs \intersect KeyInputs = {}
    /\ "unlock_cursor" \in Inputs \ MouseInputs
    /\ \A key \in DOMAIN m_keyboard : m_keyboard[key] \in Inputs \ MouseInputs
    /\ \A key \in DOMAIN m_keyboard : m_keyboard[key] = "unlock_cursor" => key = "LALT"
<1>1. MouseInputs = {"look.x-", "look.x+", "look.y-", "look.y+"}
  BY DEF MouseInputs, MouseX, MouseY
<1>2. DOMAIN m_keyboard = {"A", "D", "W", "S", "SPACE", "LSHIFT", "LALT"}
  BY DEF m_keyboard
<1>3. KeyInputs = {"move.x-", "move.x+", "move.y-", "move.y+", "jump", "sneak", "unlock_cursor"}
  BY <1>2 DEF KeyInputs, m_keyboard
<1>4. \A key \in DOMAIN m_keyboard : m_keyboard[key] \in KeyInputs
  BY DEF KeyInputs
<1>5. \A key \in DOMAIN m_keyboard : m_keyboard[key] = "unlock_cursor" => key = "LALT"
  BY <1>2 DEF m_keyboard
<1> QED  BY <1>1, <1>3, <1>4, <1>5 DEF Inputs

\* What OpenGL has been told when the renderer is finished.
Culling == [gl EXCEPT !.cull = TRUE]

\* The steps of building up go from one to another or to the loop, and leave the
\* inputs and the frame alone.
StartupStep ==
    /\ phase \in StartupSteps
    /\ phase' \in StartupSteps \union {"loop", "release"}
    /\ UNCHANGED <<m_value, m_camera, loopVars>>
    /\ phase' \in LateSteps => phase \in {"game", "client"} \/ (phase = "renderer" /\ phase' = "game")
    /\ phase \in {"game", "client"} => phase' \in LateSteps \union {"release"}
    /\ gl' = IF phase = "renderer" /\ phase' = "game" THEN Culling ELSE gl

LEMMA StartupIsStep ==
    ASSUME PhaseInv, StartupNext
    PROVE  StartupStep
<1>1. ASSUME NEW s \in StartupSteps, Build(s)
      PROVE  StartupStep
  <2>1. phase = s /\ phase' = After(s) /\ UNCHANGED <<m_value, m_camera, loopVars>>
    BY <1>1 DEF Build, Running
  <2>2. gl' = IF s = "renderer" THEN Culling ELSE gl
    BY <1>1 DEF Build, Culling
  <2> QED  BY <2>1, <2>2, AfterStep DEF StartupStep
<1>2. ASSUME NEW s \in StartupSteps, BuildThrows(s) \/ BuildAborts(s)
      PROVE  StartupStep
  <2>1. phase = s /\ phase' \in {s, "release"}
    BY <1>2 DEF BuildThrows, BuildAborts, Throws, Running
  <2>2. UNCHANGED <<m_value, m_camera, loopVars, gl>>
    BY <1>2 DEF BuildThrows, BuildAborts, gameVars
  <2>3. /\ phase' \in LateSteps => phase \in {"game", "client"} \/ (phase = "renderer" /\ phase' = "game")
        /\ phase \in {"game", "client"} => phase' \in LateSteps \union {"release"}
    BY <2>1, StartupPhases DEF LateSteps
  <2> QED  BY <2>1, <2>2, <2>3 DEF StartupStep
<1>3. ASSUME NEW s \in StartupSteps, CompileAndAttach(s)
      PROVE  StartupStep
  <2>1. phase = s /\ s \in {"vertex", "fragment"} /\ phase' \in {After(s), "texture"}
    BY <1>3 DEF CompileAndAttach, Running
  <2>2. UNCHANGED <<m_value, m_camera, loopVars, gl>>
    BY <1>3 DEF CompileAndAttach, gameVars
  <2> QED  BY <2>1, <2>2, AfterStep, StartupMembers DEF StartupStep, LateSteps
<1>4. ASSUME CreateProgram \/ LinkProgram
      PROVE  StartupStep
  <2>1. phase \in {"program", "link"} /\ phase' \in {"vertex", "texture"}
    BY <1>4 DEF CreateProgram, LinkProgram, Running
  <2>2. UNCHANGED <<m_value, m_camera, loopVars, gl>>
    BY <1>4 DEF CreateProgram, LinkProgram, gameVars
  <2> QED  BY <2>1, <2>2, StartupMembers DEF StartupStep, LateSteps
<1> QED  BY <1>1, <1>2, <1>3, <1>4, StartupRange DEF StartupNext
-----------------------------------------------------------------------------
\* The initial states.
LEMMA ApplicationInit == Init => ApplicationInv
<1> SUFFICES ASSUME Init PROVE ApplicationInv  OBVIOUS
<1>1. phase = "sdl" /\ phase \in StartupSteps
  BY StartupList DEF Init, StartupSteps, Startup
<1>2. phase \notin FramePhases \union {"loop", "release"} \union {"game", "client"}
  BY <1>1 DEF FramePhases
<1>3. MotionInv
  <2>1. MotionTypes
    <3>1. m_raw \in [Inputs -> Int]  BY DEF Init, InputInit
    <3>2. m_moved_mouse \in BOOLEAN  BY DEF Init, InputInit
    <3>3. m_mouse_accumulation \in Pair /\ polled \in Pair  BY DEF Init, InputInit, Pair
    <3> QED  BY <3>1, <3>2, <3>3 DEF MotionTypes
  <2>2. m_mouse_accumulation = Zero /\ \A i \in MouseInputs : m_raw[i] = 0
    BY InputsApart DEF Init, InputInit, Zero
  <2>3. m_camera.turn = [x |-> polled.x, y |-> -polled.y]
    BY DEF Init
  <2> QED  BY <1>2, <2>1, <2>2, <2>3 DEF MotionInv, FramePhases
<1>4. CvarInv
  BY <1>2 DEF Init, CvarInv, LateSteps, FramePhases
<1> QED  BY <1>1, <1>2, <1>3, <1>4 DEF ApplicationInv, PhaseInv, PressInv, FramePhases
-----------------------------------------------------------------------------
LEMMA PhaseStep == PhaseInv /\ [Next]_vars => PhaseInv'
<1> SUFFICES ASSUME PhaseInv, [Next]_vars PROVE PhaseInv'  OBVIOUS
<1>1. CASE StartupNext
  BY <1>1, StartupIsStep DEF StartupStep, PhaseInv
<1>2. CASE FrameNext
  BY <1>2 DEF FrameNext, BeginFrame, PollThrows, Throws, UserEvent, QuitEvent, KeyEvent, MotionEvent, Event,
              EndEvents, ToggleCapture, OnFrame, LeaveLoop, Running, lifeVars, PhaseInv, FramePhases
<1>3. CASE Release \/ End
  BY <1>3 DEF Release, End, PhaseInv
<1>4. CASE UNCHANGED vars
  BY <1>4 DEF vars, lifeVars, PhaseInv
<1> QED  BY <1>1, <1>2, <1>3, <1>4 DEF Next

\* A frame begins with no motion in the inputs; what the last one left is gone.
LEMMA BeginFrameMotion == MotionInv /\ BeginFrame => MotionInv'
<1> SUFFICES ASSUME MotionInv, BeginFrame PROVE MotionInv'  OBVIOUS
<1>1. m_raw' \in [Inputs -> Int] /\ \A i \in MouseInputs : m_raw'[i] = 0
  BY InputsApart DEF MotionInv, MotionTypes, BeginFrame, pre_events
<1>2. m_mouse_accumulation' = Zero
  BY DEF MotionInv, BeginFrame, pre_events, Accumulated, Zero
<1>3. polled' = Zero /\ phase' = "events" /\ m_moved_mouse' = FALSE
  BY DEF BeginFrame, pre_events, Zero
<1>4. MotionTypes'
  <2>1. m_moved_mouse' \in BOOLEAN  BY <1>3
  <2>2. Zero \in Pair  BY DEF Zero, Pair
  <2> QED  BY <1>1, <1>2, <1>3, <2>1, <2>2 DEF MotionTypes
<1>5. m_mouse_accumulation' = [x |-> polled'.x, y |-> -polled'.y]
  BY <1>2, <1>3 DEF Zero
<1> QED  BY <1>1, <1>2, <1>3, <1>4, <1>5 DEF MotionInv, FramePhases

\* A motion is added to the sum and to what has been polled, or to neither.
LEMMA MotionEventMotion ==
    ASSUME MotionInv, NEW motion \in Motions, MotionEvent(motion)
    PROVE  MotionInv'
<1>1. motion \in Int \X Int  BY ApplicationAssumption
<1>2. motion[1] \in Int /\ motion[2] \in Int  BY <1>1
<1>3. phase = "events" /\ phase' = "events" /\ m_raw' = m_raw
  BY DEF MotionEvent, Event, Running, lifeVars, handle_motion, inputVars
<1>4. \A i \in MouseInputs : m_raw[i] = 0  BY <1>3 DEF MotionInv
<1>5. CASE m_capture_mouse
  <2>1. /\ m_moved_mouse' = TRUE
        /\ m_mouse_accumulation' = [x |-> m_mouse_accumulation.x + motion[1], y |-> m_mouse_accumulation.y - motion[2]]
        /\ polled' = [x |-> polled.x + motion[1], y |-> polled.y + motion[2]]
    BY <1>5 DEF MotionEvent, handle_motion
  <2>2. polled' \in Pair /\ m_mouse_accumulation' \in Pair
    BY <1>2, <2>1 DEF MotionInv, MotionTypes, Pair
  <2>3. m_mouse_accumulation' = [x |-> polled'.x, y |-> -polled'.y]
    BY <1>2, <1>3, <2>1 DEF MotionInv, MotionTypes, Pair
  <2>4. m_moved_mouse' \in BOOLEAN  BY <2>1
  <2>5. MotionTypes'  BY <1>3, <2>2, <2>4 DEF MotionInv, MotionTypes
  <2> QED  BY <1>3, <1>4, <2>1, <2>3, <2>5 DEF MotionInv, FramePhases
<1>6. CASE ~m_capture_mouse
  BY <1>3, <1>6 DEF MotionEvent, MotionInv, MotionTypes, FramePhases, inputVars
<1> QED  BY <1>5, <1>6

\* Neither a key nor the end of the program moves the mouse.
LEMMA OtherEventMotion ==
    ASSUME MotionInv, UserEvent, ~\E motion \in Motions : MotionEvent(motion)
    PROVE  MotionInv'
<1>1. phase = "events" /\ phase' = "events" /\ UNCHANGED <<polled, m_camera, m_moved_mouse, m_mouse_accumulation>>
  BY DEF UserEvent, QuitEvent, KeyEvent, Event, Running, lifeVars, gameVars, inputVars, handle_key
<1>2. m_raw' \in [Inputs -> Int] /\ \A i \in MouseInputs : m_raw'[i] = m_raw[i]
  <2>1. CASE m_raw' = m_raw
    BY <2>1 DEF MotionInv, MotionTypes
  <2>2. ASSUME NEW key \in Keyboard, NEW is_down \in BOOLEAN, NEW repeat \in BOOLEAN, KeyEvent(key, is_down, repeat),
               m_raw' # m_raw
        PROVE  m_raw' \in [Inputs -> Int] /\ \A i \in MouseInputs : m_raw'[i] = m_raw[i]
    <3>1. key \in DOMAIN m_keyboard /\ m_raw' = [m_raw EXCEPT ![m_keyboard[key]] = IF is_down THEN 1 ELSE 0]
      BY <2>2 DEF KeyEvent, handle_key, inputVars
    <3>2. m_keyboard[key] \in Inputs \ MouseInputs  BY <3>1, InputsApart
    <3> DEFINE moved == m_keyboard[key]
    <3> HIDE DEF moved
    <3>3. m_raw' = [m_raw EXCEPT ![moved] = IF is_down THEN 1 ELSE 0] /\ moved \in Inputs \ MouseInputs
      BY <3>1, <3>2 DEF moved
    <3> QED  BY <3>3, InputsApart DEF MotionInv, MotionTypes
  <2> QED  BY <2>1, <2>2 DEF UserEvent, QuitEvent, inputVars
<1> QED  BY <1>1, <1>2 DEF MotionInv, MotionTypes, FramePhases

\* Behind the events the sum becomes the inputs'.
LEMMA EndEventsMotion == MotionInv /\ EndEvents => MotionInv'
<1> SUFFICES ASSUME MotionInv, EndEvents PROVE MotionInv'  OBVIOUS
<1>1. phase = "events" /\ phase' = "capture" /\ UNCHANGED <<polled, m_moved_mouse, m_mouse_accumulation>>
  BY DEF EndEvents, post_events, Running, frameVars
<1> DEFINE X == m_mouse_accumulation.x
           Y == m_mouse_accumulation.y
<1>2. X \in Int /\ Y \in Int /\ X = polled.x /\ Y = -polled.y
  BY <1>1 DEF MotionInv, MotionTypes, Pair
<1> HIDE DEF X, Y
<1>3. CASE m_moved_mouse
  <2>1. m_raw' = [i \in Inputs |->
                    CASE i \in {"look.x-", "look.x+"} -> Axis(i, MouseX, X)
                      [] i \in {"look.y-", "look.y+"} -> Axis(i, MouseY, Y)
                      [] OTHER -> m_raw[i]]
    BY <1>3 DEF EndEvents, post_events, MouseX, MouseY, X, Y
  <2>2. /\ m_raw'["look.x-"] = (IF X < 0 THEN -X ELSE 0) /\ m_raw'["look.x+"] = (IF X > 0 THEN X ELSE 0)
        /\ m_raw'["look.y-"] = (IF Y < 0 THEN -Y ELSE 0) /\ m_raw'["look.y+"] = (IF Y > 0 THEN Y ELSE 0)
    BY <2>1, InputsApart DEF Axis, MouseX, MouseY
  <2>3. m_raw' \in [Inputs -> Int]
    BY <1>2, <2>1 DEF Axis, MotionInv, MotionTypes
  <2>4. MotionTypes'  BY <1>1, <2>3 DEF MotionInv, MotionTypes
  <2>5. /\ m_raw'["look.x+"] - m_raw'["look.x-"] = polled.x
        /\ m_raw'["look.y+"] - m_raw'["look.y-"] = -polled.y
    BY <1>2, <2>2
  <2> QED  BY <1>1, <1>3, <2>4, <2>5 DEF MotionInv, FramePhases
<1>4. CASE ~m_moved_mouse
  <2>1. m_raw' = m_raw
    BY <1>4 DEF EndEvents, post_events, MotionInv, MotionTypes
  <2>2. polled.x = 0 /\ polled.y = 0
    BY <1>1, <1>2, <1>4 DEF MotionInv, Zero, X, Y, MotionTypes, Pair
  <2>3. \A i \in MouseInputs : m_raw[i] = 0  BY <1>1 DEF MotionInv
  <2> QED  BY <1>1, <1>4, <2>1, <2>2, <2>3, InputsApart DEF MotionInv, MotionTypes, FramePhases
<1> QED  BY <1>3, <1>4

LEMMA MotionStep == PhaseInv /\ MotionInv /\ [Next]_vars => MotionInv'
<1> SUFFICES ASSUME PhaseInv, MotionInv, [Next]_vars PROVE MotionInv'  OBVIOUS
<1>1. CASE StartupNext
  <2>1. StartupStep  BY <1>1, StartupIsStep
  <2>2. phase \notin FramePhases \union {"release"} /\ phase' \notin FramePhases
    BY <2>1, StartupPhases DEF StartupStep, FramePhases
  <2> QED  BY <2>1, <2>2 DEF StartupStep, MotionInv, MotionTypes, FramePhases, loopVars, frameVars, inputVars
<1>2. CASE BeginFrame
  BY <1>2, BeginFrameMotion
<1>3. CASE PollThrows
  <2>1. phase' \in {"loop", "release"} /\ phase = "loop" /\ UNCHANGED <<m_camera, frameVars, inputVars>>
    BY <1>3 DEF PollThrows, Throws, Running, gameVars, loopVars
  <2> QED  BY <2>1 DEF MotionInv, MotionTypes, FramePhases, frameVars, inputVars
<1>4. CASE UserEvent
  BY <1>4, MotionEventMotion, OtherEventMotion
<1>5. CASE EndEvents
  BY <1>5, EndEventsMotion
<1>6. CASE ToggleCapture
  <2>1. phase = "capture" /\ phase' = "frame" /\ UNCHANGED <<frameVars, inputVars>>
    BY <1>6 DEF ToggleCapture, Running
  <2> QED  BY <2>1 DEF MotionInv, MotionTypes, FramePhases, frameVars, inputVars
<1>7. CASE OnFrame
  <2>1. phase = "frame" /\ phase' = "loop" /\ UNCHANGED <<frameVars, inputVars>>
    BY <1>7 DEF OnFrame, Running, loopVars
  <2>2. m_camera'.turn = [x |-> m_raw["look.x+"] - m_raw["look.x-"], y |-> m_raw["look.y+"] - m_raw["look.y-"]]
    BY <1>7 DEF OnFrame, Camera
  <2>3. m_camera'.turn = [x |-> polled'.x, y |-> -polled'.y]
    BY <2>1, <2>2 DEF MotionInv, frameVars
  <2> QED  BY <2>1, <2>3 DEF MotionInv, MotionTypes, FramePhases, frameVars, inputVars
<1>8. CASE LeaveLoop \/ Release \/ End
  <2>1. phase' = "release" /\ UNCHANGED <<frameVars, inputVars>>
    BY <1>8 DEF LeaveLoop, Release, End, Running, loopVars
  <2> QED  BY <2>1 DEF MotionInv, MotionTypes, FramePhases, frameVars, inputVars
<1>9. CASE UNCHANGED vars
  BY <1>9 DEF vars, lifeVars, gameVars, frameVars, inputVars, MotionInv, MotionTypes, FramePhases
<1> QED  BY <1>1, <1>2, <1>3, <1>4, <1>5, <1>6, <1>7, <1>8, <1>9 DEF Next, FrameNext
-----------------------------------------------------------------------------
\* A frame begins with the old values those of the keys.
LEMMA BeginFramePress == BeginFrame => ~down("unlock_cursor")'
<1> SUFFICES ASSUME BeginFrame PROVE ~down("unlock_cursor")'  OBVIOUS
<1>1. m_raw' = m_old'  BY DEF BeginFrame, pre_events, OldValues
<1> QED  BY <1>1 DEF down, pressed, was_pressed

\* Only a press of the unlock key makes its input go down.
LEMMA KeyEventPress ==
    ASSUME PressInv, MotionTypes,
           NEW key, NEW is_down \in BOOLEAN, NEW repeat \in BOOLEAN, KeyEvent(key, is_down, repeat)
    PROVE  PressInv'
<1>1. phase = "events" /\ phase' = "events"
  BY DEF KeyEvent, Event, Running, lifeVars
<1>2. CASE want_keyboard
  BY <1>1, <1>2 DEF KeyEvent, PressInv, down, pressed, was_pressed, inputVars
<1>3. CASE ~want_keyboard
  <2>1. handle_key(key, is_down, repeat) /\ pressed_now' = (pressed_now \/ (key = "LALT" /\ is_down /\ ~repeat))
    BY <1>3 DEF KeyEvent
  <2>2. m_old' = m_old  BY <2>1 DEF handle_key
  <2>3. CASE m_raw' = m_raw
    BY <1>1, <2>1, <2>2, <2>3 DEF PressInv, down, pressed, was_pressed
  <2>4. CASE m_raw' # m_raw
    <3>1. key \in DOMAIN m_keyboard /\ ~repeat /\ m_raw' = [m_raw EXCEPT ![m_keyboard[key]] = IF is_down THEN 1 ELSE 0]
      BY <2>1, <2>4 DEF handle_key
    <3> DEFINE moved == m_keyboard[key]
    <3>2. moved \in Inputs /\ (moved = "unlock_cursor" => key = "LALT") /\ "unlock_cursor" \in Inputs
      BY <3>1, InputsApart
    <3>3. m_raw' = [m_raw EXCEPT ![moved] = IF is_down THEN 1 ELSE 0]  BY <3>1
    <3> HIDE DEF moved
    <3>4. CASE moved # "unlock_cursor"
      <4>1. m_raw'["unlock_cursor"] = m_raw["unlock_cursor"]
        BY <3>2, <3>3, <3>4 DEF MotionTypes
      <4> QED  BY <1>1, <2>1, <2>2, <4>1 DEF PressInv, down, pressed, was_pressed
    <3>5. CASE moved = "unlock_cursor" /\ is_down
      BY <2>1, <3>1, <3>2, <3>5 DEF PressInv
    <3>6. CASE moved = "unlock_cursor" /\ ~is_down
      <4>1. m_raw'["unlock_cursor"] = 0
        BY <3>2, <3>3, <3>6 DEF MotionTypes
      <4> QED  BY <4>1 DEF PressInv, down, pressed
    <3> QED  BY <3>4, <3>5, <3>6
  <2> QED  BY <2>3, <2>4
<1> QED  BY <1>2, <1>3

LEMMA PressStep == PhaseInv /\ MotionInv /\ PressInv /\ [Next]_vars => PressInv'
<1> SUFFICES ASSUME PhaseInv, MotionInv, PressInv, [Next]_vars PROVE PressInv'  OBVIOUS
<1>1. CASE StartupNext
  <2>1. phase' \in StartupSteps \union {"loop", "release"}
    BY <1>1, StartupIsStep DEF StartupStep
  <2> QED  BY <2>1, StartupPhases DEF PressInv, FramePhases
<1>2. CASE BeginFrame
  BY <1>2, BeginFramePress DEF PressInv
<1>3. CASE PollThrows \/ LeaveLoop \/ OnFrame \/ ToggleCapture \/ Release \/ End
  BY <1>3 DEF PollThrows, Throws, LeaveLoop, OnFrame, ToggleCapture, Release, End, Running, PressInv
<1>4. CASE \E key \in Keyboard, is_down, repeat \in BOOLEAN : KeyEvent(key, is_down, repeat)
  BY <1>4, KeyEventPress DEF MotionInv
<1>5. CASE QuitEvent \/ \E motion \in Motions : MotionEvent(motion)
  <2>1. phase = "events" /\ UNCHANGED <<m_raw, m_old, pressed_now>>
    BY <1>5 DEF QuitEvent, MotionEvent, Event, Running, handle_motion, inputVars
  <2> QED  BY <2>1 DEF PressInv, down, pressed, was_pressed
<1>6. CASE EndEvents
  <2>1. phase = "events" /\ UNCHANGED <<m_old, pressed_now>>
    BY <1>6 DEF EndEvents, Running, post_events, frameVars
  <2>2. m_raw'["unlock_cursor"] = m_raw["unlock_cursor"]
    BY <1>6, InputsApart DEF EndEvents, post_events, MouseX, MouseY
  <2> QED  BY <2>1, <2>2 DEF PressInv, down, pressed, was_pressed
<1>7. CASE UNCHANGED vars
  BY <1>7 DEF vars, lifeVars, frameVars, inputVars, PressInv, down, pressed, was_pressed
<1> QED  BY <1>1, <1>2, <1>3, <1>4, <1>5, <1>6, <1>7 DEF Next, FrameNext, UserEvent
-----------------------------------------------------------------------------
\* What a callback accepts it tells OpenGL, and set_value stores it; what it refuses
\* changes neither.
LEMMA SetValueMatches ==
    ASSUME CvarInv, Matches, NEW name \in DOMAIN m_value, NEW typed,
           m_value' = Stored(name, typed), gl' = Callback(name, typed)
    PROVE  /\ Matches'
           /\ gl' \in [cull : BOOLEAN, face : {"BACK", "FRONT", "FRONT_AND_BACK"}, polygon : {"FILL", "LINE", "POINT"}]
           /\ m_value' \in [r_cull_faces : 0..3, r_wireframe : 0..2]
<1>1. name \in {"r_cull_faces", "r_wireframe"}  BY DEF CvarInv
<1>2. CASE ~Accepts(name, typed)
  <2>1. m_value' = m_value  BY <1>2 DEF Stored
  <2>2. gl' = gl  BY <1>2 DEF Callback
  <2> QED  BY <2>1, <2>2 DEF Matches, CvarInv
<1>3. CASE Accepts(name, typed) /\ name = "r_cull_faces"
  <2>1. typed \in 0..3 /\ m_value' = [m_value EXCEPT !.r_cull_faces = typed]
    BY <1>3 DEF Accepts, Stored
  <2>2. gl' = IF typed = 0 THEN [gl EXCEPT !.cull = FALSE]
              ELSE [gl EXCEPT !.cull = TRUE, !.face = <<"BACK", "FRONT", "FRONT_AND_BACK">>[typed]]
    BY <1>3, <2>1 DEF Callback
  <2>3. CASE typed = 0
    BY <2>1, <2>2, <2>3 DEF CvarInv, Matches
  <2>4. CASE typed # 0
    <3> DEFINE face == <<"BACK", "FRONT", "FRONT_AND_BACK">>[typed]
    <3>1. <<typed, face>> \in {<<1, "BACK">>, <<2, "FRONT">>, <<3, "FRONT_AND_BACK">>}
      BY <2>1, <2>4
    <3>2. gl' = [gl EXCEPT !.cull = TRUE, !.face = face]
      BY <2>2, <2>4
    <3> HIDE DEF face
    <3>3. face \in {"BACK", "FRONT", "FRONT_AND_BACK"}
      BY <3>1
    <3>4. gl' = [cull |-> TRUE, face |-> face, polygon |-> gl.polygon]
      BY <3>2 DEF CvarInv
    <3>5. m_value' = [r_cull_faces |-> typed, r_wireframe |-> m_value.r_wireframe]
      BY <2>1 DEF CvarInv
    <3> QED  BY <2>1, <3>1, <3>3, <3>4, <3>5 DEF CvarInv, Matches
  <2> QED  BY <2>3, <2>4
<1>4. CASE Accepts(name, typed) /\ name = "r_wireframe"
  <2>1. typed \in 0..2 /\ m_value' = [m_value EXCEPT !.r_wireframe = typed]
    BY <1>4 DEF Accepts, Stored
  <2>2. gl' = [gl EXCEPT !.polygon = <<"FILL", "LINE", "POINT">>[typed + 1]]
    BY <1>4, <2>1 DEF Callback
  <2> QED  BY <2>1, <2>2 DEF CvarInv, Matches
<1> QED  BY <1>1, <1>2, <1>3, <1>4

LEMMA CvarStep == PhaseInv /\ CvarInv /\ [Next]_vars => CvarInv'
<1> SUFFICES ASSUME PhaseInv, CvarInv, [Next]_vars PROVE CvarInv'  OBVIOUS
<1>1. CASE StartupNext
  <2>1. /\ phase \in StartupSteps /\ phase' \in StartupSteps \union {"loop", "release"}
        /\ m_value' = m_value /\ gl' = IF phase = "renderer" /\ phase' = "game" THEN Culling ELSE gl
        /\ phase' \in LateSteps => phase \in {"game", "client"} \/ (phase = "renderer" /\ phase' = "game")
        /\ phase \in {"game", "client"} => phase' \in LateSteps \union {"release"}
    BY <1>1, StartupIsStep DEF StartupStep
  <2>2. phase' \notin FramePhases
    BY <2>1, StartupPhases DEF FramePhases
  <2>3. {"game", "client"} \subseteq StartupSteps /\ "loop" \notin StartupSteps
    BY StartupMembers, StartupPhases
  <2>4. CASE phase = "renderer" /\ phase' = "game"
    <3>1. gl' = Culling /\ m_value' = m_value  BY <2>1, <2>4
    <3>2. /\ gl.face = "BACK" /\ gl.polygon = "FILL" /\ m_value = [r_cull_faces |-> 1, r_wireframe |-> 0]
          /\ gl \in [cull : BOOLEAN, face : {"BACK", "FRONT", "FRONT_AND_BACK"}, polygon : {"FILL", "LINE", "POINT"}]
      BY <2>1, <2>4 DEF CvarInv
    <3>3. gl' = [cull |-> TRUE, face |-> "BACK", polygon |-> "FILL"]
      BY <3>1, <3>2 DEF Culling
    <3> QED  BY <2>4, <3>1, <3>2, <3>3 DEF CvarInv, Matches
  <2>5. CASE ~(phase = "renderer" /\ phase' = "game")
    <3>1. UNCHANGED <<m_value, gl>>  BY <2>1, <2>5
    <3>2. CASE phase' \in LateSteps
      <4>1. phase \in {"game", "client"}  BY <2>1, <2>5, <3>2
      <4> QED  BY <2>1, <2>3, <3>1, <3>2, <4>1 DEF CvarInv, Matches, LateSteps
    <3>3. CASE phase' \notin LateSteps
      <4>1. phase \in {"game", "client"} => phase' \notin StartupSteps
        BY <2>1, <3>3, StartupPhases
      <4> QED  BY <2>1, <2>2, <3>1, <3>3, <4>1 DEF CvarInv, LateSteps
    <3> QED  BY <3>2, <3>3
  <2> QED  BY <2>4, <2>5
<1>2. CASE FrameNext /\ ~OnFrame
  <2>1. phase \in FramePhases \union {"loop"} /\ phase' \in FramePhases \union {"loop", "release"}
        /\ UNCHANGED <<m_value, gl>>
    BY <1>2 DEF FrameNext, BeginFrame, PollThrows, Throws, UserEvent, QuitEvent, KeyEvent, MotionEvent, Event,
                EndEvents, ToggleCapture, LeaveLoop, Running, lifeVars, gameVars, FramePhases
  <2>2. phase' \notin StartupSteps
    BY <2>1, StartupPhases
  <2> QED  BY <2>1, <2>2 DEF CvarInv, Matches, LateSteps
<1>3. CASE OnFrame
  <2>1. phase = "frame" /\ phase' = "loop"  BY <1>3 DEF OnFrame, Running
  <2>2. phase' \notin StartupSteps  BY <2>1, StartupPhases
  <2>3. Matches  BY <2>1 DEF CvarInv, FramePhases
  <2>4. CASE UNCHANGED <<m_value, gl>>
    BY <2>1, <2>2, <2>3, <2>4 DEF CvarInv, Matches
  <2>5. CASE \E name \in DOMAIN m_value, typed \in Typed :
                m_value' = Stored(name, typed) /\ gl' = Callback(name, typed)
    BY <2>1, <2>2, <2>3, <2>5, SetValueMatches DEF CvarInv
  <2> QED  BY <1>3, <2>4, <2>5 DEF OnFrame
<1>4. CASE Release \/ End
  <2>1. phase = "release" /\ phase' = "release" /\ UNCHANGED <<m_value, gl>>
    BY <1>4 DEF Release, End, Running, gameVars
  <2>2. phase' \notin StartupSteps \union LateSteps \union FramePhases
    BY <2>1, StartupPhases DEF FramePhases, LateSteps
  <2> QED  BY <2>1, <2>2 DEF CvarInv
<1>5. CASE UNCHANGED vars
  BY <1>5 DEF vars, lifeVars, gameVars, CvarInv, Matches
<1> QED  BY <1>1, <1>2, <1>3, <1>4, <1>5 DEF Next
-----------------------------------------------------------------------------
LEMMA ApplicationStep == ApplicationInv /\ [Next]_vars => ApplicationInv'
  BY PhaseStep, MotionStep, PressStep, CvarStep DEF ApplicationInv

THEOREM ApplicationInvariant == Spec => []ApplicationInv
<1>1. Init => ApplicationInv  BY ApplicationInit
<1>2. ApplicationInv /\ [Next]_vars => ApplicationInv'  BY ApplicationStep
<1> QED  BY <1>1, <1>2, PTL DEF Spec

\* Whatever the mouse does, in however many events, each frame turns the camera by
\* the motion of its own events while the mouse was captured (main's loop,
\* pre_events, post_events, on_frame).
THEOREM ApplicationMotionOnce == Spec => []MotionOnce
<1>1. ApplicationInv => MotionOnce
  BY DEF ApplicationInv, MotionInv, MotionOnce, FramePhases
<1> QED  BY <1>1, ApplicationInvariant, PTL

\* A variable set by the user is what its callback told OpenGL, for any values that
\* are typed (cvar::set_value and the callbacks of the renderer).
THEOREM ApplicationCvarMatchesGL == Spec => []CvarMatchesGL
<1>1. ApplicationInv => CvarMatchesGL
  BY DEF ApplicationInv, CvarInv, Matches, CvarMatchesGL, LateSteps, FramePhases
<1> QED  BY <1>1, ApplicationInvariant, PTL

\* Only in a frame with a press of the unlock key is the mouse captured or let go.
THEOREM ApplicationTogglesArePresses == Spec => TogglesArePresses
<1>1. ApplicationInv /\ [Next]_vars => [m_capture_mouse' # m_capture_mouse => pressed_now]_vars
  <2> SUFFICES ASSUME ApplicationInv, Next, m_capture_mouse' # m_capture_mouse
               PROVE  pressed_now
    OBVIOUS
  <2>1. CASE StartupNext
    BY <2>1, StartupIsStep DEF StartupStep, loopVars, mouseVars, ApplicationInv
  <2>2. CASE ToggleCapture
    BY <2>2 DEF ToggleCapture, Running, ApplicationInv, PressInv
  <2>3. CASE FrameNext /\ ~ToggleCapture
    BY <2>3 DEF FrameNext, BeginFrame, PollThrows, UserEvent, QuitEvent, KeyEvent, MotionEvent, Event,
                EndEvents, OnFrame, LeaveLoop, mouseVars, loopVars
  <2>4. CASE Release \/ End
    BY <2>4 DEF Release, End, mouseVars, loopVars
  <2> QED  BY <2>1, <2>2, <2>3, <2>4 DEF Next
<1> QED  BY <1>1, ApplicationInvariant, PTL DEF Spec, TogglesArePresses
-----------------------------------------------------------------------------
\* The steps of building up, and what each thing needs.
LEMMA StartupAt ==
    /\ Startup[1] = "sdl" /\ Startup[2] = "imgui" /\ Startup[3] = "io" /\ Startup[4] = "app"
    /\ Startup[5] = "cvars" /\ Startup[6] = "assets" /\ Startup[7] = "resources"
    /\ Startup[8] = "input" /\ Startup[9] = "window" /\ Startup[10] = "context"
    /\ Startup[11] = "glad" /\ Startup[12] = "imgui_sdl" /\ Startup[13] = "imgui_gl"
    /\ Startup[14] = "program" /\ Startup[15] = "vertex" /\ Startup[16] = "fragment"
    /\ Startup[17] = "link" /\ Startup[18] = "texture" /\ Startup[19] = "renderer"
    /\ Startup[20] = "game" /\ Startup[21] = "client"
BY DEF Startup

LEMMA StartupInjective ==
    ASSUME NEW i \in 1..21, NEW j \in 1..21, Startup[i] = Startup[j]
    PROVE  i = j
BY StartupAt

LEMMA NeedsNamed ==
    /\ DOMAIN Needs = Things
    /\ \A thing \in {"sdl", "imgui", "io", "app"} : Needs[thing] = {}
    /\ \A thing \in {"cvars", "assets", "input"} : Needs[thing] = {"app"}
    /\ Needs["resources"] = {"assets"} /\ Needs["window"] = {"sdl"} /\ Needs["context"] = {"window"}
    /\ Needs["imgui_sdl"] = {"imgui", "window", "context"}
    /\ Needs["imgui_gl"] = {"imgui", "context"}
    /\ Needs["renderer"] = {"imgui_gl", "imgui_sdl", "resources"}
    /\ Needs["game"] = {"cvars", "input", "renderer"} /\ Needs["client"] = {"game", "io"}
BY DEF Needs, Things

LEMMA NeedsBuiltBefore ==
    ASSUME NEW i \in 1..21, Startup[i] \in Things, NEW need \in Needs[Startup[i]]
    PROVE  \E j \in 1..(i - 1) : Startup[j] = need /\ need \in Things
BY StartupAt, NeedsNamed DEF Things

\* What is taken down: everything that is there, and the shader.
Released == Things \union {"program"}

\* The two orders of taking down, place by place.
FailedPlaces(order) ==
    /\ order[1] = "imgui_gl" /\ order[2] = "imgui_sdl" /\ order[3] = "context"
    /\ order[4] = "window" /\ order[5] = "program" /\ order[6] = "input"
    /\ order[7] = "resources" /\ order[8] = "assets" /\ order[9] = "cvars"
    /\ order[10] = "app" /\ order[11] = "io" /\ order[12] = "imgui" /\ order[13] = "sdl"

FinishedPlaces(order) ==
    /\ order[1] = "client" /\ order[2] = "game" /\ order[3] = "renderer"
    /\ order[4] = "program" /\ order[5] = "imgui_gl" /\ order[6] = "imgui_sdl"
    /\ order[7] = "context" /\ order[8] = "window" /\ order[9] = "input"
    /\ order[10] = "resources" /\ order[11] = "assets" /\ order[12] = "cvars"
    /\ order[13] = "app" /\ order[14] = "io" /\ order[15] = "imgui" /\ order[16] = "sdl"

\* Two sequences, one behind the other.
Joins(S, u, v) ==
    /\ u \o v \in Seq(S) /\ Len(u \o v) = Len(u) + Len(v)
    /\ \A i \in 1..(Len(u) + Len(v)) : (u \o v)[i] = IF i <= Len(u) THEN u[i] ELSE v[i - Len(u)]

LEMMA ConcatJoins == ASSUME NEW S, NEW u \in Seq(S), NEW v \in Seq(S) PROVE Joins(S, u, v)
BY ConcatProperties DEF Joins

LEMMA ReleasePlaces ==
    /\ ReleaseOrder(TRUE) \in Seq(Released) /\ Len(ReleaseOrder(TRUE)) = 13 /\ FailedPlaces(ReleaseOrder(TRUE))
    /\ ReleaseOrder(FALSE) \in Seq(Released) /\ Len(ReleaseOrder(FALSE)) = 16 /\ FinishedPlaces(ReleaseOrder(FALSE))
<1> DEFINE first == << "imgui_gl", "imgui_sdl", "context", "window", "program" >>
           whole == << "client", "game", "renderer", "program", "imgui_gl", "imgui_sdl", "context", "window" >>
           rest == << "input", "resources", "assets", "cvars", "app", "io", "imgui", "sdl" >>
<1>1. ReleaseOrder(TRUE) = first \o rest /\ ReleaseOrder(FALSE) = whole \o rest
  BY DEF ReleaseOrder
<1>2. /\ first \in Seq(Released) /\ Len(first) = 5
      /\ first[1] = "imgui_gl" /\ first[2] = "imgui_sdl" /\ first[3] = "context"
      /\ first[4] = "window" /\ first[5] = "program"
  BY DEF Released, Things
<1>3. /\ whole \in Seq(Released) /\ Len(whole) = 8
      /\ whole[1] = "client" /\ whole[2] = "game" /\ whole[3] = "renderer"
      /\ whole[4] = "program" /\ whole[5] = "imgui_gl" /\ whole[6] = "imgui_sdl"
      /\ whole[7] = "context" /\ whole[8] = "window"
  BY DEF Released, Things
<1>4. /\ rest \in Seq(Released) /\ Len(rest) = 8
      /\ rest[1] = "input" /\ rest[2] = "resources" /\ rest[3] = "assets" /\ rest[4] = "cvars"
      /\ rest[5] = "app" /\ rest[6] = "io" /\ rest[7] = "imgui" /\ rest[8] = "sdl"
  BY DEF Released, Things
<1> HIDE DEF first, whole, rest
<1>5. /\ first \o rest \in Seq(Released) /\ Len(first \o rest) = Len(first) + Len(rest)
      /\ \A i \in 1..(Len(first) + Len(rest)) : (first \o rest)[i] = IF i <= Len(first) THEN first[i] ELSE rest[i - Len(first)]
  <2>1. Joins(Released, first, rest)  BY <1>2, <1>4, ConcatJoins, Zenon
  <2> QED  BY <2>1, Zenon DEF Joins
<1>6. /\ whole \o rest \in Seq(Released) /\ Len(whole \o rest) = Len(whole) + Len(rest)
      /\ \A i \in 1..(Len(whole) + Len(rest)) : (whole \o rest)[i] = IF i <= Len(whole) THEN whole[i] ELSE rest[i - Len(whole)]
  <2>1. Joins(Released, whole, rest)  BY <1>3, <1>4, ConcatJoins, Zenon
  <2> QED  BY <2>1, Zenon DEF Joins
<1> DEFINE failure == first \o rest
           ending == whole \o rest
<1>7. FailedPlaces(failure) /\ Len(failure) = 13
  <2>1. Len(first) = 5 /\ Len(rest) = 8  BY <1>2, <1>4
  <2>2. ASSUME NEW i \in 1..13
        PROVE  failure[i] = IF i <= 5 THEN first[i] ELSE rest[i - 5]
    <3>1. i \in 1..(Len(first) + Len(rest))  BY <2>1
    <3>2. failure[i] = IF i <= Len(first) THEN first[i] ELSE rest[i - Len(first)]  BY <1>5, <3>1, Zenon
    <3> HIDE DEF failure
    <3> QED  BY <2>1, <3>2
  <2> HIDE DEF failure
  <2>3. Len(failure) = 13  BY <1>5, <2>1 DEF failure
  <2> QED  BY <1>2, <1>4, <2>2, <2>3 DEF FailedPlaces
<1>8. FinishedPlaces(ending) /\ Len(ending) = 16
  <2>1. Len(whole) = 8 /\ Len(rest) = 8  BY <1>3, <1>4
  <2>2. ASSUME NEW i \in 1..16
        PROVE  ending[i] = IF i <= 8 THEN whole[i] ELSE rest[i - 8]
    <3>1. i \in 1..(Len(whole) + Len(rest))  BY <2>1
    <3>2. ending[i] = IF i <= Len(whole) THEN whole[i] ELSE rest[i - Len(whole)]  BY <1>6, <3>1, Zenon
    <3> HIDE DEF ending
    <3> QED  BY <2>1, <3>2
  <2> HIDE DEF ending
  <2>3. Len(ending) = 16  BY <1>6, <2>1 DEF ending
  <2> QED  BY <1>3, <1>4, <2>2, <2>3 DEF FinishedPlaces
<1> QED  BY <1>1, <1>5, <1>6, <1>7, <1>8

Listed(order) == {order[i] : i \in 1..Len(order)}

\* What stands in front in the order of taking down is not what anything behind needs.
Orderly(order) ==
    \A i, j \in 1..Len(order) :
       i < j /\ order[j] \in Things => order[i] \notin Needs[order[j]]

\* The shader is not unloaded behind its context.
ShaderFirst(order) ==
    \A i, j \in 1..Len(order) : i < j /\ order[i] = "context" => order[j] # "program"

LEMMA NeedsPairs ==
    ASSUME NEW thing \in Things, NEW need \in Needs[thing]
    PROVE
       \/ thing = "cvars" /\ need \in {"app"}
       \/ thing = "assets" /\ need \in {"app"}
       \/ thing = "resources" /\ need \in {"assets"}
       \/ thing = "input" /\ need \in {"app"}
       \/ thing = "window" /\ need \in {"sdl"}
       \/ thing = "context" /\ need \in {"window"}
       \/ thing = "imgui_sdl" /\ need \in {"imgui", "window", "context"}
       \/ thing = "imgui_gl" /\ need \in {"imgui", "context"}
       \/ thing = "renderer" /\ need \in {"imgui_gl", "imgui_sdl", "resources"}
       \/ thing = "game" /\ need \in {"cvars", "input", "renderer"}
       \/ thing = "client" /\ need \in {"game", "io"}
  BY NeedsNamed DEF Things

LEMMA FailedNames ==
    ASSUME NEW order, FailedPlaces(order), NEW i \in 1..13
    PROVE
          /\ order[i] = "imgui_gl" => i = 1
          /\ order[i] = "imgui_sdl" => i = 2
          /\ order[i] = "context" => i = 3
          /\ order[i] = "window" => i = 4
          /\ order[i] = "program" => i = 5
          /\ order[i] = "input" => i = 6
          /\ order[i] = "resources" => i = 7
          /\ order[i] = "assets" => i = 8
          /\ order[i] = "cvars" => i = 9
          /\ order[i] = "app" => i = 10
          /\ order[i] = "io" => i = 11
          /\ order[i] = "imgui" => i = 12
          /\ order[i] = "sdl" => i = 13
  BY DEF FailedPlaces

LEMMA FailedOrderly ==
    ASSUME NEW order, FailedPlaces(order), Len(order) = 13
    PROVE  Orderly(order)
<1> SUFFICES ASSUME NEW i \in 1..13, NEW j \in 1..13, i < j, order[j] \in Things, order[i] \in Needs[order[j]]
             PROVE  FALSE
  BY DEF Orderly
<1> DEFINE thing == order[j]
           need == order[i]
<1>1. thing \in Things /\ need \in Needs[thing]  OBVIOUS
<1> HIDE DEF thing, need
<1>2. thing \notin {"renderer", "game", "client"}  BY DEF FailedPlaces, thing
<1> QED  BY <1>1, <1>2, NeedsPairs, FailedNames DEF thing, need

LEMMA FinishedNames ==
    ASSUME NEW order, FinishedPlaces(order), NEW i \in 1..16
    PROVE
          /\ order[i] = "client" => i = 1
          /\ order[i] = "game" => i = 2
          /\ order[i] = "renderer" => i = 3
          /\ order[i] = "program" => i = 4
          /\ order[i] = "imgui_gl" => i = 5
          /\ order[i] = "imgui_sdl" => i = 6
          /\ order[i] = "context" => i = 7
          /\ order[i] = "window" => i = 8
          /\ order[i] = "input" => i = 9
          /\ order[i] = "resources" => i = 10
          /\ order[i] = "assets" => i = 11
          /\ order[i] = "cvars" => i = 12
          /\ order[i] = "app" => i = 13
          /\ order[i] = "io" => i = 14
          /\ order[i] = "imgui" => i = 15
          /\ order[i] = "sdl" => i = 16
  BY DEF FinishedPlaces

LEMMA FinishedOrderly ==
    ASSUME NEW order, FinishedPlaces(order), Len(order) = 16
    PROVE  Orderly(order)
<1> SUFFICES ASSUME NEW i \in 1..16, NEW j \in 1..16, i < j, order[j] \in Things, order[i] \in Needs[order[j]]
             PROVE  FALSE
  BY DEF Orderly
<1> QED  BY NeedsPairs, FinishedNames

LEMMA FailedLists ==
    ASSUME NEW order, FailedPlaces(order), Len(order) = 13
    PROVE  (Things \ {"renderer", "game", "client"}) \union {"program"} \subseteq Listed(order)
<1>1. \A i \in 1..13 : order[i] \in Listed(order)  BY DEF Listed
<1> QED  BY <1>1 DEF FailedPlaces, Things

LEMMA FinishedLists ==
    ASSUME NEW order, FinishedPlaces(order), Len(order) = 16
    PROVE  Released \subseteq Listed(order) /\ ShaderFirst(order)
<1>1. \A i \in 1..16 : order[i] \in Listed(order)  BY DEF Listed
<1>2. Released \subseteq Listed(order)  BY <1>1 DEF FinishedPlaces, Things, Released
<1>3. ShaderFirst(order)  BY FinishedNames DEF ShaderFirst
<1> QED  BY <1>2, <1>3

\* The order stays one when its first is taken away.
LEMMA TailOrderly ==
    ASSUME NEW order \in Seq(Released), order # << >>
    PROVE  /\ Tail(order) \in Seq(Released)
           /\ Head(order) = order[1] /\ 1 \in 1..Len(order)
           /\ Orderly(order) => Orderly(Tail(order))
           /\ ShaderFirst(order) => ShaderFirst(Tail(order))
           /\ \A thing \in Listed(order) : thing # Head(order) => thing \in Listed(Tail(order))
<1>1. /\ Tail(order) \in Seq(Released) /\ Len(order) \in Nat /\ Len(order) > 0
      /\ Len(Tail(order)) = Len(order) - 1 /\ Head(order) = order[1]
      /\ \A i \in 1..(Len(order) - 1) : Tail(order)[i] = order[i + 1]
  OBVIOUS
<1> DEFINE rest == Tail(order)
           n == Len(order)
<1>2. rest \in Seq(Released) /\ n \in Nat /\ n > 0 /\ Len(rest) = n - 1
  BY <1>1
<1>3. \A i \in 1..(n - 1) : rest[i] = order[i + 1] /\ i + 1 \in 1..n
  BY <1>1
<1> HIDE DEF rest, n
<1>4. Orderly(order) => Orderly(rest)
  <2> SUFFICES ASSUME Orderly(order), NEW i \in 1..(n - 1), NEW j \in 1..(n - 1), i < j, rest[j] \in Things
               PROVE  rest[i] \notin Needs[rest[j]]
    BY <1>2 DEF Orderly
  <2>1. rest[i] = order[i + 1] /\ rest[j] = order[j + 1] /\ i + 1 \in 1..n /\ j + 1 \in 1..n
    BY <1>3
  <2>2. i + 1 < j + 1  BY <1>2
  <2> QED  BY <2>1, <2>2 DEF Orderly, n
<1>5. ShaderFirst(order) => ShaderFirst(rest)
  <2> SUFFICES ASSUME ShaderFirst(order), NEW i \in 1..(n - 1), NEW j \in 1..(n - 1), i < j, rest[i] = "context"
               PROVE  rest[j] # "program"
    BY <1>2 DEF ShaderFirst
  <2>1. rest[i] = order[i + 1] /\ rest[j] = order[j + 1] /\ i + 1 \in 1..n /\ j + 1 \in 1..n
    BY <1>3
  <2>2. i + 1 < j + 1  BY <1>2
  <2> QED  BY <2>1, <2>2 DEF ShaderFirst, n
<1>6. ASSUME NEW thing \in Listed(order), thing # order[1]
      PROVE  thing \in Listed(rest)
  <2>1. PICK j \in 1..n : thing = order[j]  BY DEF Listed, n
  <2>2. j # 1  BY <1>6, <2>1
  <2>3. j - 1 \in 1..(n - 1) /\ (j - 1) + 1 = j  BY <1>2, <2>1, <2>2
  <2>4. rest[j - 1] = thing  BY <1>3, <2>1, <2>3
  <2> QED  BY <1>2, <2>3, <2>4 DEF Listed
<1>7. 1 \in 1..Len(order)  BY <1>1
<1> QED  BY <1>1, <1>4, <1>5, <1>6, <1>7 DEF rest
-----------------------------------------------------------------------------
\* What there is to take down before the step i of building up.
Built(i) == {Startup[j] : j \in 1..(i - 1)} \intersect Things

\* Building up has made the things of the steps before this one; in the loop all
\* of them are there.
BuiltInv ==
    /\ held \subseteq Things
    /\ \A i \in 1..21 : phase = Startup[i] => held = Built(i)
    /\ phase \in FramePhases \union {"loop"} => held = Things

\* A shader object is attached only while the shader is loaded, or if that has
\* thrown; and the program has its context, unless the constructor has thrown.
ShaderInv ==
    /\ failed => phase = "release" \/ process # "running"
    /\ attached # {} => phase \in {"vertex", "fragment", "link"} \/ failed
    /\ m_id # 0 => "context" \in held \/ failed

\* What is left to be taken down has everything that is there, in an order in which
\* nothing goes before what needs it.
TakingInv ==
    phase = "release" =>
       /\ releases \in Seq(Released)
       /\ held \subseteq Listed(releases)
       /\ m_id # 0 => "program" \in Listed(releases)
       /\ Orderly(releases)
       /\ ~failed => ShaderFirst(releases)

LifeInv ==
    /\ BuiltInv
    /\ ShaderInv
    /\ TakingInv
    /\ \A thing \in held : Needs[thing] \subseteq held
    /\ process = "returned" => held = {} /\ m_id = 0
    /\ process = "returned" => phase = "release"
-----------------------------------------------------------------------------
LEMMA BuiltNext ==
    ASSUME NEW i \in 1..20
    PROVE  Built(i + 1) = Built(i) \union ({Startup[i]} \intersect Things)
<1>1. 1..((i + 1) - 1) = 1..(i - 1) \union {i}  OBVIOUS
<1> QED  BY <1>1 DEF Built

LEMMA BuiltAll == Built(21) \union ({Startup[21]} \intersect Things) = Things
<1>1. \A j \in 1..20 : Startup[j] \in Things => Startup[j] \in Built(21)  BY DEF Built
<1> QED  BY <1>1, StartupAt DEF Things, Built

\* Loading the shader makes nothing of its own.
LEMMA BuiltShader == Built(15) = Built(14) /\ Built(16) = Built(14) /\ Built(17) = Built(14) /\ Built(18) = Built(14)
<1>1. {"program", "vertex", "fragment", "link"} \intersect Things = {}  BY DEF Things
<1>2. Startup[14] \notin Things /\ Startup[15] \notin Things /\ Startup[16] \notin Things /\ Startup[17] \notin Things
  BY <1>1, StartupAt
<1>3. Built(15) = Built(14)  BY <1>2, BuiltNext
<1>4. Built(16) = Built(15)  BY <1>2, BuiltNext
<1>5. Built(17) = Built(16)  BY <1>2, BuiltNext
<1>6. Built(18) = Built(17)  BY <1>2, BuiltNext
<1> QED  BY <1>3, <1>4, <1>5, <1>6

LEMMA BuiltContext == "context" \in Built(14)
  BY StartupAt DEF Built, Things

\* What the renderer's constructor may leave has a place in its own order.
LEMMA BuiltFailed ==
    ASSUME NEW i \in 1..21, Startup[i] \in RendererSteps
    PROVE  Built(i) \subseteq Things \ {"renderer", "game", "client"}
<1>1. i <= 18  BY StartupAt DEF RendererSteps, ShaderSteps
<1> QED  BY <1>1, StartupAt DEF Built

\* The step behind one of building up.
LEMMA AfterStartup ==
    ASSUME NEW i \in 1..21
    PROVE  After(Startup[i]) = IF i = 21 THEN "loop" ELSE Startup[i + 1]
<1> DEFINE k == CHOOSE j \in DOMAIN Startup : Startup[j] = Startup[i]
<1>1. k \in 1..21 /\ Startup[k] = Startup[i]  BY StartupList
<1>2. After(Startup[i]) = IF k = 21 THEN "loop" ELSE Startup[k + 1]  BY StartupList DEF After
<1> HIDE DEF k
<1>3. k = i  BY <1>1, StartupInjective
<1> QED  BY <1>2, <1>3
-----------------------------------------------------------------------------
LEMMA LifeInit == Init => LifeInv
<1> SUFFICES ASSUME Init PROVE LifeInv  OBVIOUS
<1>1. phase = Startup[1] /\ process = "running" /\ held = {} /\ failed = FALSE /\ m_id = 0 /\ attached = {}
  BY DEF Init
<1>2. phase \notin FramePhases \union {"loop", "release"}  BY <1>1, StartupList
<1>3. \A i \in 1..21 : phase = Startup[i] => held = Built(i)
  <2> SUFFICES ASSUME NEW i \in 1..21, phase = Startup[i] PROVE held = Built(i)  OBVIOUS
  <2>1. 1 \in 1..21 /\ Startup[i] = Startup[1]  BY <1>1
  <2>2. i = 1  BY <2>1, StartupInjective, Zenon
  <2>3. Built(i) = {}  BY <2>2 DEF Built
  <2> QED  BY <1>1, <2>3
<1>4. BuiltInv  BY <1>1, <1>2, <1>3 DEF BuiltInv
<1> QED  BY <1>1, <1>2, <1>4 DEF LifeInv, ShaderInv, TakingInv

\* A step of building up that makes something, or fails to.
LEMMA LifeBuild ==
    ASSUME LifeInv, NEW s \in StartupSteps, Build(s)
    PROVE  LifeInv'
<1>1. /\ phase = s /\ process = "running" /\ held' = held \union ({s} \intersect Things) /\ phase' = After(s)
      /\ UNCHANGED <<process, releases, failed, m_id, attached>> /\ s \notin ShaderSteps
  BY DEF Build, Running, shaderVars
<1>2. PICK i \in 1..21 : s = Startup[i]  BY DEF StartupSteps
<1>3. held = Built(i)  BY <1>1, <1>2 DEF LifeInv, BuiltInv
<1>4. phase' = IF i = 21 THEN "loop" ELSE Startup[i + 1]  BY <1>1, <1>2, AfterStartup
<1>5. phase \notin FramePhases \union {"loop", "release"} /\ phase' # "release" /\ phase' \notin FramePhases
  <2>1. phase \notin FramePhases \union {"loop", "release"}  BY <1>1, <1>2, StartupList
  <2>2. phase' \in StartupSteps \union {"loop"}  BY <1>1, AfterStep
  <2> QED  BY <2>1, <2>2, StartupPhases DEF FramePhases
<1>6. BuiltInv'
  <2>1. CASE i = 21
    <3>1. held' = Things /\ phase' = "loop"  BY <1>1, <1>2, <1>3, <1>4, <2>1, BuiltAll
    <3>2. \A k \in 1..21 : phase' # Startup[k]  BY <3>1, StartupList
    <3> QED  BY <3>1, <3>2 DEF BuiltInv
  <2>2. CASE i # 21
    <3>1. i \in 1..20 /\ i + 1 \in 1..21 /\ phase' = Startup[i + 1]  BY <1>4, <2>2
    <3>2. held' = Built(i + 1)  BY <1>1, <1>2, <1>3, <3>1, BuiltNext
    <3>3. \A k \in 1..21 : phase' = Startup[k] => k = i + 1  BY <3>1, StartupInjective
    <3>4. held' \subseteq Things  BY <1>1 DEF LifeInv, BuiltInv
    <3>5. phase' # "loop"  BY <3>1, StartupList
    <3> QED  BY <1>5, <3>2, <3>3, <3>4, <3>5 DEF BuiltInv
  <2> QED  BY <2>1, <2>2
<1>7. ShaderInv'
  <2>1. ~failed  BY <1>1, <1>5 DEF LifeInv, ShaderInv
  <2>2. attached = {}  BY <1>1, <2>1 DEF LifeInv, ShaderInv, ShaderSteps
  <2> QED  BY <1>1, <2>1, <2>2 DEF LifeInv, ShaderInv
<1>8. \A thing \in held' : Needs[thing] \subseteq held'
  <2> SUFFICES ASSUME NEW thing \in held', NEW need \in Needs[thing] PROVE need \in held'  OBVIOUS
  <2>1. CASE thing \in held  BY <1>1, <2>1 DEF LifeInv
  <2>2. CASE thing \notin held
    <3>1. thing = Startup[i] /\ thing \in Things  BY <1>1, <1>2, <2>2
    <3>2. \E j \in 1..(i - 1) : Startup[j] = need /\ need \in Things  BY <3>1, NeedsBuiltBefore
    <3>3. need \in Built(i)  BY <3>2 DEF Built
    <3> QED  BY <1>1, <1>3, <3>3
  <2> QED  BY <2>1, <2>2
<1> QED  BY <1>1, <1>5, <1>6, <1>7, <1>8 DEF LifeInv, TakingInv

\* The shader's steps make and take down nothing but its program and its objects.
ShaderMoves ==
    /\ process = "running"
    /\ \E i, k \in 14..18 : phase = Startup[i] /\ phase' = Startup[k] /\ i < k
    /\ UNCHANGED <<process, held, releases, failed>>
    /\ attached' # {} => phase' \in {"vertex", "fragment", "link"}

LEMMA ShaderIsMove ==
    ASSUME LifeInv, NEW s \in StartupSteps, CreateProgram \/ LinkProgram \/ CompileAndAttach(s)
    PROVE  ShaderMoves
<1>1. CASE CreateProgram
  <2>1. /\ process = "running" /\ phase = "program" /\ phase' \in {"vertex", "texture"}
        /\ UNCHANGED <<process, held, releases, failed, attached>>
    BY <1>1 DEF CreateProgram, Running
  <2>2. ~failed /\ attached = {}  BY <2>1 DEF LifeInv, ShaderInv
  <2>3. \E i, k \in 14..18 : phase = Startup[i] /\ phase' = Startup[k] /\ i < k
    <3>1. CASE phase' = "vertex"  BY <2>1, <3>1, StartupAt
    <3>2. CASE phase' = "texture"  BY <2>1, <3>2, StartupAt
    <3> QED  BY <2>1, <3>1, <3>2
  <2> QED  BY <2>1, <2>2, <2>3 DEF ShaderMoves
<1>2. CASE LinkProgram
  <2>1. /\ process = "running" /\ phase = "link" /\ phase' = "texture" /\ attached' = {}
        /\ UNCHANGED <<process, held, releases, failed>>
    BY <1>2 DEF LinkProgram, Running, Detached
  <2>2. \E i, k \in 14..18 : phase = Startup[i] /\ phase' = Startup[k] /\ i < k  BY <2>1, StartupAt
  <2> QED  BY <2>1, <2>2 DEF ShaderMoves
<1>3. CASE CompileAndAttach(s)
  <2>1. /\ process = "running" /\ phase = s /\ s \in {"vertex", "fragment"}
        /\ UNCHANGED <<process, held, releases, failed>>
        /\ phase' = After(s) \/ (phase' = "texture" /\ attached' = {})
    BY <1>3 DEF CompileAndAttach, Running, Detached
  <2>2. After("vertex") = "fragment" /\ After("fragment") = "link"
    <3>1. After(Startup[15]) = Startup[15 + 1] /\ After(Startup[16]) = Startup[16 + 1]
      BY AfterStartup
    <3> QED  BY <3>1, StartupAt
  <2>3. CASE s = "vertex"
    <3>1. phase = Startup[15] /\ phase' \in {Startup[16], Startup[18]}  BY <2>1, <2>2, <2>3, StartupAt
    <3>2. \E i, k \in 14..18 : phase = Startup[i] /\ phase' = Startup[k] /\ i < k  BY <3>1
    <3> QED  BY <2>1, <2>2, <2>3, <3>2 DEF ShaderMoves
  <2>4. CASE s = "fragment"
    <3>1. phase = Startup[16] /\ phase' \in {Startup[17], Startup[18]}  BY <2>1, <2>2, <2>4, StartupAt
    <3>2. \E i, k \in 14..18 : phase = Startup[i] /\ phase' = Startup[k] /\ i < k  BY <3>1
    <3> QED  BY <2>1, <2>2, <2>4, <3>2 DEF ShaderMoves
  <2> QED  BY <2>1, <2>3, <2>4
<1> QED  BY <1>1, <1>2, <1>3

LEMMA LifeShader ==
    ASSUME LifeInv, ShaderMoves
    PROVE  LifeInv'
<1>1. PICK i, k \in 14..18 : phase = Startup[i] /\ phase' = Startup[k] /\ i < k  BY DEF ShaderMoves
<1>2. i \in 1..21 /\ k \in 1..21  OBVIOUS
<1>3. Built(i) = Built(14) /\ Built(k) = Built(14)
  <2>1. \A j \in 14..18 : Built(j) = Built(14)  BY BuiltShader
  <2> QED  BY <2>1
<1>4. held = Built(14)  BY <1>1, <1>2, <1>3 DEF LifeInv, BuiltInv
<1>5. \A j \in 1..21 : phase' = Startup[j] => Built(j) = Built(14)
  BY <1>1, <1>2, <1>3, StartupInjective
<1>6. phase' \notin FramePhases \union {"loop", "release"} /\ phase # "release"
  BY <1>1, <1>2, StartupList
<1>7. BuiltInv'  BY <1>4, <1>5, <1>6 DEF ShaderMoves, BuiltInv, LifeInv
<1>8. ~failed  BY <1>6 DEF ShaderMoves, LifeInv, ShaderInv
<1>9. ShaderInv'  BY <1>4, <1>8, BuiltContext DEF ShaderMoves, ShaderInv
<1> QED  BY <1>6, <1>7, <1>9 DEF ShaderMoves, LifeInv, TakingInv
-----------------------------------------------------------------------------
\* What the list of taking down must have, when taking down begins.
LEMMA TakingBegins ==
    ASSUME NEW order, NEW there, there \subseteq Things,
           \/ order = ReleaseOrder(FALSE)
           \/ order = ReleaseOrder(TRUE) /\ there \subseteq Things \ {"renderer", "game", "client"}
    PROVE  /\ order \in Seq(Released)
           /\ there \subseteq Listed(order)
           /\ "program" \in Listed(order)
           /\ Orderly(order)
           /\ order = ReleaseOrder(FALSE) => ShaderFirst(order)
<1>1. CASE order = ReleaseOrder(FALSE)
  <2>1. order \in Seq(Released) /\ Len(order) = 16 /\ FinishedPlaces(order)  BY <1>1, ReleasePlaces
  <2>2. Released \subseteq Listed(order) /\ ShaderFirst(order)  BY <2>1, FinishedLists
  <2>3. Orderly(order)  BY <2>1, FinishedOrderly
  <2> QED  BY <2>1, <2>2, <2>3 DEF Released
<1>2. CASE order = ReleaseOrder(TRUE) /\ order # ReleaseOrder(FALSE)
  <2>1. order \in Seq(Released) /\ Len(order) = 13 /\ FailedPlaces(order)  BY <1>2, ReleasePlaces
  <2>2. (Things \ {"renderer", "game", "client"}) \union {"program"} \subseteq Listed(order)  BY <2>1, FailedLists
  <2>3. Orderly(order)  BY <2>1, FailedOrderly
  <2> QED  BY <1>2, <2>1, <2>2, <2>3
<1> QED  BY <1>1, <1>2

\* What is thrown while building up, or by a completion handler.
LEMMA LifeThrows ==
    ASSUME LifeInv, PhaseInv, process = "running", phase # "release", Throws, UNCHANGED shaderVars
    PROVE  LifeInv'
<1>1. ~failed /\ held \subseteq Things  BY DEF LifeInv, ShaderInv, BuiltInv
<1>2. /\ failed' = (phase \in RendererSteps) /\ UNCHANGED <<held, m_id, attached>>
      /\ \/ process' = "terminated" /\ UNCHANGED <<phase, releases>>
         \/ phase' = "release" /\ releases' = ReleaseOrder(phase \in RendererSteps) /\ UNCHANGED process
  BY DEF Throws, shaderVars
<1>3. attached # {} => failed'  BY <1>1, <1>2 DEF LifeInv, ShaderInv, RendererSteps, ShaderSteps
<1>4. m_id # 0 => "context" \in held  BY <1>1 DEF LifeInv, ShaderInv
<1>5. CASE process' = "terminated" /\ UNCHANGED <<phase, releases>>
  <2>1. BuiltInv'  BY <1>2, <1>5 DEF LifeInv, BuiltInv
  <2>2. ShaderInv'  BY <1>2, <1>3, <1>4, <1>5 DEF ShaderInv
  <2> QED  BY <1>2, <1>5, <2>1, <2>2 DEF LifeInv, TakingInv
<1>6. CASE phase' = "release" /\ releases' = ReleaseOrder(phase \in RendererSteps) /\ UNCHANGED process
  <2>1. BuiltInv'
    <3>1. \A i \in 1..21 : phase' # Startup[i]  BY <1>6, StartupList
    <3>2. phase' \notin FramePhases \union {"loop"}  BY <1>6 DEF FramePhases
    <3> QED  BY <1>1, <1>2, <3>1, <3>2 DEF BuiltInv
  <2>2. ShaderInv'  BY <1>2, <1>3, <1>4, <1>6 DEF ShaderInv
  <2>3. \/ releases' = ReleaseOrder(FALSE)
        \/ releases' = ReleaseOrder(TRUE) /\ held \subseteq Things \ {"renderer", "game", "client"}
    <3>1. CASE phase \in RendererSteps
      <4>1. (phase \in RendererSteps) = TRUE  BY <3>1
      <4>2. releases' = ReleaseOrder(TRUE)  BY <1>6, <4>1
      <4>3. phase \in StartupSteps  BY <3>1 DEF PhaseInv, FramePhases, RendererSteps, ShaderSteps
      <4>4. PICK i \in 1..21 : phase = Startup[i]  BY <4>3 DEF StartupSteps
      <4>5. held = Built(i)  BY <4>4 DEF LifeInv, BuiltInv
      <4>6. held \subseteq Things \ {"renderer", "game", "client"}  BY <3>1, <4>4, <4>5, BuiltFailed
      <4> QED  BY <4>2, <4>6
    <3>2. CASE phase \notin RendererSteps
      <4>1. (phase \in RendererSteps) = FALSE  BY <3>2
      <4> QED  BY <1>6, <4>1
    <3> QED  BY <3>1, <3>2
  <2>4. PICK order : order = releases'  OBVIOUS
  <2>5. /\ order \in Seq(Released)
        /\ held \subseteq Listed(order)
        /\ "program" \in Listed(order)
        /\ Orderly(order)
        /\ order = ReleaseOrder(FALSE) => ShaderFirst(order)
    BY <1>1, <2>3, <2>4, TakingBegins
  <2>6. ~failed' => order = ReleaseOrder(FALSE)
    <3>1. CASE phase \in RendererSteps  BY <1>2, <3>1
    <3>2. CASE phase \notin RendererSteps
      <4>1. (phase \in RendererSteps) = FALSE  BY <3>2
      <4> QED  BY <1>6, <2>4, <4>1
    <3> QED  BY <3>1, <3>2
  <2>7. TakingInv'  BY <1>2, <2>4, <2>5, <2>6 DEF TakingInv
  <2> QED  BY <1>2, <1>6, <2>1, <2>2, <2>7 DEF LifeInv
<1> QED  BY <1>2, <1>5, <1>6

\* main leaves its loop with everything there.
LEMMA LifeLeave ==
    ASSUME LifeInv, LeaveLoop
    PROVE  LifeInv'
<1>1. /\ process = "running" /\ phase = "loop" /\ phase' = "release" /\ releases' = ReleaseOrder(FALSE)
      /\ UNCHANGED <<process, held, failed, m_id, attached>>
  BY DEF LeaveLoop, Running, shaderVars
<1>2. ~failed /\ attached = {} /\ held = Things  BY <1>1 DEF LifeInv, ShaderInv, BuiltInv
<1>3. BuiltInv'
  <2>1. \A i \in 1..21 : phase' # Startup[i]  BY <1>1, StartupList
  <2>2. phase' \notin FramePhases \union {"loop"}  BY <1>1 DEF FramePhases
  <2> QED  BY <1>1, <1>2, <2>1, <2>2 DEF BuiltInv
<1>4. ShaderInv'  BY <1>1, <1>2 DEF LifeInv, ShaderInv
<1>5. PICK order : order = releases' /\ order = ReleaseOrder(FALSE)  BY <1>1
<1>6. /\ order \in Seq(Released)
      /\ held \subseteq Listed(order)
      /\ "program" \in Listed(order)
      /\ Orderly(order)
      /\ order = ReleaseOrder(FALSE) => ShaderFirst(order)
  BY <1>2, <1>5, TakingBegins
<1>7. TakingInv'  BY <1>1, <1>5, <1>6 DEF TakingInv
<1> QED  BY <1>1, <1>3, <1>4, <1>7 DEF LifeInv

\* A thing is taken down: nothing that is left needs it.
LEMMA LifeRelease ==
    ASSUME LifeInv, Release
    PROVE  LifeInv'
<1>1. /\ process = "running" /\ phase = "release" /\ releases # <<>>
      /\ held' = held \ {Head(releases)} /\ releases' = Tail(releases)
      /\ m_id' = IF Head(releases) = "program" THEN 0 ELSE m_id
      /\ attached' = IF Head(releases) = "context" THEN {} ELSE attached
      /\ UNCHANGED <<phase, process, failed>>
  BY DEF Release, Running
<1>2. /\ releases \in Seq(Released) /\ held \subseteq Listed(releases) /\ held \subseteq Things
      /\ m_id # 0 => "program" \in Listed(releases)
      /\ Orderly(releases) /\ (~failed => ShaderFirst(releases))
  BY <1>1 DEF LifeInv, TakingInv, BuiltInv
<1>3. PICK rest : rest = releases'  OBVIOUS
<1>4. /\ rest \in Seq(Released)
      /\ Head(releases) = releases[1] /\ 1 \in 1..Len(releases)
      /\ Orderly(rest)
      /\ ~failed => ShaderFirst(rest)
      /\ \A thing \in Listed(releases) : thing # Head(releases) => thing \in Listed(rest)
  BY <1>1, <1>2, <1>3, TailOrderly
<1>5. TakingInv'
  <2>1. held' \subseteq Listed(rest)  BY <1>1, <1>2, <1>4
  <2>2. m_id' # 0 => "program" \in Listed(rest)  BY <1>1, <1>2, <1>4
  <2> QED  BY <1>1, <1>3, <1>4, <2>1, <2>2 DEF TakingInv
<1>6. ASSUME NEW thing \in Listed(releases), thing # releases[1]
      PROVE  \E j \in 1..Len(releases) : 1 < j /\ releases[j] = thing
  <2>1. PICK j \in 1..Len(releases) : releases[j] = thing  BY DEF Listed
  <2>2. j # 1  BY <1>6, <2>1
  <2>3. 1 < j  BY <2>1, <2>2
  <2> QED  BY <2>1, <2>3
<1>7. ASSUME NEW thing \in held'
      PROVE  Needs[thing] \subseteq held'
  <2>1. thing \in held /\ thing # releases[1]  BY <1>1, <1>4
  <2>2. PICK j \in 1..Len(releases) : 1 < j /\ releases[j] = thing  BY <1>2, <1>6, <2>1
  <2>3. releases[1] \notin Needs[thing]  BY <1>2, <1>4, <2>1, <2>2 DEF Orderly
  <2> QED  BY <1>1, <1>4, <2>1, <2>3 DEF LifeInv
<1>8. ShaderInv'
  <2>1. ASSUME m_id' # 0, ~failed PROVE "context" \in held'
    <3>1. m_id # 0 /\ releases[1] # "program"  BY <1>1, <1>4, <2>1
    <3>2. "context" \in held  BY <2>1, <3>1 DEF LifeInv, ShaderInv
    <3>3. PICK j \in 1..Len(releases) : 1 < j /\ releases[j] = "program"  BY <1>2, <1>6, <3>1
    <3>4. releases[1] # "context"  BY <1>2, <1>4, <2>1, <3>3 DEF ShaderFirst
    <3> QED  BY <1>1, <1>4, <3>2, <3>4
  <2>2. attached' # {} => failed  BY <1>1 DEF LifeInv, ShaderInv
  <2> QED  BY <1>1, <2>1, <2>2 DEF ShaderInv
<1>9. BuiltInv'
  <2>1. \A i \in 1..21 : phase' # Startup[i]  BY <1>1, StartupList
  <2>2. phase' \notin FramePhases \union {"loop"}  BY <1>1 DEF FramePhases
  <2> QED  BY <1>1, <1>2, <2>1, <2>2 DEF BuiltInv
<1> QED  BY <1>1, <1>5, <1>7, <1>8, <1>9 DEF LifeInv

\* At the end nothing is left.
LEMMA LifeEnd ==
    ASSUME LifeInv, End
    PROVE  LifeInv'
<1>1. /\ process = "running" /\ phase = "release" /\ releases = <<>> /\ process' \in {"returned", "terminated"}
      /\ UNCHANGED <<phase, held, releases, failed, m_id, attached>>
  BY DEF End, Running, shaderVars
<1>2. Listed(releases) = {}  BY <1>1 DEF Listed
<1>3. held = {} /\ m_id = 0  BY <1>1, <1>2 DEF LifeInv, TakingInv
<1>4. BuiltInv' /\ TakingInv'  BY <1>1 DEF LifeInv, BuiltInv, TakingInv
<1>5. ShaderInv'  BY <1>1 DEF LifeInv, ShaderInv
<1> QED  BY <1>1, <1>3, <1>4, <1>5 DEF LifeInv

\* A frame builds up nothing and takes nothing down.
LEMMA LifeFrame ==
    ASSUME LifeInv, phase \in FramePhases \union {"loop"}, phase' \in FramePhases \union {"loop"},
           UNCHANGED <<process, held, failed, shaderVars>>
    PROVE  LifeInv'
<1>1. \A i \in 1..21 : phase' # Startup[i]  BY StartupList
<1>2. BuiltInv'  BY <1>1 DEF LifeInv, BuiltInv
<1>3. phase # "release" /\ phase' # "release" /\ phase \notin {"vertex", "fragment", "link"}  BY DEF FramePhases
<1>4. ShaderInv'  BY <1>3 DEF LifeInv, ShaderInv, shaderVars
<1> QED  BY <1>2, <1>3, <1>4 DEF LifeInv, TakingInv, shaderVars

\* The program may be gone at once.
LEMMA LifeAborts ==
    ASSUME LifeInv, process' \notin {"running", "returned"}, UNCHANGED <<phase, held, releases, failed, shaderVars>>
    PROVE  LifeInv'
<1>1. BuiltInv' /\ TakingInv'  BY DEF LifeInv, BuiltInv, TakingInv, shaderVars
<1>2. ShaderInv'  BY DEF LifeInv, ShaderInv, shaderVars
<1> QED  BY <1>1, <1>2 DEF LifeInv

LEMMA LifeStep == PhaseInv /\ LifeInv /\ [Next]_vars => LifeInv'
<1> SUFFICES ASSUME PhaseInv, LifeInv, [Next]_vars PROVE LifeInv'  OBVIOUS
<1>1. ASSUME NEW s \in StartupSteps, Build(s) \/ BuildThrows(s) \/ BuildAborts(s) \/ CompileAndAttach(s)
      PROVE  LifeInv'
  <2>1. CASE Build(s)  BY <2>1, LifeBuild
  <2>2. CASE BuildThrows(s)
    <3>1. process = "running" /\ phase # "release" /\ Throws /\ UNCHANGED shaderVars
      BY <2>2, StartupPhases DEF BuildThrows, Running
    <3> QED  BY <3>1, LifeThrows
  <2>3. CASE BuildAborts(s)
    BY <2>3, LifeAborts DEF BuildAborts
  <2>4. CASE CompileAndAttach(s)
    <3>1. ShaderMoves  BY <2>4, ShaderIsMove
    <3> QED  BY <3>1, LifeShader
  <2> QED  BY <1>1, <2>1, <2>2, <2>3, <2>4
<1>2. CASE CreateProgram \/ LinkProgram
  <2>1. "link" \in StartupSteps  BY StartupMembers
  <2>2. ShaderMoves  BY <1>2, <2>1, ShaderIsMove
  <2> QED  BY <2>2, LifeShader
<1>3. CASE PollThrows
  <2>1. process = "running" /\ phase # "release" /\ Throws /\ UNCHANGED shaderVars
    BY <1>3 DEF PollThrows, Running
  <2> QED  BY <2>1, LifeThrows
<1>4. CASE LeaveLoop  BY <1>4, LifeLeave
<1>5. CASE BeginFrame \/ UserEvent \/ EndEvents \/ ToggleCapture \/ OnFrame
  <2>1. /\ phase \in FramePhases \union {"loop"} /\ phase' \in FramePhases \union {"loop"}
        /\ UNCHANGED <<process, held, failed, shaderVars>>
    BY <1>5 DEF BeginFrame, UserEvent, QuitEvent, KeyEvent, MotionEvent, Event,
                EndEvents, ToggleCapture, OnFrame, Running, lifeVars, FramePhases
  <2> QED  BY <2>1, LifeFrame
<1>6. CASE Release  BY <1>6, LifeRelease
<1>7. CASE End  BY <1>7, LifeEnd
<1>8. CASE UNCHANGED vars
  BY <1>8 DEF vars, lifeVars, shaderVars, LifeInv, BuiltInv, ShaderInv, TakingInv
<1> QED  BY <1>1, <1>2, <1>3, <1>4, <1>5, <1>6, <1>7, <1>8, StartupRange DEF Next, StartupNext, FrameNext

\* Wherever building up fails and whenever the loop ends, nothing is taken down
\* while something that uses it is left, and a program that returns has nothing
\* left (the constructor and destructor of the renderer, the destructors of
\* application_impl's members and the scope guards of main).
THEOREM ApplicationReleasedInOrder == Spec => []ReleasedInOrder
<1>1. Init => ApplicationInv /\ LifeInv  BY ApplicationInit, LifeInit
<1>2. ApplicationInv /\ LifeInv /\ [Next]_vars => (ApplicationInv /\ LifeInv)'
  BY ApplicationStep, LifeStep DEF ApplicationInv
<1>3. LifeInv => ReleasedInOrder
  BY DEF LifeInv, ShaderInv, ReleasedInOrder, ShaderSteps
<1> QED  BY <1>1, <1>2, <1>3, PTL DEF Spec
=============================================================================
