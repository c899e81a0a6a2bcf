----------------------------- MODULE InputLoop -----------------------------
(***************************************************************************)
(* What steers the camera: the keyboard and mouse messages of a turn of    *)
(* the main loop, which write Kernel::keystatus and Kernel::mouse, and the *)
(* timer whose update() hands them to the camera.                          *)
(*                                                                         *)
(* freeglut reports the character a key makes with the shift key as it is  *)
(* at that moment, when the key goes down, repeats, and goes up; a key     *)
(* moved while the window has no focus is not reported.  A button captures *)
(* the mouse when it goes down, any button that comes up gives the capture *)
(* up, and without it a button moved outside the window is not reported.   *)
(* Milliseconds are not counted: a timer is due some time after it was     *)
(* set.  A turn is KernelLoop's, with the window's own messages and the    *)
(* frame left out, and it may be the last.                                 *)
(***************************************************************************)

CONSTANTS
  Key,       \* keys that make a character
  Point      \* where the pointer may be

ASSUME PointAssumption == <<0, 0>> \in Point

VARIABLES
  phase,            \* of the turn: "messages", "timers"; "config" before, "over" after
  rate,             \* logic_update_rate is not 0 milliseconds
  timer,            \* "none"; "set"; its time has "passed"; it is "due" in this turn
  later,            \* the clock is later than when the timers were checked
  keystatus,        \* of the kernel: characters
  leftPressed,      \* mouse.leftPressed
  coords,           \* mouse.coords
  old_mouse,        \* of the camera
  steering,         \* what the camera's last update did
  down, shift, focus,     \* the keyboard, as it is
  left, other, captured,  \* the mouse's buttons, as they are
  unsure, unsureDrag,     \* history: characters, and the drag, that something
                          \* unreported was done to
  before                  \* history: where the pointer was at the update before

keyVars   == <<keystatus, down, shift, focus, unsure>>
pointerVars == <<coords, old_mouse, before>>
mouseVars == <<leftPressed, left, other, captured, unsureDrag, pointerVars>>
clockVars == <<rate, timer, later, steering>>
inputVars == <<phase, keyVars, mouseVars, clockVars>>

Character == Key \X BOOLEAN      \* of a key, and of the key with shift
Still == [keys |-> {}, turn |-> FALSE]

(* the constructors of Kernel and camera *)
Idle ==
  /\ later = FALSE /\ steering = Still
  /\ keystatus = {} /\ leftPressed = FALSE
  /\ coords = <<0, 0>> /\ old_mouse = <<0, 0>> /\ before = <<0, 0>>
  /\ down = {} /\ shift = FALSE /\ focus = TRUE
  /\ left = FALSE /\ other = FALSE /\ captured = FALSE
  /\ unsure = {} /\ unsureDrag = FALSE

(* main has set the timer and runs the loop *)
InputInit == phase = "messages" /\ rate \in BOOLEAN /\ timer = "set" /\ Idle

-----------------------------------------------------------------------------
(* Messages of the keyboard *)

AtKey == phase = "messages" /\ UNCHANGED <<phase, mouseVars, clockVars>>

(* inputKeyDown *)
KeyDown(k) == keystatus' = keystatus \cup {<<k, shift>>}

(* fault: the key that comes up is taken for a small letter *)
KeyUp_Plain(k) == keystatus' = keystatus \ {<<k, FALSE>>}
(* inputKeyUp *)
KeyUp(k) == keystatus' = keystatus \ {<<k, shift>>}

Press(k) ==
  /\ AtKey /\ focus /\ k \notin down
  /\ KeyDown(k)
  /\ down' = down \cup {k} /\ unsure' = unsure \ {<<k, shift>>}
  /\ UNCHANGED <<shift, focus>>

Repeat(k) ==
  /\ AtKey /\ focus /\ k \in down
  /\ KeyDown(k)
  /\ UNCHANGED <<down, shift, focus, unsure>>

Release(k) ==
  /\ AtKey /\ focus /\ k \in down
  /\ KeyUp(k)
  /\ down' = down \ {k} /\ unsure' = unsure \ {<<k, shift>>}
  /\ UNCHANGED <<shift, focus>>

(* a key goes down or up for another window *)
Unheard(k) ==
  /\ AtKey /\ ~focus
  /\ down' = IF k \in down THEN down \ {k} ELSE down \cup {k}
  /\ unsure' = unsure \cup {k} \X BOOLEAN
  /\ UNCHANGED <<keystatus, shift, focus>>

(* the shift key itself makes no character *)
Shift ==
  /\ AtKey
  /\ shift' = ~shift /\ unsure' = unsure \cup down \X BOOLEAN
  /\ UNCHANGED <<keystatus, down, focus>>

Focus ==
  /\ AtKey
  /\ focus' = ~focus
  /\ UNCHANGED <<keystatus, down, shift, unsure>>

Keyboard == \/ \E k \in Key : Press(k) \/ Repeat(k) \/ Release(k) \/ Unheard(k)
            \/ Shift \/ Focus

-----------------------------------------------------------------------------
(* Messages of the mouse *)

AtMouse == phase = "messages" /\ UNCHANGED <<phase, keyVars, clockVars>>

MousePressed(button, state) ==
  leftPressed' = IF button = "left" THEN state ELSE leftPressed

LeftDown ==
  /\ AtMouse /\ ~left
  /\ MousePressed("left", TRUE)
  /\ left' = TRUE /\ captured' = TRUE /\ unsureDrag' = FALSE
  /\ UNCHANGED <<other, pointerVars>>

OtherDown ==
  /\ AtMouse /\ ~other
  /\ MousePressed("right", TRUE)
  /\ other' = TRUE /\ captured' = TRUE
  /\ UNCHANGED <<left, unsureDrag, pointerVars>>

LeftUp ==
  /\ AtMouse /\ left
  /\ MousePressed("left", FALSE)
  /\ left' = FALSE /\ captured' = FALSE /\ unsureDrag' = FALSE
  /\ UNCHANGED <<other, pointerVars>>

OtherUp ==
  /\ AtMouse /\ other
  /\ MousePressed("right", FALSE)
  /\ other' = FALSE /\ captured' = FALSE
  /\ UNCHANGED <<left, unsureDrag, pointerVars>>

(* outside the window *)
Elsewhere ==
  /\ AtMouse /\ ~captured
  /\ \/ left' = ~left /\ unsureDrag' = TRUE /\ UNCHANGED other
     \/ other' = ~other /\ UNCHANGED <<left, unsureDrag>>
  /\ UNCHANGED <<leftPressed, captured, pointerVars>>

(* another window takes the capture *)
CaptureLost ==
  /\ AtMouse /\ captured
  /\ captured' = FALSE
  /\ UNCHANGED <<leftPressed, left, other, unsureDrag, pointerVars>>

(* Kernel::motion, with a button down or not *)
Motion ==
  /\ AtMouse
  /\ coords' \in Point
  /\ UNCHANGED <<leftPressed, left, other, captured, unsureDrag, old_mouse, before>>

Mouse == LeftDown \/ OtherDown \/ LeftUp \/ OtherUp \/ Elsewhere \/ CaptureLost \/ Motion

-----------------------------------------------------------------------------
(* The timer *)

(* fghCheckTimers, when no message is left *)
CheckTimers ==
  /\ phase = "messages"
  /\ phase' = "timers" /\ later' = FALSE
  /\ timer' = IF timer = "passed" THEN "due" ELSE timer
  /\ UNCHANGED <<rate, steering, keyVars, mouseVars>>

(* fault: the timer is not set again *)
SetTimer_Once == timer' = "none"
(* update() sets the timer again.  One of 0 ms is due in the same turn     *)
(* until the clock goes on.                                                *)
SetTimer ==
  timer' = IF rate THEN "set" ELSE IF later THEN "passed" ELSE "due"

(* small letters move, and what the pointer moved since old_mouse turns *)
Steered ==
  [keys |-> {k \in Key : <<k, FALSE>> \in keystatus},
   turn |-> leftPressed /\ coords # old_mouse]

(* fault: the old coordinates are kept while the button is up *)
Steer_OldMouse ==
  steering' = Steered /\ old_mouse' = IF leftPressed THEN coords ELSE old_mouse
(* Kernel::update and FirstPersonCamera::update *)
Steer == steering' = Steered /\ old_mouse' = coords

Update ==
  /\ phase = "timers" /\ timer = "due"
  /\ SetTimer
  /\ Steer /\ before' = coords
  /\ UNCHANGED <<phase, rate, later, keyVars, coords,
                 leftPressed, left, other, captured, unsureDrag>>

(* no timer is due: the frame, and the next turn if there is one *)
EndTurn ==
  /\ phase = "timers" /\ timer # "due"
  /\ phase' \in {"messages", "over"}
  /\ UNCHANGED <<keyVars, mouseVars, clockVars>>

(* the window is closed *)
Close ==
  /\ phase = "messages"
  /\ phase' = "over"
  /\ UNCHANGED <<keyVars, mouseVars, clockVars>>

Tick ==
  /\ timer = "set" \/ ~later
  /\ later' = TRUE
  /\ timer' = IF timer = "set" THEN "passed" ELSE timer
  /\ UNCHANGED <<phase, rate, steering, keyVars, mouseVars>>

Turn == CheckTimers \/ Update \/ EndTurn
InputNext == Keyboard \/ Mouse \/ Close \/ Turn \/ Tick

(* main's thread goes on and so does the clock; the user need not do       *)
(* anything, and the messages of one turn are finitely many.               *)
InputSpec == InputInit /\ [][InputNext]_inputVars /\ WF_inputVars(Turn) /\ WF_inputVars(Tick)

-----------------------------------------------------------------------------
(* Properties *)

InputTypeOK ==
  /\ phase \in {"config", "messages", "timers", "over"}
  /\ rate \in BOOLEAN /\ timer \in {"none", "set", "passed", "due"} /\ later \in BOOLEAN
  /\ steering \in [keys : SUBSET Key, turn : BOOLEAN]
  /\ keystatus \subseteq Character /\ unsure \subseteq Character /\ down \subseteq Key
  /\ shift \in BOOLEAN /\ focus \in BOOLEAN
  /\ coords \in Point /\ old_mouse \in Point /\ before \in Point
  /\ leftPressed \in BOOLEAN
  /\ left \in BOOLEAN /\ other \in BOOLEAN /\ captured \in BOOLEAN /\ unsureDrag \in BOOLEAN

(* A key sticks only if it, or the shift key while it was held, was moved  *)
(* since it last went down or up with this character: for every other      *)
(* character keystatus is what the hands do, whatever else is pressed.     *)
KeysFollowHands ==
  \A k \in Key, b \in BOOLEAN :
    <<k, b>> \notin unsure => (<<k, b>> \in keystatus <=> k \in down /\ b = shift)

(* An update turns the camera exactly if the left button is down then and  *)
(* the pointer elsewhere than at the update before: not by a drag that was *)
(* over in between, nor by motion older than that, however long the button *)
(* was up and whatever other buttons did - but by motion made since, also  *)
(* before the button went down (old_mouse is set by update only).  A left  *)
(* button moved unreported may turn it or fail to, never without motion.   *)
TurnsIfHeldAndMoved ==
  [][Update =>
       /\ steering'.turn => coords # before
       /\ ~unsureDrag => (steering'.turn <=> left /\ coords # before)]_inputVars

Held == {k \in Key : <<k, FALSE>> \in keystatus}

(* The camera comes to move by the keys that stay as they are: updates go  *)
(* on, at any rate, until the loop is over.                                *)
CameraFollowsKeys ==
  \A keys \in SUBSET Key :
    <>[](Held = keys) => <>[](steering.keys = keys) \/ <>(phase = "over")
=============================================================================
