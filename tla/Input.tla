------------------------------- MODULE Input -------------------------------
(***************************************************************************)
(* Input (input.py) with the buttons (buttons.py), the touchscreen         *)
(* (touch.py and its driver) and the shutdown timer (auto_shutdown.py).    *)
(*                                                                         *)
(* Interrupt handlers set event flags at any moment; the program waits for *)
(* every contact to be released, flushes the flags while the contacts      *)
(* settle, polls the flags in a fixed order, and follows the press to its  *)
(* end.  A flush and a poll of several flags are one step: each flag is    *)
(* independent of the others.  A contact rings after each edge and may set *)
(* its flag again; it is quiet before the debounce time is over.           *)
(*                                                                         *)
(* Time is what it decides: whether the debounce time and the sample       *)
(* period of the screen are over, whether a wait or a hold is long, and    *)
(* the seconds that the shutdown timer counts.                             *)
(***************************************************************************)
EXTENDS Naturals, Sequences

CONSTANTS
  Order,       \* the buttons of the board, in the order they are polled
  HasTouch,    \* TRUE: the board has a touchscreen
  Period,      \* shutdown_time, in ticks of the timer
  MaxPresses   \* bound: how many times the user presses or touches

ASSUME InputAssumption ==
  /\ Order \in Seq(STRING \ {"touch"})
  /\ HasTouch \in BOOLEAN
  /\ Period \in Nat \ {0} /\ MaxPresses \in Nat

Buttons == {Order[i] : i \in 1..Len(Order)}
Sources == Buttons \cup {"touch"}

\* The buttons that wait_for_fastnav_button looks at.
PageButtons == Buttons \cap {"page", "page_prev"}

\* How the pages wait: until a press ("prompt"); with wait_for_fastnav_button,
\* until a press ("keypad", and a menu without a screen saver) or the screen
\* saver ("menu"); for one frame of an animated page ("frame").
Modes == {"prompt", "keypad", "menu", "frame"}
Blocks(m) == m \in {"prompt", "keypad"}
FastNavs(m) == m \in {"keypad", "menu"}

\* Two places on the screen, further apart than SWIPE_THRESHOLD.
Points == {"A", "B"}

VARIABLES
  down, ringing,   \* the buttons held, and those whose contact still rings
  flag,            \* the event flags of the buttons
  finger,          \* where the finger is, "up" if it is not on the screen
  tflag, irq,      \* the driver's event flag and its point, "none" if no use
  tstate,          \* Touch.state: "idle", "pressed", "released"
  from, to,        \* Touch.press_point and release_point
  gesture,         \* Touch.gesture is set
  sampled,         \* the last sample is within TOUCH_S_PERIOD
  settling,        \* debounce_time + debounce_value is not reached
  flushed,         \* flushed_flag
  active,          \* buttons_active
  mode, pc, src,   \* the call under way, its step, the press it follows
  timeOut,         \* AutoShutdown.time_out
  served,          \* history: sources whose last press was reported, not as a hold
  old,             \* history: flags left over from before the call
  owed,            \* history: presses of an animated page since its last answer
  points,          \* history: where the finger was since a gesture was reported
  presses          \* history: how many presses and touches so far

contacts == <<down, ringing, finger>>
screen == <<tflag, irq, tstate, from, to, gesture, sampled>>
call == <<settling, flushed, active, mode, pc, src>>
history == <<served, old, owed, points, presses>>
vars == <<contacts, flag, screen, call, timeOut, history>>

\* The type of each variable.
TypeOK ==
  /\ down \subseteq Buttons /\ ringing \subseteq Buttons /\ flag \subseteq Buttons
  /\ finger \in Points \cup {"up"} /\ irq \in Points \cup {"none"}
  /\ tstate \in {"idle", "pressed", "released"}
  /\ from \in Points /\ to \in Points
  /\ {tflag, gesture, sampled, settling, flushed, active} \subseteq BOOLEAN
  /\ mode \in Modes
  /\ pc \in {"page", "release", "settle", "poll", "held", "touched", "off"}
  /\ src \in Sources \cup {"none"}
  /\ timeOut \in 0..Period
  /\ served \subseteq Sources /\ old \subseteq Buttons /\ owed \subseteq Buttons
  /\ points \subseteq Points /\ presses \in 0..MaxPresses
----------------------------------------------------------------------------
\* The touchscreen.

\* Touch.current_state, which touch_value calls: a release far from where the
\* press began is a gesture.
CurrentState ==
  CASE finger # "up" -> IF tstate = "idle" THEN "pressed" ELSE tstate
    [] finger = "up" -> IF tstate = "pressed" THEN "released" ELSE "idle"

Sample ==
  /\ sampled' = TRUE
  /\ tstate' = CurrentState
  /\ from' = IF finger # "up" /\ tstate = "idle" THEN finger ELSE from
  /\ to' = IF finger # "up" THEN finger ELSE to
  /\ gesture' = (gesture \/ (finger = "up" /\ tstate = "pressed" /\ from # to))
  /\ UNCHANGED <<tflag, irq>>

\* Touch.event looks at the flag only once the sample period is over, and
\* reports a touch whose point is known and in a region of the page.
TouchReady == HasTouch /\ tflag /\ ~sampled

TouchEvent ==
  /\ tflag' = FALSE
  /\ IF irq \in Points THEN tstate' = "pressed" /\ from' = irq /\ to' = irq
     ELSE tstate' = "idle" /\ UNCHANGED <<from, to>>
  /\ UNCHANGED <<irq, gesture, sampled>>
----------------------------------------------------------------------------
\* The steps of wait_for_button.

FlushEvents ==
  /\ flag' = {}
  /\ old' = {}
  /\ IF TouchReady THEN TouchEvent ELSE UNCHANGED screen

\* The contacts whose press was answered are quiet.
Settled == served \cap ringing = {}

\* reset_ios_state.
ResetIosState ==
  /\ flag' = {} /\ settling' = TRUE
  /\ IF TouchReady THEN TouchEvent ELSE UNCHANGED screen

\* Which pages reset the inputs before they wait: menus always, other pages
\* some do.  Animated QR codes do on their first frame and after an answer
\* that changed the brightness, and sleep for the debounce time before.
MayReset(m, reset) ==
  /\ m = "menu" => reset
  /\ m = "frame" /\ reset => Settled /\ (mode # "frame" \/ src # "none")

\* A page calls wait_for_button, or wait_for_fastnav_button with no PAGE
\* button held.
Call(m, reset) ==
  /\ pc = "page" /\ MayReset(m, reset)
  /\ FastNavs(m) => PageButtons \cap down = {}
  /\ pc' = "release" /\ mode' = m
  /\ IF reset THEN ResetIosState ELSE UNCHANGED <<flag, settling, screen>>
  /\ old' = flag'
  /\ owed' = IF m = "frame" THEN owed ELSE {}
  /\ UNCHANGED <<contacts, flushed, active, src, timeOut, served, points, presses>>

\* wait_for_fastnav_button with a PAGE button held: FAST_FORWARD or
\* FAST_BACKWARD at once, again and again while it is held.
FastNav(m, reset) ==
  /\ pc = "page" /\ FastNavs(m) /\ MayReset(m, reset)
  /\ PageButtons \cap down # {}
  /\ mode' = m
  /\ IF reset THEN ResetIosState ELSE UNCHANGED <<flag, settling, screen>>
  /\ owed' = {}
  /\ UNCHANGED <<contacts, flushed, active, pc, src, timeOut>>
  /\ UNCHANGED <<served, old, points, presses>>

\* wait_for_release
WaitForRelease ==
  /\ pc = "release" /\ down = {}
  /\ IF HasTouch THEN Sample ELSE UNCHANGED screen
  /\ pc' = IF HasTouch /\ tstate' # "idle" THEN "release" ELSE "settle"
  /\ UNCHANGED <<contacts, flag, settling, flushed, active, mode, src, timeOut, history>>

\* The debounce is off from the second frame of an animated page on.
DisableDebounce == flushed /\ mode = "frame"

\* One turn of the loop that flushes until the debounce time is over.
Settle ==
  /\ pc = "settle" /\ settling /\ ~DisableDebounce
  /\ FlushEvents
  /\ (settling' = TRUE \/ (settling' = FALSE /\ Settled))
  /\ UNCHANGED <<contacts, flushed, active, mode, pc, src, timeOut>>
  /\ UNCHANGED <<served, owed, points, presses>>

\* Mutants: every frame flushes; a page that waits for a press flushes only if
\* nothing was flushed before; the debounce time is not waited for.
StartPollFlushes ==
  /\ pc = "settle" /\ (~settling \/ DisableDebounce)
  /\ pc' = "poll"
  /\ settling' = FALSE
  /\ FlushEvents /\ flushed' = ~Blocks(mode)
  /\ owed' = IF flushed /\ mode = "frame" THEN owed ELSE {}
  /\ UNCHANGED <<contacts, active, mode, src, timeOut, served, points, presses>>

StartPollOnce ==
  /\ pc = "settle" /\ (~settling \/ DisableDebounce)
  /\ pc' = "poll"
  /\ settling' = FALSE
  /\ IF ~flushed
     THEN FlushEvents /\ flushed' = ~Blocks(mode) /\ owed' = {}
     ELSE UNCHANGED <<flag, screen, flushed, old, owed>>
  /\ UNCHANGED <<contacts, active, mode, src, timeOut, served, points, presses>>

StartPollAtOnce ==
  /\ pc = "settle"
  /\ pc' = "poll"
  /\ settling' = FALSE
  /\ IF ~flushed \/ Blocks(mode)
     THEN FlushEvents /\ flushed' = ~Blocks(mode) /\ owed' = {}
     ELSE UNCHANGED <<flag, screen, flushed, old, owed>>
  /\ UNCHANGED <<contacts, active, mode, src, timeOut, served, points, presses>>

StartPoll ==
  /\ pc = "settle" /\ (~settling \/ DisableDebounce)
  /\ pc' = "poll"
  /\ settling' = FALSE
  /\ IF ~flushed \/ Blocks(mode)
     THEN FlushEvents /\ flushed' = ~Blocks(mode) /\ owed' = {}
     ELSE UNCHANGED <<flag, screen, flushed, old, owed>>
  /\ UNCHANGED <<contacts, active, mode, src, timeOut, served, points, presses>>

\* The first flag that is set, in polling order, and auto_shutdown.feed.
PollButton(b) ==
  /\ pc = "poll" /\ b \in flag
  /\ \E i \in 1..Len(Order) :
       Order[i] = b /\ \A j \in 1..(i - 1) : Order[j] \notin flag
  /\ flag' = flag \ {b}
  /\ src' = b /\ pc' = "held"
  /\ timeOut' = Period
  /\ served' = served \cup {b} /\ old' = old \ {b} /\ owed' = {}
  /\ UNCHANGED <<contacts, screen, settling, flushed, active, mode>>
  /\ UNCHANGED <<points, presses>>

PollTouch ==
  /\ pc = "poll" /\ flag = {} /\ TouchReady
  /\ TouchEvent
  /\ IF irq \in Points
     THEN /\ src' = "touch" /\ pc' = "touched" /\ timeOut' = Period
          /\ served' = served \cup {"touch"} /\ owed' = {}
     ELSE UNCHANGED <<src, pc, timeOut, served, owed>>
  /\ UNCHANGED <<contacts, flag, settling, flushed, active, mode>>
  /\ UNCHANGED <<old, points, presses>>

\* Mutant: the shutdown timer is fed although nothing was pressed.
WaitIsOverFeeds ==
  /\ pc = "poll" /\ ~Blocks(mode) /\ flag = {} /\ ~TouchReady
  /\ pc' = "page" /\ settling' = TRUE /\ src' = "none"
  /\ timeOut' = Period
  /\ UNCHANGED <<contacts, flag, screen, flushed, active, mode, history>>

\* The wait is over without a press; wait_for_button returns None.
WaitIsOver ==
  /\ pc = "poll" /\ ~Blocks(mode) /\ flag = {} /\ ~TouchReady
  /\ pc' = "page" /\ settling' = TRUE /\ src' = "none"
  /\ UNCHANGED <<contacts, flag, screen, flushed, active, mode, timeOut, history>>

\* _handle_button_press: the release, or a hold longer than LONG_PRESS_PERIOD.
\* The first press after a touch only makes the buttons active.  The release
\* filter and the cube's stabilisation time are taken to do their work: a
\* contact that rings is read as it stands.
ButtonReleased ==
  /\ pc = "held" /\ src \notin down
  /\ pc' = "page" /\ settling' = TRUE /\ active' = TRUE
  /\ UNCHANGED <<contacts, flag, screen, flushed, mode, src, timeOut, history>>

LongPress ==
  /\ pc = "held"
  /\ pc' = "page" /\ settling' = TRUE /\ active' = TRUE
  /\ served' = served \ {src}
  /\ UNCHANGED <<contacts, flag, screen, flushed, mode, src, timeOut>>
  /\ UNCHANGED <<old, owed, points, presses>>

\* _handle_touch_input: samples until the screen is idle; the gesture, if one
\* is set, is reported and cleared.
FollowTouch ==
  /\ pc = "touched" /\ CurrentState # "idle"
  /\ Sample
  /\ UNCHANGED <<contacts, flag, call, timeOut, history>>

\* The places a gesture may still come from once one was reported: a touch
\* that is flagged and not looked at yet.
PointsLeft == IF ~gesture THEN points ELSE IF tflag THEN {irq} \cap Points ELSE {}

\* Mutant: the gesture is reported and not cleared.
TouchReleasedKeeps ==
  /\ pc = "touched" /\ CurrentState = "idle"
  /\ pc' = "page" /\ settling' = TRUE /\ active' = FALSE
  /\ tstate' = "idle" /\ sampled' = TRUE
  /\ points' = PointsLeft
  /\ UNCHANGED <<contacts, flag, tflag, irq, from, to, gesture, flushed, mode, src>>
  /\ UNCHANGED <<timeOut, served, old, owed, presses>>

TouchReleased ==
  /\ pc = "touched" /\ CurrentState = "idle"
  /\ pc' = "page" /\ settling' = TRUE /\ active' = FALSE
  /\ tstate' = "idle" /\ sampled' = TRUE /\ gesture' = FALSE
  /\ points' = PointsLeft
  /\ UNCHANGED <<contacts, flag, tflag, irq, from, to, flushed, mode, src, timeOut>>
  /\ UNCHANGED <<served, old, owed, presses>>
----------------------------------------------------------------------------
\* The user and the interrupts.

MayPress == pc # "off" /\ presses < MaxPresses /\ presses' = presses + 1

\* Within a frame that waits for a press, or between it and the next.
BetweenFrames ==
  /\ flushed /\ mode = "frame"
  /\ pc \in {"release", "settle", "poll"} \/ (pc = "page" /\ src = "none")

Press(b) ==
  /\ MayPress /\ b \notin down
  /\ down' = down \cup {b} /\ ringing' = ringing \cup {b}
  /\ flag' = flag \cup {b}
  /\ served' = served \ {b} /\ old' = old \ {b}
  /\ owed' = IF BetweenFrames THEN owed \cup {b} ELSE owed
  /\ UNCHANGED <<finger, screen, call, timeOut, points>>

Release(b) ==
  /\ b \in down
  /\ down' = down \ {b} /\ ringing' = ringing \cup {b}
  /\ UNCHANGED <<flag, finger, screen, call, timeOut, history>>

\* A falling edge of a ringing contact.
Bounce(b) ==
  /\ b \in ringing
  /\ flag' = flag \cup {b}
  /\ UNCHANGED <<contacts, screen, call, timeOut, history>>

Quiet(b) ==
  /\ b \in ringing
  /\ ringing' = ringing \ {b}
  /\ UNCHANGED <<down, flag, finger, screen, call, timeOut, history>>

\* trigger_event: the point may be outside the regions of the page, or the
\* finger may be gone before the handler reads it.
TouchDown(p, q) ==
  /\ HasTouch /\ MayPress /\ finger = "up"
  /\ finger' = p /\ points' = points \cup {p}
  /\ tflag' = TRUE /\ irq' = q /\ q \in {p, "none"}
  /\ served' = served \ {"touch"}
  /\ UNCHANGED <<down, ringing, flag, tstate, from, to, gesture, sampled>>
  /\ UNCHANGED <<call, timeOut, old, owed>>

Swipe(p) ==
  /\ finger \in Points \ {p}
  /\ finger' = p /\ points' = points \cup {p}
  /\ UNCHANGED <<down, ringing, flag, screen, call, timeOut>>
  /\ UNCHANGED <<served, old, owed, presses>>

TouchUp ==
  /\ finger # "up"
  /\ finger' = "up"
  /\ UNCHANGED <<down, ringing, flag, screen, call, timeOut, history>>
----------------------------------------------------------------------------
\* Time.

\* TOUCH_S_PERIOD ms since the last sample, and the debounce time since the
\* last answer while a page is drawn.
SampleAges ==
  /\ sampled /\ sampled' = FALSE
  /\ UNCHANGED <<contacts, flag, tflag, irq, tstate, from, to, gesture>>
  /\ UNCHANGED <<call, timeOut, history>>

Settles ==
  /\ settling /\ pc \in {"page", "release"} /\ Settled
  /\ settling' = FALSE
  /\ UNCHANGED <<contacts, flag, screen, flushed, active, mode, pc, src>>
  /\ UNCHANGED <<timeOut, history>>

\* AutoShutdown.seconds_counter: clears the context and shuts down at zero.
Tick ==
  /\ pc # "off"
  /\ IF timeOut > 0 THEN timeOut' = timeOut - 1 /\ UNCHANGED pc
     ELSE pc' = "off" /\ UNCHANGED timeOut
  /\ UNCHANGED <<contacts, flag, screen, settling, flushed, active, mode, src, history>>

Init ==
  /\ down = {} /\ ringing = {} /\ flag = {} /\ finger = "up"
  /\ tflag = FALSE /\ irq = "none" /\ tstate = "idle" /\ from = "A" /\ to = "A"
  /\ gesture = FALSE /\ sampled = TRUE
  /\ settling = FALSE /\ flushed = FALSE /\ active = ~HasTouch
  /\ mode = "prompt" /\ pc = "page" /\ src = "none"
  /\ timeOut = Period
  /\ served = {} /\ old = {} /\ owed = {} /\ points = {} /\ presses = 0

Program ==
  \/ \E m \in Modes, reset \in BOOLEAN : Call(m, reset) \/ FastNav(m, reset)
  \/ WaitForRelease \/ Settle \/ StartPoll
  \/ \E b \in Buttons : PollButton(b)
  \/ PollTouch \/ WaitIsOver
  \/ ButtonReleased \/ LongPress
  \/ FollowTouch \/ TouchReleased

World ==
  \/ \E b \in Buttons : Press(b) \/ Release(b) \/ Bounce(b) \/ Quiet(b)
  \/ \E p \in Points, q \in Points \cup {"none"} : TouchDown(p, q)
  \/ \E p \in Points : Swipe(p)
  \/ TouchUp
  \/ SampleAges \/ Settles

Next == Program \/ World \/ Tick

\* The timer interrupt keeps coming, whatever the program and the user do, and
\* a contact does not ring for ever.
Spec ==
  /\ Init /\ [][Next]_vars
  /\ WF_vars(Tick)
  /\ \A b \in Buttons : WF_vars(Quiet(b))
----------------------------------------------------------------------------
Reports == pc = "poll" /\ pc' \in {"held", "touched"}

\* One press is one answer: on a page that waits until a press, a contact
\* that rings after its press was reported is not reported again (the
\* debounce loop and the flush, input.py:220).
OnePressOneAnswer ==
  [][Reports /\ Blocks(mode) => src' \notin served]_vars

\* The flag of a button that was pressed before a prompt, a menu or a keypad
\* began to wait does not answer it (the flush at input.py:226, the reset at
\* pages/__init__.py:683).  A PAGE button still held does, by FastNav, and so
\* may a touch: its flag is not looked at within the sample period, and
\* WaitForRelease has just sampled.
ButtonsStartClean ==
  [][Reports /\ mode # "frame" /\ src' \in Buttons => src' \notin old]_vars

\* On an animated page a press in one frame or between two stays flagged until
\* the page has an answer (flushed_flag, input.py:222): the frames reset the
\* inputs at the first one and after an answer only (pages/__init__.py:328).
FramesKeepPresses == owed \subseteq flag

\* A gesture comes from two places the finger was at since the last gesture
\* was reported, and is reported once (touch.py:222, 265).  They may be the
\* places of two touches: a flushed touch and a later tap make a gesture.
GestureTwoPoints == gesture => points = Points

\* Whatever the pages wait for, a device that nobody touches shuts down.
ShutsDown == <>(pc = "off")
============================================================================
