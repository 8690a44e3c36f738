---------------------------- MODULE InputProofs ----------------------------
(***************************************************************************)
(* What holds of the input loop for every board (buttons and their polling *)
(* order, with or without a touchscreen), every shutdown time and any      *)
(* number of presses, whatever the interrupts do between two steps.        *)
(***************************************************************************)
EXTENDS Input, TLAPS

\* Presses are owed only within the frames of an animated page and between
\* them, as long as it has no answer.
OwedInFrames ==
  owed # {} =>
    /\ flushed /\ mode = "frame"
    /\ pc \in {"page", "release", "settle", "poll", "off"}
    /\ pc = "page" => src = "none"

Frames == OwedInFrames /\ FramesKeepPresses

\* Whatever will become a gesture comes from places the finger was at.
Gestures ==
  /\ gesture => points = Points
  /\ finger # "up" => finger \in points
  /\ tflag /\ irq # "none" => irq \in points
  /\ tstate = "pressed" => from \in points /\ to \in points

\* A button that is held was not answered yet, but for the one that is followed.
DownNotServed ==
  /\ pc \notin {"held", "off"} => down \cap served = {}
  /\ pc = "held" => down \cap served \subseteq {src}

\* Once the debounce time is over the contacts that were answered are quiet.
QuietInTime ==
  /\ ~settling /\ pc \in {"page", "release", "settle"} => Settled
  /\ pc = "poll" /\ Blocks(mode) => Settled /\ flag \cap served = {}

TouchNotServed == tflag => "touch" \notin served

Answers == DownNotServed /\ QuietInTime /\ TouchNotServed

\* No flag is left over when a page that waits for a press polls.
Clean ==
  /\ pc \in {"release", "settle", "poll"} /\ mode = "menu" => old = {}
  /\ pc = "poll" /\ Blocks(mode) => old = {}

Inv == TypeOK /\ Frames /\ Gestures /\ Answers /\ Clean

LEMMA TouchIsNoButton == "touch" \notin Buttons
  BY InputAssumption DEF Buttons

USE DEF contacts, screen, call, history

----------------------------------------------------------------------------
(* Each part of the invariant is kept by each step.                        *)

\* The types of the screen's variables, which a flush may change.
ScreenOK ==
  /\ irq \in Points \cup {"none"} /\ tstate \in {"idle", "pressed", "released"}
  /\ from \in Points /\ to \in Points /\ {tflag, gesture, sampled} \subseteq BOOLEAN

LEMMA FlushTypes ==
  ASSUME TypeOK, IF TouchReady THEN TouchEvent ELSE UNCHANGED screen
  PROVE  ScreenOK'
<1>1. ASSUME TouchEvent PROVE ScreenOK'
  BY <1>1 DEF TypeOK, TouchEvent, ScreenOK
<1>2. ASSUME UNCHANGED screen PROVE ScreenOK'
  BY <1>2 DEF TypeOK, ScreenOK
<1>3. QED
  BY <1>1, <1>2

LEMMA TypeStep ==
  ASSUME TypeOK, [Next]_vars
  PROVE  TypeOK'
<1> USE InputAssumption, TouchIsNoButton
<1> USE DEF TypeOK, Sources, Modes, Points
<1>1. ASSUME NEW m \in Modes, NEW reset \in BOOLEAN, Call(m, reset) PROVE TypeOK'
  <2>1. ScreenOK' /\ flag' \subseteq Buttons /\ settling' \in BOOLEAN
    <3>1. CASE reset
      BY <1>1, <3>1, FlushTypes DEF Call, ResetIosState
    <3>2. CASE ~reset
      BY <1>1, <3>2 DEF Call, ScreenOK
    <3>3. QED
      BY <3>1, <3>2
  <2>2. QED
    BY <1>1, <2>1 DEF Call, ScreenOK
<1>2. ASSUME WaitForRelease PROVE TypeOK'
  <2>1. ScreenOK' /\ pc' \in {"release", "settle"}
    <3>1. CASE HasTouch
      BY <1>2, <3>1 DEF WaitForRelease, Sample, CurrentState, ScreenOK
    <3>2. CASE ~HasTouch
      BY <1>2, <3>2 DEF WaitForRelease, ScreenOK
    <3>3. QED
      BY <3>1, <3>2
  <2>2. QED
    BY <1>2, <2>1 DEF WaitForRelease, ScreenOK
<1>3. ASSUME Settle PROVE TypeOK'
  <2>1. ScreenOK' /\ flag' \subseteq Buttons /\ old' \subseteq Buttons
    BY <1>3, FlushTypes DEF Settle, FlushEvents
  <2>2. QED
    BY <1>3, <2>1 DEF Settle, ScreenOK
<1>4. ASSUME StartPoll PROVE TypeOK'
  <2>1. /\ ScreenOK' /\ flag' \subseteq Buttons /\ old' \subseteq Buttons
        /\ owed' \subseteq Buttons /\ flushed' \in BOOLEAN
    <3>1. CASE ~flushed \/ Blocks(mode)
      BY <1>4, <3>1, FlushTypes DEF StartPoll, FlushEvents, Blocks
    <3>2. CASE ~(~flushed \/ Blocks(mode))
      BY <1>4, <3>2 DEF StartPoll, ScreenOK
    <3>3. QED
      BY <3>1, <3>2
  <2>2. QED
    BY <1>4, <2>1 DEF StartPoll, ScreenOK
<1>5. ASSUME NEW b \in Buttons, PollButton(b) PROVE TypeOK'
  BY <1>5 DEF PollButton
<1>6. ASSUME PollTouch PROVE TypeOK'
  <2>1. CASE irq \in Points
    <3>1. served' \subseteq Sources /\ src' \in Sources /\ timeOut' \in 0..Period
      BY <1>6, <2>1 DEF PollTouch
    <3>2. /\ tflag' = FALSE /\ tstate' = "pressed" /\ from' = irq /\ to' = irq
          /\ pc' = "touched" /\ owed' = {}
          /\ UNCHANGED <<contacts, flag, irq, gesture, sampled, settling, flushed, active>>
          /\ UNCHANGED <<mode, old, points, presses>>
      BY <1>6, <2>1 DEF PollTouch, TouchEvent
    <3>3. QED
      BY <2>1, <3>1, <3>2
  <2>2. CASE irq \notin Points
    BY <1>6, <2>2 DEF PollTouch, TouchEvent
  <2>3. QED
    BY <2>1, <2>2
<1>7. ASSUME WaitIsOver PROVE TypeOK'
  BY <1>7 DEF WaitIsOver
<1>8. ASSUME ButtonReleased PROVE TypeOK'
  BY <1>8 DEF ButtonReleased
<1>9. ASSUME LongPress PROVE TypeOK'
  BY <1>9 DEF LongPress
<1>10. ASSUME FollowTouch PROVE TypeOK'
  <2>1. ScreenOK'
    BY <1>10 DEF FollowTouch, Sample, CurrentState, ScreenOK
  <2>2. QED
    BY <1>10, <2>1 DEF FollowTouch, ScreenOK
<1>11. ASSUME TouchReleased PROVE TypeOK'
  BY <1>11 DEF TouchReleased, CurrentState, PointsLeft
<1>12. ASSUME NEW b \in Buttons, Press(b) PROVE TypeOK'
  BY <1>12 DEF Press, MayPress, BetweenFrames
<1>13. ASSUME NEW b \in Buttons, Release(b) PROVE TypeOK'
  BY <1>13 DEF Release
<1>14. ASSUME NEW b \in Buttons, Bounce(b) PROVE TypeOK'
  BY <1>14 DEF Bounce
<1>15. ASSUME NEW b \in Buttons, Quiet(b) PROVE TypeOK'
  BY <1>15 DEF Quiet
<1>16. ASSUME NEW p \in Points, NEW q \in Points \cup {"none"}, TouchDown(p, q)
       PROVE  TypeOK'
  BY <1>16 DEF TouchDown, MayPress
<1>17. ASSUME NEW p \in Points, Swipe(p) PROVE TypeOK'
  BY <1>17 DEF Swipe
<1>18. ASSUME TouchUp PROVE TypeOK'
  BY <1>18 DEF TouchUp
<1>19. ASSUME SampleAges PROVE TypeOK'
  <2>1. sampled' \in BOOLEAN
    BY <1>19 DEF SampleAges
  <2>2. /\ UNCHANGED <<contacts, flag, tflag, irq, tstate, from, to, gesture>>
        /\ UNCHANGED <<call, timeOut, history>>
    BY <1>19, Zenon DEF SampleAges
  <2>3. QED
    BY <2>1, <2>2
<1>20. ASSUME Settles PROVE TypeOK'
  BY <1>20 DEF Settles
<1>21. ASSUME Tick PROVE TypeOK'
  BY <1>21 DEF Tick
<1>22. ASSUME UNCHANGED vars PROVE TypeOK'
  BY <1>22 DEF vars
<1>23. ASSUME NEW m \in Modes, NEW reset \in BOOLEAN, FastNav(m, reset) PROVE TypeOK'
  <2>1. ScreenOK' /\ flag' \subseteq Buttons /\ settling' \in BOOLEAN
    <3>1. CASE reset
      BY <1>23, <3>1, FlushTypes DEF FastNav, ResetIosState
    <3>2. CASE ~reset
      BY <1>23, <3>2 DEF FastNav, ScreenOK
    <3>3. QED
      BY <3>1, <3>2
  <2>2. QED
    BY <1>23, <2>1 DEF FastNav, ScreenOK
<1>24. QED
  BY <1>1, <1>2, <1>3, <1>4, <1>5, <1>6, <1>7, <1>8, <1>9, <1>10, <1>11, <1>12, <1>13,
     <1>14, <1>15, <1>16, <1>17, <1>18, <1>19, <1>20, <1>21, <1>22, <1>23
  DEF Next, Program, World

LEMMA FramesStep ==
  ASSUME TypeOK, Frames, [Next]_vars
  PROVE  Frames'
<1> USE DEF Frames, OwedInFrames, FramesKeepPresses
<1>1. ASSUME NEW m \in Modes, NEW reset \in BOOLEAN, Call(m, reset) PROVE Frames'
  BY <1>1 DEF Call, MayReset, FastNavs, ResetIosState, TouchEvent, TouchReady
<1>2. ASSUME WaitForRelease PROVE Frames'
  BY <1>2 DEF WaitForRelease, Sample, CurrentState
<1>3. ASSUME Settle PROVE Frames'
  BY <1>3 DEF Settle, FlushEvents, TouchEvent, TouchReady, DisableDebounce
<1>4. ASSUME StartPoll PROVE Frames'
  BY <1>4 DEF StartPoll, FlushEvents, TouchEvent, TouchReady, DisableDebounce
<1>5. ASSUME NEW b \in Buttons, PollButton(b) PROVE Frames'
  BY <1>5 DEF PollButton
<1>6. ASSUME PollTouch PROVE Frames'
  BY <1>6 DEF PollTouch, TouchEvent, TouchReady
<1>7. ASSUME WaitIsOver PROVE Frames'
  BY <1>7 DEF WaitIsOver
<1>8. ASSUME ButtonReleased PROVE Frames'
  BY <1>8 DEF ButtonReleased
<1>9. ASSUME LongPress PROVE Frames'
  BY <1>9 DEF LongPress
<1>10. ASSUME FollowTouch PROVE Frames'
  BY <1>10 DEF FollowTouch, Sample, CurrentState
<1>11. ASSUME TouchReleased PROVE Frames'
  BY <1>11 DEF TouchReleased, CurrentState, PointsLeft
<1>12. ASSUME NEW b \in Buttons, Press(b) PROVE Frames'
  BY <1>12 DEF Press, MayPress, BetweenFrames
<1>13. ASSUME NEW b \in Buttons, Release(b) PROVE Frames'
  BY <1>13 DEF Release
<1>14. ASSUME NEW b \in Buttons, Bounce(b) PROVE Frames'
  BY <1>14 DEF Bounce
<1>15. ASSUME NEW b \in Buttons, Quiet(b) PROVE Frames'
  BY <1>15 DEF Quiet
<1>16. ASSUME NEW p \in Points, NEW q \in Points \cup {"none"}, TouchDown(p, q)
       PROVE  Frames'
  BY <1>16 DEF TouchDown, MayPress
<1>17. ASSUME NEW p \in Points, Swipe(p) PROVE Frames'
  BY <1>17 DEF Swipe
<1>18. ASSUME TouchUp PROVE Frames'
  BY <1>18 DEF TouchUp
<1>19. ASSUME SampleAges PROVE Frames'
  BY <1>19 DEF SampleAges
<1>20. ASSUME Settles PROVE Frames'
  BY <1>20 DEF Settles
<1>21. ASSUME Tick PROVE Frames'
  BY <1>21 DEF Tick
<1>22. ASSUME UNCHANGED vars PROVE Frames'
  BY <1>22 DEF vars
<1>23. ASSUME NEW m \in Modes, NEW reset \in BOOLEAN, FastNav(m, reset) PROVE Frames'
  BY <1>23 DEF FastNav, MayReset, FastNavs, ResetIosState, TouchEvent, TouchReady
<1>24. QED
  BY <1>1, <1>2, <1>3, <1>4, <1>5, <1>6, <1>7, <1>8, <1>9, <1>10, <1>11, <1>12, <1>13,
     <1>14, <1>15, <1>16, <1>17, <1>18, <1>19, <1>20, <1>21, <1>22, <1>23
  DEF Next, Program, World

LEMMA GesturesStep ==
  ASSUME TypeOK, Gestures, [Next]_vars
  PROVE  Gestures'
<1> USE DEF Gestures, TypeOK, Points
<1>1. ASSUME NEW m \in Modes, NEW reset \in BOOLEAN, Call(m, reset) PROVE Gestures'
  BY <1>1 DEF Call, MayReset, FastNavs, ResetIosState, TouchEvent, TouchReady
<1>2. ASSUME WaitForRelease PROVE Gestures'
  BY <1>2 DEF WaitForRelease, Sample, CurrentState
<1>3. ASSUME Settle PROVE Gestures'
  BY <1>3 DEF Settle, FlushEvents, TouchEvent, TouchReady, DisableDebounce
<1>4. ASSUME StartPoll PROVE Gestures'
  BY <1>4 DEF StartPoll, FlushEvents, TouchEvent, TouchReady, DisableDebounce
<1>5. ASSUME NEW b \in Buttons, PollButton(b) PROVE Gestures'
  BY <1>5 DEF PollButton
<1>6. ASSUME PollTouch PROVE Gestures'
  BY <1>6 DEF PollTouch, TouchEvent, TouchReady
<1>7. ASSUME WaitIsOver PROVE Gestures'
  BY <1>7 DEF WaitIsOver
<1>8. ASSUME ButtonReleased PROVE Gestures'
  BY <1>8 DEF ButtonReleased
<1>9. ASSUME LongPress PROVE Gestures'
  BY <1>9 DEF LongPress
<1>10. ASSUME FollowTouch PROVE Gestures'
  BY <1>10 DEF FollowTouch, Sample, CurrentState
<1>11. ASSUME TouchReleased PROVE Gestures'
  BY <1>11 DEF TouchReleased, CurrentState, PointsLeft
<1>12. ASSUME NEW b \in Buttons, Press(b) PROVE Gestures'
  BY <1>12 DEF Press, MayPress, BetweenFrames
<1>13. ASSUME NEW b \in Buttons, Release(b) PROVE Gestures'
  BY <1>13 DEF Release
<1>14. ASSUME NEW b \in Buttons, Bounce(b) PROVE Gestures'
  BY <1>14 DEF Bounce
<1>15. ASSUME NEW b \in Buttons, Quiet(b) PROVE Gestures'
  BY <1>15 DEF Quiet
<1>16. ASSUME NEW p \in Points, NEW q \in Points \cup {"none"}, TouchDown(p, q)
       PROVE  Gestures'
  BY <1>16 DEF TouchDown, MayPress
<1>17. ASSUME NEW p \in Points, Swipe(p) PROVE Gestures'
  BY <1>17 DEF Swipe
<1>18. ASSUME TouchUp PROVE Gestures'
  BY <1>18 DEF TouchUp
<1>19. ASSUME SampleAges PROVE Gestures'
  BY <1>19 DEF SampleAges
<1>20. ASSUME Settles PROVE Gestures'
  BY <1>20 DEF Settles
<1>21. ASSUME Tick PROVE Gestures'
  BY <1>21 DEF Tick
<1>22. ASSUME UNCHANGED vars PROVE Gestures'
  BY <1>22 DEF vars
<1>23. ASSUME NEW m \in Modes, NEW reset \in BOOLEAN, FastNav(m, reset) PROVE Gestures'
  BY <1>23 DEF FastNav, MayReset, FastNavs, ResetIosState, TouchEvent, TouchReady
<1>24. QED
  BY <1>1, <1>2, <1>3, <1>4, <1>5, <1>6, <1>7, <1>8, <1>9, <1>10, <1>11, <1>12, <1>13,
     <1>14, <1>15, <1>16, <1>17, <1>18, <1>19, <1>20, <1>21, <1>22, <1>23
  DEF Next, Program, World

LEMMA AnswersStep ==
  ASSUME TypeOK, Answers, [Next]_vars
  PROVE  Answers'
<1> USE TouchIsNoButton
<1> USE DEF Answers, DownNotServed, QuietInTime, TouchNotServed, Settled, TypeOK, Blocks, Points
<1>1. ASSUME NEW m \in Modes, NEW reset \in BOOLEAN, Call(m, reset) PROVE Answers'
  BY <1>1 DEF Call, MayReset, FastNavs, ResetIosState, TouchEvent, TouchReady
<1>2. ASSUME WaitForRelease PROVE Answers'
  BY <1>2 DEF WaitForRelease, Sample, CurrentState
<1>3. ASSUME Settle PROVE Answers'
  BY <1>3 DEF Settle, FlushEvents, TouchEvent, TouchReady, DisableDebounce
<1>4. ASSUME StartPoll PROVE Answers'
  BY <1>4 DEF StartPoll, FlushEvents, TouchEvent, TouchReady, DisableDebounce
<1>5. ASSUME NEW b \in Buttons, PollButton(b) PROVE Answers'
  BY <1>5 DEF PollButton
<1>6. ASSUME PollTouch PROVE Answers'
  BY <1>6 DEF PollTouch, TouchEvent, TouchReady
<1>7. ASSUME WaitIsOver PROVE Answers'
  BY <1>7 DEF WaitIsOver
<1>8. ASSUME ButtonReleased PROVE Answers'
  BY <1>8 DEF ButtonReleased
<1>9. ASSUME LongPress PROVE Answers'
  BY <1>9 DEF LongPress
<1>10. ASSUME FollowTouch PROVE Answers'
  BY <1>10 DEF FollowTouch, Sample, CurrentState
<1>11. ASSUME TouchReleased PROVE Answers'
  BY <1>11 DEF TouchReleased, CurrentState, PointsLeft
<1>12. ASSUME NEW b \in Buttons, Press(b) PROVE Answers'
  BY <1>12 DEF Press, MayPress, BetweenFrames
<1>13. ASSUME NEW b \in Buttons, Release(b) PROVE Answers'
  BY <1>13 DEF Release
<1>14. ASSUME NEW b \in Buttons, Bounce(b) PROVE Answers'
  BY <1>14 DEF Bounce
<1>15. ASSUME NEW b \in Buttons, Quiet(b) PROVE Answers'
  BY <1>15 DEF Quiet
<1>16. ASSUME NEW p \in Points, NEW q \in Points \cup {"none"}, TouchDown(p, q)
       PROVE  Answers'
  BY <1>16 DEF TouchDown, MayPress
<1>17. ASSUME NEW p \in Points, Swipe(p) PROVE Answers'
  BY <1>17 DEF Swipe
<1>18. ASSUME TouchUp PROVE Answers'
  BY <1>18 DEF TouchUp
<1>19. ASSUME SampleAges PROVE Answers'
  BY <1>19 DEF SampleAges
<1>20. ASSUME Settles PROVE Answers'
  BY <1>20 DEF Settles
<1>21. ASSUME Tick PROVE Answers'
  BY <1>21 DEF Tick
<1>22. ASSUME UNCHANGED vars PROVE Answers'
  BY <1>22 DEF vars
<1>23. ASSUME NEW m \in Modes, NEW reset \in BOOLEAN, FastNav(m, reset) PROVE Answers'
  BY <1>23 DEF FastNav, MayReset, FastNavs, ResetIosState, TouchEvent, TouchReady
<1>24. QED
  BY <1>1, <1>2, <1>3, <1>4, <1>5, <1>6, <1>7, <1>8, <1>9, <1>10, <1>11, <1>12, <1>13,
     <1>14, <1>15, <1>16, <1>17, <1>18, <1>19, <1>20, <1>21, <1>22, <1>23
  DEF Next, Program, World

LEMMA CleanStep ==
  ASSUME TypeOK, Clean, [Next]_vars
  PROVE  Clean'
<1> USE DEF Clean, Blocks
<1>1. ASSUME NEW m \in Modes, NEW reset \in BOOLEAN, Call(m, reset) PROVE Clean'
  BY <1>1 DEF Call, MayReset, FastNavs, ResetIosState, TouchEvent, TouchReady
<1>2. ASSUME WaitForRelease PROVE Clean'
  BY <1>2 DEF WaitForRelease, Sample, CurrentState
<1>3. ASSUME Settle PROVE Clean'
  BY <1>3 DEF Settle, FlushEvents, TouchEvent, TouchReady, DisableDebounce
<1>4. ASSUME StartPoll PROVE Clean'
  BY <1>4 DEF StartPoll, FlushEvents, TouchEvent, TouchReady, DisableDebounce
<1>5. ASSUME NEW b \in Buttons, PollButton(b) PROVE Clean'
  BY <1>5 DEF PollButton
<1>6. ASSUME PollTouch PROVE Clean'
  BY <1>6 DEF PollTouch, TouchEvent, TouchReady
<1>7. ASSUME WaitIsOver PROVE Clean'
  BY <1>7 DEF WaitIsOver
<1>8. ASSUME ButtonReleased PROVE Clean'
  BY <1>8 DEF ButtonReleased
<1>9. ASSUME LongPress PROVE Clean'
  BY <1>9 DEF LongPress
<1>10. ASSUME FollowTouch PROVE Clean'
  BY <1>10 DEF FollowTouch, Sample, CurrentState
<1>11. ASSUME TouchReleased PROVE Clean'
  BY <1>11 DEF TouchReleased, CurrentState, PointsLeft
<1>12. ASSUME NEW b \in Buttons, Press(b) PROVE Clean'
  BY <1>12 DEF Press, MayPress, BetweenFrames
<1>13. ASSUME NEW b \in Buttons, Release(b) PROVE Clean'
  BY <1>13 DEF Release
<1>14. ASSUME NEW b \in Buttons, Bounce(b) PROVE Clean'
  BY <1>14 DEF Bounce
<1>15. ASSUME NEW b \in Buttons, Quiet(b) PROVE Clean'
  BY <1>15 DEF Quiet
<1>16. ASSUME NEW p \in Points, NEW q \in Points \cup {"none"}, TouchDown(p, q)
       PROVE  Clean'
  BY <1>16 DEF TouchDown, MayPress
<1>17. ASSUME NEW p \in Points, Swipe(p) PROVE Clean'
  BY <1>17 DEF Swipe
<1>18. ASSUME TouchUp PROVE Clean'
  BY <1>18 DEF TouchUp
<1>19. ASSUME SampleAges PROVE Clean'
  BY <1>19 DEF SampleAges
<1>20. ASSUME Settles PROVE Clean'
  BY <1>20 DEF Settles
<1>21. ASSUME Tick PROVE Clean'
  BY <1>21 DEF Tick
<1>22. ASSUME UNCHANGED vars PROVE Clean'
  BY <1>22 DEF vars
<1>23. ASSUME NEW m \in Modes, NEW reset \in BOOLEAN, FastNav(m, reset) PROVE Clean'
  BY <1>23 DEF FastNav, MayReset, FastNavs, ResetIosState, TouchEvent, TouchReady
<1>24. QED
  BY <1>1, <1>2, <1>3, <1>4, <1>5, <1>6, <1>7, <1>8, <1>9, <1>10, <1>11, <1>12, <1>13,
     <1>14, <1>15, <1>16, <1>17, <1>18, <1>19, <1>20, <1>21, <1>22, <1>23
  DEF Next, Program, World

LEMMA Invariance == Spec => []Inv
<1>1. Init => Inv
  <2>1. Init => TypeOK
    <3>1. Period \in 0..Period /\ 0 \in 0..MaxPresses /\ (~HasTouch) \in BOOLEAN
      BY InputAssumption
    <3>2. QED
      BY <3>1, Zenon DEF Init, TypeOK, Sources, Modes, Points
  <2>2. Init => Frames /\ Gestures /\ Answers /\ Clean
    BY DEF Init, Frames, OwedInFrames, FramesKeepPresses, Gestures, Answers, DownNotServed,
       QuietInTime, TouchNotServed, Settled, Clean, Blocks
  <2>3. QED
    BY <2>1, <2>2 DEF Inv
<1>2. Inv /\ [Next]_vars => Inv'
  BY TypeStep, FramesStep, GesturesStep, AnswersStep, CleanStep DEF Inv
<1>3. QED
  BY <1>1, <1>2, PTL DEF Spec

----------------------------------------------------------------------------
(* The theorems.                                                           *)

\* The variables stay in their types: the shutdown timer between 0 and its
\* period, the sources among those of the board.
THEOREM TypeCorrect == Spec => []TypeOK
  BY Invariance, PTL DEF Inv

\* On an animated page a press in one frame or between two stays flagged until
\* the page has an answer.
THEOREM FramesKeepPressesHolds == Spec => []FramesKeepPresses
<1>1. Inv => FramesKeepPresses
  BY DEF Inv, Frames
<1>2. QED
  BY <1>1, Invariance, PTL

\* A gesture comes from two places the finger was at since the last gesture was
\* reported, and is reported once.
THEOREM GestureTwoPointsHolds == Spec => []GestureTwoPoints
<1>1. Inv => GestureTwoPoints
  BY DEF Inv, Gestures, GestureTwoPoints
<1>2. QED
  BY <1>1, Invariance, PTL

\* A press is reported by a poll and by nothing else.
LEMMA ReportsPoll ==
  ASSUME Next, Reports
  PROVE  (\E b \in Buttons : PollButton(b)) \/ PollTouch
<1> USE DEF Reports
<1>1. ASSUME NEW m \in Modes, NEW reset \in BOOLEAN, Call(m, reset) \/ FastNav(m, reset)
      PROVE  FALSE
  BY <1>1 DEF Call, FastNav
<1>2. ASSUME WaitForRelease \/ Settle \/ StartPoll PROVE FALSE
  BY <1>2 DEF WaitForRelease, Settle, StartPoll
<1>3. ASSUME WaitIsOver \/ ButtonReleased \/ LongPress PROVE FALSE
  BY <1>3 DEF WaitIsOver, ButtonReleased, LongPress
<1>4. ASSUME FollowTouch \/ TouchReleased PROVE FALSE
  BY <1>4 DEF FollowTouch, TouchReleased
<1>5. ASSUME World PROVE FALSE
  <2>1. pc' = pc
    <3>1. ASSUME NEW b \in Buttons, Press(b) \/ Release(b) \/ Bounce(b) \/ Quiet(b)
          PROVE  pc' = pc
      BY <3>1 DEF Press, Release, Bounce, Quiet
    <3>2. ASSUME NEW p \in Points, NEW q \in Points \cup {"none"}, TouchDown(p, q)
          PROVE  pc' = pc
      BY <3>2 DEF TouchDown
    <3>3. ASSUME NEW p \in Points, Swipe(p) PROVE pc' = pc
      BY <3>3 DEF Swipe
    <3>4. ASSUME TouchUp \/ SampleAges \/ Settles PROVE pc' = pc
      BY <3>4 DEF TouchUp, SampleAges, Settles
    <3>5. QED
      BY <1>5, <3>1, <3>2, <3>3, <3>4 DEF World
  <2>2. QED
    BY <2>1
<1>6. ASSUME Tick PROVE FALSE
  BY <1>6 DEF Tick
<1>7. QED
  BY <1>1, <1>2, <1>3, <1>4, <1>5, <1>6 DEF Next, Program

\* On a page that waits until a press, a contact that rings after its press was
\* reported is not reported again.
THEOREM OnePressOneAnswerHolds == Spec => OnePressOneAnswer
<1>1. Inv /\ [Next]_vars => [Reports /\ Blocks(mode) => src' \notin served]_vars
  <2>1. SUFFICES ASSUME Inv, Next, Reports, Blocks(mode) PROVE src' \notin served
    OBVIOUS
  <2>2. Answers /\ pc = "poll"
    BY <2>1 DEF Inv, Reports
  <2>3. ASSUME NEW b \in Buttons, PollButton(b) PROVE src' \notin served
    BY <2>1, <2>2, <2>3 DEF PollButton, Answers, QuietInTime
  <2>4. ASSUME PollTouch PROVE src' \notin served
    BY <2>1, <2>2, <2>4 DEF PollTouch, TouchReady, Answers, TouchNotServed, Reports
  <2>5. QED
    BY <2>1, <2>3, <2>4, ReportsPoll
<1>2. QED
  BY <1>1, Invariance, PTL DEF Spec, OnePressOneAnswer

\* The flag of a button that was pressed before a prompt, a menu or a keypad
\* began to wait does not answer it.
THEOREM ButtonsStartCleanHolds == Spec => ButtonsStartClean
<1>1. Inv /\ [Next]_vars =>
        [Reports /\ mode # "frame" /\ src' \in Buttons => src' \notin old]_vars
  <2>1. SUFFICES ASSUME Inv, Next, Reports, mode # "frame" PROVE src' \notin old
    OBVIOUS
  <2>2. old = {}
    BY <2>1 DEF Inv, Clean, TypeOK, Modes, Blocks, Reports
  <2>3. QED
    BY <2>2
<1>2. QED
  BY <1>1, Invariance, PTL DEF Spec, ButtonsStartClean
=============================================================================
