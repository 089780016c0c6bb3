------------------------------- MODULE Buttons -------------------------------
(****************************************************************************)
(* The buttons (Firmware/Buttons.cpp).  The second core samples the pins    *)
(* and debounces them, each logical button with a debouncer of its own; the *)
(* main loop polls the debounced states, one button after the other, and    *)
(* calls the actions.  Several buttons may share a pin; a shift button      *)
(* selects between them.                                                    *)
(*                                                                          *)
(* Times are counted in ticks.  A time stamp is kept as its age, up to the  *)
(* longest interval it is compared with.                                    *)
(****************************************************************************)
EXTENDS Integers, Sequences

CONSTANTS
  Buttons,       \* a sequence: the order of the configuration
  Types,         \* the types a configuration may give them
  Pin,           \* the pin of each button
  activeHigh,    \* of each button's source
  shiftMask,     \* does the button look at the shift state?
  LowPass,       \* lpFilterRise and lpFilterFall, for TRUE and FALSE
  Hold,          \* dtOn and dtOff
  HoldTime, ShortTime,         \* of a hold button
  PulseTime, Spacing,          \* of a pulse button; PulseTime for both edges, 0 for no pulse
  ShiftPulse                   \* of a shift button; 0 for Shift-AND

N == Len(Buttons)
Button == {Buttons[i] : i \in 1..N}
Pins == {Pin[b] : b \in Button}

\* Every button has an action, and a hold button another one for short presses.
Actions == Button \X {"action", "short"}

ButtonsAssumption ==
  /\ Buttons \in Seq(Button) /\ N > 0
  /\ \A i, j \in 1..N : Buttons[i] = Buttons[j] => i = j
  /\ Types \subseteq [Button -> {"push", "toggle", "hold", "pulse", "shift"}]
  /\ {activeHigh, shiftMask} \subseteq [Button -> BOOLEAN]
  /\ {LowPass, Hold, PulseTime} \subseteq [BOOLEAN -> Nat]
  /\ {HoldTime, ShortTime, Spacing, ShiftPulse} \subseteq Nat
ASSUME ButtonsAssumption

\* A set of buttons or actions stands for a flag of each of them.
VARIABLES
  type, shiftBits,        \* the configuration: shiftBits is the shift state a button wants
  pin,                    \* the physical levels
  \* the second core
  lastPhysical, debounced, sinceEdge, sinceChange,
  \* the main core
  turn,                   \* whose Poll comes next
  lastSource, logical,
  raw,                    \* rawLogicalState of the hold buttons
  sinceOn,                \* tOn
  phase,                  \* pulseState; "pulse" is also pulseActive and tShortPressEnd # 0
  sinceStart,             \* the age of what phase tells of, or 0
  shift,                  \* shiftButtonsPressed
  shiftUsed,
  \* ghosts
  act,                    \* the actions that were told last to go on
  repeated,               \* those told twice in a row to go on, or off
  shifting                \* the shift buttons whose present press has shifted another one

config == <<type, shiftBits>>
core1 == <<lastPhysical, debounced, sinceEdge, sinceChange>>
main == <<turn, lastSource, logical, raw, sinceOn, phase, sinceStart, shift, shiftUsed,
          act, repeated, shifting>>
vars == <<type, shiftBits, pin, lastPhysical, debounced, sinceEdge, sinceChange,
          turn, lastSource, logical, raw, sinceOn, phase, sinceStart, shift, shiftUsed,
          act, repeated, shifting>>

OfType(t) == {b \in Button : type[b] = t}

Larger(a, b) == IF a > b THEN a ELSE b

\* the ages that make a difference
EdgeAges == 0..Larger(LowPass[TRUE], LowPass[FALSE])
ChangeAges == 0..Larger(Hold[TRUE], Hold[FALSE])
OnAges == 0..(HoldTime + 1)
StartAges ==
  0..Larger(Larger(ShortTime + 1, ShiftPulse), Larger(PulseTime[TRUE], PulseTime[FALSE]) + Spacing)

Older(age, ages) == IF age + 1 \in ages THEN age + 1 ELSE age

-----------------------------------------------------------------------------
(* The second core, which gets round to every button again and again *)

\* the age of the edge that this sample sees, or of the last one
Edge(b) == IF pin[Pin[b]] # lastPhysical[b] THEN 0 ELSE sinceEdge[b]

\* the debounced state changes
Accepted(b) ==
  LET live == pin[Pin[b]]
  IN /\ live # debounced[b]
     /\ Edge(b) >= LowPass[live]
     /\ sinceChange[b] >= Hold[debounced[b] = activeHigh[b]]

D_SecondCorePoll(b) ==
  LET live == pin[Pin[b]]
      accept == Accepted(b) /\ live # lastPhysical[b]
  IN /\ lastPhysical' = [lastPhysical EXCEPT ![b] = live]
     /\ debounced' = [debounced EXCEPT ![b] = IF accept THEN live ELSE @]
     /\ sinceChange' = [sinceChange EXCEPT ![b] = IF accept THEN 0 ELSE @]
     /\ sinceEdge' = [sinceEdge EXCEPT ![b] = IF live = debounced'[b] THEN 0 ELSE Edge(b)]
     /\ UNCHANGED <<config, pin, main>>

SecondCorePoll(b) ==
  LET live == pin[Pin[b]]
      accept == Accepted(b)
  IN /\ lastPhysical' = [lastPhysical EXCEPT ![b] = live]
     /\ debounced' = [debounced EXCEPT ![b] = IF accept THEN live ELSE @]
     /\ sinceChange' = [sinceChange EXCEPT ![b] = IF accept THEN 0 ELSE @]
     /\ sinceEdge' = [sinceEdge EXCEPT ![b] = IF live = debounced'[b] THEN 0 ELSE Edge(b)]
     /\ UNCHANGED <<config, pin, main>>

-----------------------------------------------------------------------------
(* The main core: Poll of the button whose turn it is *)

Current == Buttons[turn]

\* SecondCoreDebouncedSource::Poll
Source(b) == debounced[b] = activeHigh[b]

MatchShiftState(b) == (shift /\ shiftMask[b]) = shiftBits[b]

\* OnShiftUsage of the shift buttons, when b matches
D_NoteShiftUsage(b) ==
  shiftUsed' = IF shift /\ ~shiftMask[b] THEN shiftUsed \cup OfType("shift") ELSE shiftUsed

NoteShiftUsage(b) ==
  shiftUsed' = IF shift /\ shiftMask[b] THEN shiftUsed \cup OfType("shift") ELSE shiftUsed

\* the flag of b is v
With(S, b, v) == IF v THEN S \cup {b} ELSE S \ {b}

\* OnStateChange, with TRUE and with FALSE
Call(up, down) ==
  /\ act' = (act \ down) \cup up
  /\ repeated' = repeated \cup (up \cap act) \cup (down \ act)

\* the action of b follows a flag
Main(b) == {<<b, "action">>}
Short(b) == {<<b, "short">>}
CallIf(start, end, actions) ==
  Call(IF start THEN actions ELSE {}, IF end /\ ~start THEN actions ELSE {})

NoTimers == UNCHANGED <<raw, sinceOn, phase, sinceStart>>

Pressed(b) == Source(b) /\ b \notin lastSource
Released(b) == ~Source(b) /\ b \in lastSource

D_PushPoll(b) ==
  LET press == Pressed(b) /\ b \notin logical /\ MatchShiftState(b)
      release == Released(b) /\ b \in logical /\ MatchShiftState(b)
  IN /\ type[b] = "push"
     /\ lastSource' = With(lastSource, b, Source(b))
     /\ logical' = With(logical, b, press \/ (b \in logical /\ ~release))
     /\ CallIf(press, release, Main(b))
     /\ IF press THEN NoteShiftUsage(b) ELSE UNCHANGED shiftUsed
     /\ UNCHANGED shift /\ NoTimers

PushPoll(b) ==
  LET press == Pressed(b) /\ b \notin logical /\ MatchShiftState(b)
      release == Released(b) /\ b \in logical
  IN /\ type[b] = "push"
     /\ lastSource' = With(lastSource, b, Source(b))
     /\ logical' = With(logical, b, press \/ (b \in logical /\ ~release))
     /\ CallIf(press, release, Main(b))
     /\ IF press THEN NoteShiftUsage(b) ELSE UNCHANGED shiftUsed
     /\ UNCHANGED shift /\ NoTimers

TogglePoll(b) ==
  LET press == Pressed(b) /\ MatchShiftState(b)
  IN /\ type[b] = "toggle"
     /\ lastSource' = With(lastSource, b, Source(b))
     /\ logical' = With(logical, b, press # (b \in logical))
     /\ CallIf(press /\ b \notin logical, press /\ b \in logical, Main(b))
     /\ IF press THEN NoteShiftUsage(b) ELSE UNCHANGED shiftUsed
     /\ UNCHANGED shift /\ NoTimers

D_ShortStarts(b, short) == short

\* the short-press action goes on, if it is not on already
ShortStarts(b, short) == short /\ phase[b] = "none"

\* "action" follows the button that has been held for HoldTime.  A press that ends
\* before is a short one.
HoldPoll(b) ==
  LET press == Pressed(b) /\ b \notin raw /\ MatchShiftState(b)
      release == Released(b) /\ b \in raw
      short == release /\ b \notin logical
      over == ~short /\ phase[b] = "pulse" /\ sinceStart[b] > ShortTime
      down == press \/ (b \in raw /\ ~release)
      on == down /\ (b \in logical \/ (~press /\ sinceOn[b] > HoldTime))
  IN /\ type[b] = "hold"
     /\ lastSource' = With(lastSource, b, Source(b))
     /\ raw' = With(raw, b, down)
     /\ sinceOn' = [sinceOn EXCEPT ![b] = IF press \/ on \/ ~down THEN 0 ELSE @]
     /\ logical' = With(logical, b, on)
     /\ phase' = [phase EXCEPT ![b] = IF short THEN "pulse" ELSE IF over THEN "none" ELSE @]
     /\ sinceStart' = [sinceStart EXCEPT ![b] = IF short \/ over THEN 0 ELSE @]
     /\ Call((IF ShortStarts(b, short) THEN Short(b) ELSE {})
               \cup (IF on /\ b \notin logical THEN Main(b) ELSE {}),
             (IF over THEN Short(b) ELSE {})
               \cup (IF ~on /\ b \in logical THEN Main(b) ELSE {}))
     /\ IF press THEN NoteShiftUsage(b) ELSE UNCHANGED shiftUsed
     /\ UNCHANGED shift

\* The action is pulsed for each change of the source that finds no pulse or space
\* under way.
PulsePoll(b) ==
  LET changed == phase[b] = "none" /\ Source(b) # (b \in logical) /\ MatchShiftState(b)
      start == changed /\ PulseTime[Source(b)] > 0
      end == phase[b] = "pulse" /\ sinceStart[b] >= PulseTime[(b \in logical)]
      rested == phase[b] = "space" /\ sinceStart[b] >= PulseTime[(b \in logical)] + Spacing
  IN /\ type[b] = "pulse"
     /\ logical' = IF changed THEN With(logical, b, Source(b)) ELSE logical
     /\ phase' = [phase EXCEPT ![b] = IF start THEN "pulse" ELSE IF end THEN "space"
                                       ELSE IF rested THEN "none" ELSE @]
     /\ sinceStart' = [sinceStart EXCEPT ![b] = IF start \/ rested THEN 0 ELSE @]
     /\ CallIf(start, end, Main(b))
     /\ IF changed THEN NoteShiftUsage(b) ELSE UNCHANGED shiftUsed
     /\ UNCHANGED <<lastSource, raw, sinceOn, shift>>

\* Shift-AND: the action follows the button.  Shift-OR: it is pulsed after a press
\* that has shifted no other button.
ShiftPoll(b) ==
  LET down == Source(b) /\ b \notin logical
      up == ~Source(b) /\ b \in logical
      start == up /\ ShiftPulse > 0 /\ b \notin shiftUsed /\ phase[b] = "none"
      end == ~start /\ phase[b] = "pulse" /\ sinceStart[b] >= ShiftPulse
  IN /\ type[b] = "shift"
     /\ logical' = With(logical, b, Source(b))
     /\ shift' = IF down THEN TRUE ELSE IF up THEN FALSE ELSE shift
     /\ shiftUsed' = IF down THEN shiftUsed \ {b} ELSE shiftUsed
     /\ phase' = [phase EXCEPT ![b] = IF start THEN "pulse" ELSE IF end THEN "none" ELSE @]
     /\ sinceStart' = [sinceStart EXCEPT ![b] = IF start \/ end THEN 0 ELSE @]
     /\ IF ShiftPulse = 0 THEN CallIf(down, up, Main(b)) ELSE CallIf(start, end, Main(b))
     /\ UNCHANGED <<lastSource, raw, sinceOn>>

\* b takes a press of its pin
Takes(b) == CASE type[b] = "hold" -> b \in raw' \ raw
              [] type[b] = "push" -> b \in logical' \ logical
              [] type[b] \in {"toggle", "pulse"} -> (b \in logical') # (b \in logical)
              [] OTHER -> FALSE

\* one round of the loop in Button::Task
Task ==
  /\ \/ PushPoll(Current) \/ TogglePoll(Current) \/ HoldPoll(Current)
     \/ PulsePoll(Current) \/ ShiftPoll(Current)
  /\ shifting' = {h \in OfType("shift") \cap logical \cap logical' :
                    h \in shifting \/ \E b \in Button : Takes(b) /\ shiftBits[b]}
  /\ turn' = (turn % N) + 1
  /\ UNCHANGED <<config, pin, core1>>

-----------------------------------------------------------------------------
Move(p) ==
  /\ pin' = [pin EXCEPT ![p] = ~@]
  /\ UNCHANGED <<config, core1, main>>

\* The ages grow that are still to be compared.
Tick ==
  /\ sinceEdge' = [b \in Button |-> IF lastPhysical[b] # debounced[b]
                                     THEN Older(sinceEdge[b], EdgeAges) ELSE sinceEdge[b]]
  /\ sinceChange' = [b \in Button |-> Older(sinceChange[b], ChangeAges)]
  /\ sinceOn' = [b \in Button |-> IF b \in raw \ logical
                                   THEN Older(sinceOn[b], OnAges) ELSE sinceOn[b]]
  /\ sinceStart' = [b \in Button |-> IF phase[b] # "none"
                                      THEN Older(sinceStart[b], StartAges) ELSE sinceStart[b]]
  /\ UNCHANGED <<config, pin, lastPhysical, debounced, turn, lastSource, logical, raw,
                 phase, shift, shiftUsed, act, repeated, shifting>>

\* Nothing is pressed.
Init ==
  /\ type \in Types
  /\ shiftBits \in {bits \in [Button -> BOOLEAN] : \A b \in Button : bits[b] => shiftMask[b]}
  /\ pin = [p \in Pins |-> \E b \in Button : Pin[b] = p /\ ~activeHigh[b]]
  /\ lastPhysical = [b \in Button |-> ~activeHigh[b]] /\ debounced = lastPhysical
  /\ sinceEdge = [b \in Button |-> 0] /\ sinceChange = [b \in Button |-> 0]
  /\ turn = 1
  /\ lastSource = {} /\ logical = {} /\ raw = {}
  /\ sinceOn = [b \in Button |-> 0] /\ sinceStart = sinceOn
  /\ phase = [b \in Button |-> "none"]
  /\ shift = FALSE /\ shiftUsed = {} /\ act = {} /\ repeated = {} /\ shifting = {}

Next == (\E b \in Button : SecondCorePoll(b)) \/ Task \/ Tick \/ \E p \in Pins : Move(p)

\* Both cores run, and time passes.
Fairness == (\A b \in Button : WF_vars(SecondCorePoll(b))) /\ WF_vars(Task) /\ WF_vars(Tick)

Spec == Init /\ [][Next]_vars /\ Fairness

-----------------------------------------------------------------------------
(* Properties *)

\* The states and ages keep to their ranges.
TypeOK ==
  /\ type \in Types /\ shiftBits \in [Button -> BOOLEAN]
  /\ pin \in [Pins -> BOOLEAN]
  /\ lastPhysical \in [Button -> BOOLEAN] /\ debounced \in [Button -> BOOLEAN]
  /\ sinceEdge \in [Button -> EdgeAges] /\ sinceChange \in [Button -> ChangeAges]
  /\ turn \in 1..N
  /\ lastSource \subseteq Button /\ logical \subseteq Button /\ raw \subseteq Button
  /\ sinceOn \in [Button -> OnAges] /\ sinceStart \in [Button -> StartAges]
  /\ phase \in [Button -> {"none", "pulse", "space"}]
  /\ shift \in BOOLEAN /\ shiftUsed \subseteq Button /\ shifting \subseteq Button
  /\ act \subseteq Actions /\ repeated \subseteq Actions

\* Every action is told on and off in turn: a key that goes down goes up before it goes
\* down again, whatever the button's presses and its timed pulses overlap.
ActionsAlternate == repeated = {}

\* A press of a Shift-OR button has one function: its own action is not started by a
\* press during which another button took a press as a shifted one, whichever core and
\* filter was ahead.
ShiftOrNotBoth ==
  [][ShiftPulse > 0 =>
       \A h \in OfType("shift") \cap shifting : Main(h) \subseteq act' => Main(h) \subseteq act]_vars

\* When no button is pressed any more every action ends, even that of a button whose
\* shift button was released before it; only a toggle may stay on.
NothingStuck ==
  <>[](\A b \in Button : pin[Pin[b]] = ~activeHigh[b])
  => <>[](\A a \in act : type[a[1]] = "toggle")

\* When the pins have come to rest, every debounced state agrees with its pin: no
\* filter of the debouncer holds a change back for good.
SettlesOnPin ==
  <>[][pin' = pin]_pin => <>[](\A b \in Button : debounced[b] = pin[Pin[b]])
=============================================================================
