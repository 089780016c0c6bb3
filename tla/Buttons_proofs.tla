-------------------------- MODULE Buttons_proofs --------------------------
(*************************************************************************)
(* Theorems about Buttons, for configurations of any number of buttons   *)
(* of every type, on shared pins or not, and for all times.              *)
(*************************************************************************)
EXTENDS Buttons, TLAPS

(*************************************************************************)
(* Types                                                                 *)
(*************************************************************************)
LEMMA ConstantsOK ==
  /\ N \in Nat \ {0} /\ \A i \in 1..N : Buttons[i] \in Button
  /\ HoldTime \in Nat /\ ShortTime \in Nat /\ Spacing \in Nat /\ ShiftPulse \in Nat
  /\ \A v \in BOOLEAN : LowPass[v] \in Nat /\ Hold[v] \in Nat /\ PulseTime[v] \in Nat
<1>1. N \in Nat \ {0} /\ \A i \in 1..N : Buttons[i] \in Button
  <2>1. Buttons \in Seq(Button) /\ N > 0
    BY ButtonsAssumption DEF ButtonsAssumption
  <2>2. N \in Nat
    BY <2>1 DEF N
  <2>3. \A i \in 1..N : Buttons[i] \in Button
    BY DEF Button
  <2>4. QED
    BY <2>1, <2>2, <2>3
<1>2. HoldTime \in Nat /\ ShortTime \in Nat /\ Spacing \in Nat /\ ShiftPulse \in Nat
  BY ButtonsAssumption DEF ButtonsAssumption
<1>3. LowPass \in [BOOLEAN -> Nat] /\ Hold \in [BOOLEAN -> Nat] /\ PulseTime \in [BOOLEAN -> Nat]
  BY ButtonsAssumption DEF ButtonsAssumption
<1>4. QED
  BY <1>1, <1>2, <1>3

\* The ages start at 0 and stay in their ranges.
LEMMA AgesOK ==
  /\ \E n \in Nat : EdgeAges = 0..n
  /\ \E n \in Nat : ChangeAges = 0..n
  /\ \E n \in Nat : OnAges = 0..n
  /\ \E n \in Nat : StartAges = 0..n
<1>1. \A m, n \in Nat : Larger(m, n) \in Nat
  BY DEF Larger
<1>2. LowPass[TRUE] \in Nat /\ LowPass[FALSE] \in Nat /\ Hold[TRUE] \in Nat /\ Hold[FALSE] \in Nat
      /\ PulseTime[TRUE] \in Nat /\ PulseTime[FALSE] \in Nat
  BY ConstantsOK
<1>3. ShortTime + 1 \in Nat /\ HoldTime + 1 \in Nat
      /\ Larger(PulseTime[TRUE], PulseTime[FALSE]) + Spacing \in Nat
  <2>1. ShortTime \in Nat /\ HoldTime \in Nat /\ Spacing \in Nat
    BY ConstantsOK
  <2>2. Larger(PulseTime[TRUE], PulseTime[FALSE]) \in Nat
    BY <1>1, <1>2
  <2>3. \A m, n \in Nat : m + n \in Nat
    OBVIOUS
  <2>4. QED
    BY <2>1, <2>2, <2>3, Zenon
<1>4. Larger(LowPass[TRUE], LowPass[FALSE]) \in Nat /\ Larger(Hold[TRUE], Hold[FALSE]) \in Nat
  BY <1>1, <1>2
<1>5. Larger(Larger(ShortTime + 1, ShiftPulse), Larger(PulseTime[TRUE], PulseTime[FALSE]) + Spacing)
        \in Nat
  BY <1>1, <1>3, ConstantsOK
<1>6. QED
  <2>1. \E n \in Nat : EdgeAges = 0..n
    BY <1>4 DEF EdgeAges
  <2>2. \E n \in Nat : ChangeAges = 0..n
    BY <1>4 DEF ChangeAges
  <2>3. \E n \in Nat : OnAges = 0..n
    BY <1>3 DEF OnAges
  <2>4. \E n \in Nat : StartAges = 0..n
    BY <1>5 DEF StartAges
  <2>5. QED
    BY <2>1, <2>2, <2>3, <2>4

\* A clock of a button keeps to its range.
LEMMA OlderOK ==
  ASSUME NEW ages, NEW n \in Nat, ages = 0..n
  PROVE  0 \in ages /\ \A age \in ages : Older(age, ages) \in ages
  BY DEF Older

\* Setting a button's bit leaves a set of buttons.
LEMMA WithOK ==
  ASSUME NEW S \in SUBSET Button, NEW b \in Button, NEW v PROVE With(S, b, v) \subseteq Button
  BY DEF With

\* A call of actions of b, and the note of a shift usage, keep to the types.
LEMMA CallOK ==
  ASSUME NEW b \in Button, act \subseteq Actions, repeated \subseteq Actions,
         NEW up \in SUBSET (Main(b) \cup Short(b)), NEW down \in SUBSET (Main(b) \cup Short(b)),
         Call(up, down)
  PROVE  act' \subseteq Actions /\ repeated' \subseteq Actions
<1>1. Main(b) \cup Short(b) \subseteq Actions
  BY DEF Main, Short, Actions
<1>2. QED
  BY <1>1 DEF Call

\* The same for a call that is made on a condition.
LEMMA CallIfOK ==
  ASSUME NEW b \in Button, act \subseteq Actions, repeated \subseteq Actions,
         NEW start, NEW end, CallIf(start, end, Main(b))
  PROVE  act' \subseteq Actions /\ repeated' \subseteq Actions
<1>1. PICK up \in SUBSET (Main(b) \cup Short(b)), down \in SUBSET (Main(b) \cup Short(b)) :
        Call(up, down)
  BY DEF CallIf
<1>2. QED
  BY <1>1, CallOK

\* The note of a shift usage keeps to the type.
LEMMA UsageOK ==
  ASSUME NEW b, shiftUsed \subseteq Button, NoteShiftUsage(b) \/ UNCHANGED shiftUsed
  PROVE  shiftUsed' \subseteq Button
  BY DEF NoteShiftUsage, OfType

MainOK ==
  /\ lastSource \subseteq Button /\ logical \subseteq Button /\ raw \subseteq Button
  /\ sinceOn \in [Button -> OnAges] /\ sinceStart \in [Button -> StartAges]
  /\ phase \in [Button -> {"none", "pulse", "space"}]
  /\ shift \in BOOLEAN /\ shiftUsed \subseteq Button
  /\ act \subseteq Actions /\ repeated \subseteq Actions

\* A poll of a button, whatever its type, keeps to the types.
LEMMA PollOK ==
  ASSUME MainOK, NEW b \in Button,
         PushPoll(b) \/ TogglePoll(b) \/ HoldPoll(b) \/ PulsePoll(b) \/ ShiftPoll(b)
  PROVE  MainOK'
<1> 0 \in OnAges /\ 0 \in StartAges
  BY AgesOK, OlderOK
<1> USE DEF MainOK
<1>1. CASE PushPoll(b)
  <2>1. lastSource' \subseteq Button /\ logical' \subseteq Button
    BY <1>1, WithOK DEF PushPoll
  <2>2. act' \subseteq Actions /\ repeated' \subseteq Actions
    BY <1>1, CallIfOK DEF PushPoll
  <2>3. shiftUsed' \subseteq Button
    BY <1>1, UsageOK DEF PushPoll
  <2>4. QED
    BY <1>1, <2>1, <2>2, <2>3 DEF PushPoll, NoTimers
<1>2. CASE TogglePoll(b)
  <2>1. lastSource' \subseteq Button /\ logical' \subseteq Button
    BY <1>2, WithOK DEF TogglePoll
  <2>2. act' \subseteq Actions /\ repeated' \subseteq Actions
    BY <1>2, CallIfOK DEF TogglePoll
  <2>3. shiftUsed' \subseteq Button
    BY <1>2, UsageOK DEF TogglePoll
  <2>4. QED
    BY <1>2, <2>1, <2>2, <2>3 DEF TogglePoll, NoTimers
<1>3. CASE HoldPoll(b)
  <2>1. lastSource' \subseteq Button /\ logical' \subseteq Button /\ raw' \subseteq Button
    BY <1>3, WithOK DEF HoldPoll
  <2>2. act' \subseteq Actions /\ repeated' \subseteq Actions
    <3>1. PICK up \in SUBSET (Main(b) \cup Short(b)), down \in SUBSET (Main(b) \cup Short(b)) :
            Call(up, down)
      BY <1>3 DEF HoldPoll
    <3>2. QED
      BY <3>1, CallOK
  <2>3. shiftUsed' \subseteq Button
    BY <1>3, UsageOK DEF HoldPoll
  <2>4. sinceOn' \in [Button -> OnAges] /\ sinceStart' \in [Button -> StartAges]
        /\ phase' \in [Button -> {"none", "pulse", "space"}]
    BY <1>3 DEF HoldPoll
  <2>5. QED
    BY <1>3, <2>1, <2>2, <2>3, <2>4 DEF HoldPoll
<1>4. CASE PulsePoll(b)
  <2>1. logical' \subseteq Button
    BY <1>4, WithOK DEF PulsePoll
  <2>2. act' \subseteq Actions /\ repeated' \subseteq Actions
    BY <1>4, CallIfOK DEF PulsePoll
  <2>3. shiftUsed' \subseteq Button
    BY <1>4, UsageOK DEF PulsePoll
  <2>4. sinceStart' \in [Button -> StartAges] /\ phase' \in [Button -> {"none", "pulse", "space"}]
    BY <1>4 DEF PulsePoll
  <2>5. QED
    BY <1>4, <2>1, <2>2, <2>3, <2>4 DEF PulsePoll
<1>5. CASE ShiftPoll(b)
  <2>1. logical' \subseteq Button
    BY <1>5, WithOK DEF ShiftPoll
  <2>2. act' \subseteq Actions /\ repeated' \subseteq Actions
    BY <1>5, CallIfOK DEF ShiftPoll
  <2>3. shiftUsed' \subseteq Button /\ shift' \in BOOLEAN
    BY <1>5 DEF ShiftPoll
  <2>4. sinceStart' \in [Button -> StartAges] /\ phase' \in [Button -> {"none", "pulse", "space"}]
    BY <1>5 DEF ShiftPoll
  <2>5. QED
    BY <1>5, <2>1, <2>2, <2>3, <2>4 DEF ShiftPoll
<1>6. QED
  BY <1>1, <1>2, <1>3, <1>4, <1>5

\* Every variable keeps to its range: the ages that the model keeps of the code's time
\* stamps are enough for every comparison, and only actions that exist are called.
THEOREM TypeInvariant == Spec => []TypeOK
<1> USE DEF MainOK
<1>0. 0 \in EdgeAges /\ 0 \in ChangeAges /\ 0 \in OnAges /\ 0 \in StartAges
  BY AgesOK, OlderOK
<1>a. /\ \A age \in EdgeAges : Older(age, EdgeAges) \in EdgeAges
      /\ \A age \in ChangeAges : Older(age, ChangeAges) \in ChangeAges
      /\ \A age \in OnAges : Older(age, OnAges) \in OnAges
      /\ \A age \in StartAges : Older(age, StartAges) \in StartAges
  BY AgesOK, OlderOK
<1>1. Init => TypeOK
  <2> SUFFICES ASSUME Init PROVE TypeOK
    OBVIOUS
  <2>1. shiftBits \in [Button -> BOOLEAN] /\ type \in Types
    BY DEF Init
  <2>2. pin \in [Pins -> BOOLEAN] /\ lastPhysical \in [Button -> BOOLEAN]
        /\ debounced \in [Button -> BOOLEAN]
    BY Zenon DEF Init
  <2>3. turn \in 1..N
    BY ConstantsOK DEF Init
  <2>4. QED
    BY <1>0, <2>1, <2>2, <2>3 DEF Init, TypeOK
<1>2. TypeOK /\ [Next]_vars => TypeOK'
  <2> SUFFICES ASSUME TypeOK, [Next]_vars PROVE TypeOK'
    OBVIOUS
  <2>1. ASSUME NEW b \in Button, SecondCorePoll(b) PROVE TypeOK'
    <3>1. pin[Pin[b]] \in BOOLEAN
      BY DEF TypeOK, Pins
    <3>2. Edge(b) \in EdgeAges
      BY <1>0 DEF Edge, TypeOK
    <3>3. lastPhysical' \in [Button -> BOOLEAN]
      BY <2>1, <3>1, Zenon DEF SecondCorePoll, TypeOK
    <3>4. debounced' \in [Button -> BOOLEAN]
      BY <2>1, <3>1, Zenon DEF SecondCorePoll, TypeOK
    <3>5. sinceChange' \in [Button -> ChangeAges]
      BY <2>1, <1>0 DEF SecondCorePoll, TypeOK
    <3>6. sinceEdge' \in [Button -> EdgeAges]
      BY <2>1, <3>2, <1>0 DEF SecondCorePoll, TypeOK
    <3>7. UNCHANGED <<config, pin, main>>
      BY <2>1 DEF SecondCorePoll
    <3>8. QED
      BY <3>3, <3>4, <3>5, <3>6, <3>7 DEF TypeOK, config, main
  <2>2. CASE Task
    <3>1. Current \in Button /\ turn' \in 1..N
      BY <2>2, ConstantsOK DEF Task, Current, TypeOK
    <3>2. MainOK'
      BY <2>2, <3>1, PollOK DEF Task, TypeOK
    <3>3. shifting' \subseteq Button
      BY <2>2 DEF Task, OfType
    <3>4. UNCHANGED <<config, pin, core1>>
      BY <2>2 DEF Task
    <3>5. QED
      BY <3>1, <3>2, <3>3, <3>4 DEF TypeOK, config, core1
  <2>3. CASE Tick
    <3>1. sinceEdge' \in [Button -> EdgeAges] /\ sinceChange' \in [Button -> ChangeAges]
      BY <2>3, <1>a DEF Tick, TypeOK
    <3>2. sinceOn' \in [Button -> OnAges] /\ sinceStart' \in [Button -> StartAges]
      BY <2>3, <1>a DEF Tick, TypeOK
    <3>3. QED
      BY <2>3, <3>1, <3>2 DEF Tick, TypeOK, config
  <2>4. ASSUME NEW p \in Pins, Move(p) PROVE TypeOK'
    <3>1. pin' \in [Pins -> BOOLEAN]
      BY <2>4, Zenon DEF Move, TypeOK
    <3>2. UNCHANGED <<config, core1, main>>
      BY <2>4 DEF Move
    <3>3. QED
      BY <3>1, <3>2 DEF TypeOK, config, core1, main
  <2>5. CASE UNCHANGED vars
    BY <2>5 DEF vars, TypeOK
  <2>6. QED
    BY <2>1, <2>2, <2>3, <2>4, <2>5 DEF Next
<1>3. QED
  BY <1>1, <1>2, PTL DEF Spec

(*************************************************************************)
(* Actions                                                               *)
(*************************************************************************)
\* when the action of b is on
IsOn(b) == CASE type[b] \in {"push", "toggle", "hold"} -> b \in logical
             [] type[b] = "pulse" -> phase[b] = "pulse"
             [] OTHER -> IF ShiftPulse = 0 THEN b \in logical ELSE phase[b] = "pulse"

\* Actions follow the states of their buttons.
Follows(b) ==
  /\ <<b, "action">> \in act <=> IsOn(b)
  /\ <<b, "short">> \in act <=> type[b] = "hold" /\ phase[b] = "pulse"
  /\ type[b] = "hold" => phase[b] # "space"

AlternateInv == repeated = {} /\ \A b \in Button : Follows(b)

\* A poll of b leaves the actions and states of the other buttons alone.
LEMMA OthersFollow ==
  ASSUME TypeOK, AlternateInv, NEW b \in Button, NEW c \in Button, b # c, type' = type,
         NEW up \in SUBSET (Main(b) \cup Short(b)), NEW down \in SUBSET (Main(b) \cup Short(b)),
         Call(up, down), c \in logical' <=> c \in logical, phase'[c] = phase[c]
  PROVE  Follows(c)'
<1>1. Follows(c)
  BY DEF AlternateInv
<1>2. <<c, "action">> \in act' <=> <<c, "action">> \in act
  BY DEF Call, Main, Short
<1>3. <<c, "short">> \in act' <=> <<c, "short">> \in act
  BY DEF Call, Main, Short
<1>4. IsOn(c)' <=> IsOn(c)
  BY DEF IsOn
<1>5. QED
  BY <1>1, <1>2, <1>3, <1>4 DEF Follows

\* Setting a button's bit leaves the bits of the others.
LEMMA WithOthers ==
  ASSUME NEW S, NEW b, NEW v, NEW c, c # b PROVE c \in With(S, b, v) <=> c \in S
  BY DEF With

\* One poll at a time.
LEMMA PushFollows ==
  ASSUME TypeOK, AlternateInv, NEW b \in Button, PushPoll(b), type' = type
  PROVE  AlternateInv'
<1> DEFINE press == Pressed(b) /\ b \notin logical /\ MatchShiftState(b)
           release == Released(b) /\ b \in logical
           up == IF press THEN Main(b) ELSE {}
           down == IF release /\ ~press THEN Main(b) ELSE {}
<1>1. Call(up, down) /\ logical' = With(logical, b, press \/ (b \in logical /\ ~release))
      /\ type[b] = "push" /\ phase' = phase
  BY Zenon DEF PushPoll, CallIf, NoTimers
<1>2. Follows(b) /\ repeated = {}
  BY DEF AlternateInv
<1>3. b \in logical' <=> press \/ (b \in logical /\ ~release)
  BY <1>1, Zenon DEF With
<1>4. <<b, "action">> \in act <=> b \in logical
  BY <1>1, <1>2 DEF Follows, IsOn
<1>5. up \cap act = {} /\ down \ act = {}
  BY <1>4 DEF Main
<1>6. repeated' = {}
  BY <1>1, <1>2, <1>5 DEF Call
<1>7. <<b, "action">> \in act' <=> b \in logical'
  BY <1>1, <1>3, <1>4 DEF Call, Main
<1>8. Follows(b)'
  BY <1>1, <1>2, <1>7 DEF Follows, IsOn, Call, Main
<1>9. ASSUME NEW c \in Button, c # b PROVE Follows(c)'
  <2>1. up \in SUBSET (Main(b) \cup Short(b)) /\ down \in SUBSET (Main(b) \cup Short(b))
    OBVIOUS
  <2>2. c \in logical' <=> c \in logical
    BY <1>1, <1>9, WithOthers
  <2>3. QED
    BY <1>1, <1>9, <2>1, <2>2, OthersFollow
<1>10. QED
  BY <1>6, <1>8, <1>9 DEF AlternateInv

\* A poll of a toggle button keeps to the alternation.
LEMMA ToggleFollows ==
  ASSUME TypeOK, AlternateInv, NEW b \in Button, TogglePoll(b), type' = type
  PROVE  AlternateInv'
<1> DEFINE press == Pressed(b) /\ MatchShiftState(b)
           on == press /\ b \notin logical
           off == press /\ b \in logical
           up == IF on THEN Main(b) ELSE {}
           down == IF off /\ ~on THEN Main(b) ELSE {}
<1>1. Call(up, down) /\ logical' = With(logical, b, press # (b \in logical))
      /\ type[b] = "toggle" /\ phase' = phase
  BY Zenon DEF TogglePoll, CallIf, NoTimers
<1>2. Follows(b) /\ repeated = {}
  BY DEF AlternateInv
<1>3. b \in logical' <=> press # (b \in logical)
  BY <1>1, Zenon DEF With
<1>4. <<b, "action">> \in act <=> b \in logical
  BY <1>1, <1>2 DEF Follows, IsOn
<1>5. up \cap act = {} /\ down \ act = {}
  BY <1>4 DEF Main
<1>6. repeated' = {}
  BY <1>1, <1>2, <1>5 DEF Call
<1>7. <<b, "action">> \in act' <=> b \in logical'
  BY <1>1, <1>3, <1>4 DEF Call, Main
<1>8. Follows(b)'
  BY <1>1, <1>2, <1>7 DEF Follows, IsOn, Call, Main
<1>9. ASSUME NEW c \in Button, c # b PROVE Follows(c)'
  <2>1. up \in SUBSET (Main(b) \cup Short(b)) /\ down \in SUBSET (Main(b) \cup Short(b))
    OBVIOUS
  <2>2. c \in logical' <=> c \in logical
    BY <1>1, <1>9, WithOthers
  <2>3. QED
    BY <1>1, <1>9, <2>1, <2>2, OthersFollow
<1>10. QED
  BY <1>6, <1>8, <1>9 DEF AlternateInv

\* So does that of a button with short and long presses,
LEMMA HoldFollows ==
  ASSUME TypeOK, AlternateInv, NEW b \in Button, HoldPoll(b), type' = type
  PROVE  AlternateInv'
<1> DEFINE press == Pressed(b) /\ b \notin raw /\ MatchShiftState(b)
           release == Released(b) /\ b \in raw
           short == release /\ b \notin logical
           over == ~short /\ phase[b] = "pulse" /\ sinceStart[b] > ShortTime
           held == press \/ (b \in raw /\ ~release)
           on == held /\ (b \in logical \/ (~press /\ sinceOn[b] > HoldTime))
           up == (IF ShortStarts(b, short) THEN Short(b) ELSE {})
                   \cup (IF on /\ b \notin logical THEN Main(b) ELSE {})
           down == (IF over THEN Short(b) ELSE {})
                     \cup (IF ~on /\ b \in logical THEN Main(b) ELSE {})
<1>1. /\ Call(up, down) /\ logical' = With(logical, b, on) /\ type[b] = "hold"
      /\ phase' = [phase EXCEPT ![b] = IF short THEN "pulse" ELSE IF over THEN "none" ELSE @]
  BY Zenon DEF HoldPoll
<1>2. Follows(b) /\ repeated = {} /\ phase \in [Button -> {"none", "pulse", "space"}]
  BY DEF AlternateInv, TypeOK
<1>3. b \in logical' <=> on
  BY <1>1, Zenon DEF With
<1>4. /\ <<b, "action">> \in act <=> b \in logical
      /\ <<b, "short">> \in act <=> phase[b] = "pulse"
      /\ phase[b] \in {"none", "pulse"}
  BY <1>1, <1>2 DEF Follows, IsOn
<1>5. phase'[b] = IF short THEN "pulse" ELSE IF over THEN "none" ELSE phase[b]
  BY <1>1, <1>2
<1> HIDE DEF on, short, over
<1>6. up \cap act = {} /\ down \ act = {}
  <2>1. over => phase[b] = "pulse"
    BY DEF over
  <2>2. QED
    BY <1>4, <2>1 DEF Main, Short, ShortStarts
<1>7. repeated' = {}
  BY <1>1, <1>2, <1>6 DEF Call
<1>8. <<b, "action">> \in act' <=> b \in logical'
  BY <1>1, <1>3, <1>4 DEF Call, Main, Short
<1>9. <<b, "short">> \in act' <=> phase'[b] = "pulse"
  <2>1. short => ~over
    BY DEF over
  <2>2. QED
    BY <1>1, <1>4, <1>5, <2>1 DEF Call, Main, Short, ShortStarts
<1>10. Follows(b)'
  BY <1>1, <1>4, <1>5, <1>8, <1>9 DEF Follows, IsOn
<1>11. ASSUME NEW c \in Button, c # b PROVE Follows(c)'
  <2>1. up \in SUBSET (Main(b) \cup Short(b)) /\ down \in SUBSET (Main(b) \cup Short(b))
    OBVIOUS
  <2>2. c \in logical' <=> c \in logical
    BY <1>1, <1>11, WithOthers
  <2>3. phase'[c] = phase[c]
    BY <1>1, <1>2, <1>11
  <2>4. QED
    BY <1>1, <1>11, <2>1, <2>2, <2>3, OthersFollow
<1>12. QED
  BY <1>7, <1>10, <1>11 DEF AlternateInv

\* that of a button that pulses on a change,
LEMMA PulseFollows ==
  ASSUME TypeOK, AlternateInv, NEW b \in Button, PulsePoll(b), type' = type
  PROVE  AlternateInv'
<1> DEFINE changed == phase[b] = "none" /\ Source(b) # (b \in logical) /\ MatchShiftState(b)
           start == changed /\ PulseTime[Source(b)] > 0
           end == phase[b] = "pulse" /\ sinceStart[b] >= PulseTime[(b \in logical)]
           rested == phase[b] = "space" /\ sinceStart[b] >= PulseTime[(b \in logical)] + Spacing
           up == IF start THEN Main(b) ELSE {}
           down == IF end /\ ~start THEN Main(b) ELSE {}
<1>1. /\ Call(up, down) /\ type[b] = "pulse"
      /\ logical' = IF changed THEN With(logical, b, Source(b)) ELSE logical
      /\ phase' = [phase EXCEPT ![b] = IF start THEN "pulse" ELSE IF end THEN "space"
                                         ELSE IF rested THEN "none" ELSE @]
  BY Zenon DEF PulsePoll, CallIf
<1>2. Follows(b) /\ repeated = {} /\ phase \in [Button -> {"none", "pulse", "space"}]
  BY DEF AlternateInv, TypeOK
<1>3. (start => phase[b] = "none") /\ (end => phase[b] = "pulse") /\ (rested => phase[b] = "space")
  OBVIOUS
<1>4. phase'[b] = IF start THEN "pulse" ELSE IF end THEN "space" ELSE IF rested THEN "none"
                  ELSE phase[b]
  BY <1>1, <1>2
<1>5. <<b, "action">> \in act <=> phase[b] = "pulse"
  BY <1>1, <1>2 DEF Follows, IsOn
<1>6. ASSUME NEW c \in Button, c # b PROVE Follows(c)'
  <2>1. up \in SUBSET (Main(b) \cup Short(b)) /\ down \in SUBSET (Main(b) \cup Short(b))
    OBVIOUS
  <2>2. c \in logical' <=> c \in logical
    BY <1>1, <1>6, WithOthers
  <2>3. phase'[c] = phase[c]
    BY <1>1, <1>2, <1>6
  <2>4. QED
    BY <1>1, <1>6, <2>1, <2>2, <2>3, OthersFollow
<1> HIDE DEF changed, start, end, rested
<1>7. up \cap act = {} /\ down \ act = {}
  BY <1>3, <1>5 DEF Main
<1>8. repeated' = {}
  BY <1>1, <1>2, <1>7 DEF Call
<1>9. <<b, "action">> \in act' <=> phase'[b] = "pulse"
  BY <1>1, <1>3, <1>4, <1>5 DEF Call, Main
<1>10. <<b, "short">> \in act' <=> <<b, "short">> \in act
  BY <1>1 DEF Call, Main
<1>11. Follows(b)'
  BY <1>1, <1>2, <1>9, <1>10 DEF Follows, IsOn
<1>12. QED
  BY <1>6, <1>8, <1>11 DEF AlternateInv

\* and that of a shift button.
LEMMA ShiftFollows ==
  ASSUME TypeOK, AlternateInv, NEW b \in Button, ShiftPoll(b), type' = type
  PROVE  AlternateInv'
<1> DEFINE press == Source(b) /\ b \notin logical
           release == ~Source(b) /\ b \in logical
           start == release /\ ShiftPulse > 0 /\ b \notin shiftUsed /\ phase[b] = "none"
           end == ~start /\ phase[b] = "pulse" /\ sinceStart[b] >= ShiftPulse
           on == IF ShiftPulse = 0 THEN press ELSE start
           off == IF ShiftPulse = 0 THEN release ELSE end
           up == IF on THEN Main(b) ELSE {}
           down == IF off /\ ~on THEN Main(b) ELSE {}
<1>1. /\ type[b] = "shift" /\ logical' = With(logical, b, Source(b))
      /\ phase' = [phase EXCEPT ![b] = IF start THEN "pulse" ELSE IF end THEN "none" ELSE @]
      /\ IF ShiftPulse = 0 THEN CallIf(press, release, Main(b)) ELSE CallIf(start, end, Main(b))
  BY Zenon DEF ShiftPoll
<1>2. Call(up, down)
  BY <1>1, Zenon DEF CallIf
<1>3. Follows(b) /\ repeated = {} /\ phase \in [Button -> {"none", "pulse", "space"}]
  BY DEF AlternateInv, TypeOK
<1>4. (start => phase[b] = "none") /\ (end => ~start /\ phase[b] = "pulse")
  OBVIOUS
<1>5. phase'[b] = IF start THEN "pulse" ELSE IF end THEN "none" ELSE phase[b]
  BY <1>1, <1>3
<1>6. b \in logical' <=> press \/ (b \in logical /\ ~release)
  BY <1>1, Zenon DEF With
<1>7. ASSUME NEW c \in Button, c # b PROVE Follows(c)'
  <2>1. up \in SUBSET (Main(b) \cup Short(b)) /\ down \in SUBSET (Main(b) \cup Short(b))
    OBVIOUS
  <2>2. c \in logical' <=> c \in logical
    BY <1>1, <1>7, WithOthers
  <2>3. phase'[c] = phase[c]
    BY <1>1, <1>3, <1>7
  <2>4. QED
    BY <1>1, <1>2, <1>7, <2>1, <2>2, <2>3, OthersFollow
<1>8. <<b, "action">> \in act <=> IsOn(b)
  BY <1>3 DEF Follows
<1>9. IsOn(b) <=> IF ShiftPulse = 0 THEN b \in logical ELSE phase[b] = "pulse"
  BY <1>1 DEF IsOn
<1>10. IsOn(b)' <=> IF ShiftPulse = 0 THEN b \in logical' ELSE phase'[b] = "pulse"
  BY <1>1 DEF IsOn
<1>11. (on => ~IsOn(b)) /\ (off /\ ~on => IsOn(b))
  BY <1>4, <1>9
<1> HIDE DEF start, end
<1>12. IsOn(b)' <=> on \/ (IsOn(b) /\ ~off)
  BY <1>4, <1>5, <1>6, <1>9, <1>10
<1> HIDE DEF on, off
<1>13. up \cap act = {} /\ down \ act = {}
  BY <1>8, <1>11 DEF Main
<1>14. repeated' = {}
  BY <1>2, <1>3, <1>13 DEF Call
<1>15. <<b, "action">> \in act' <=> IsOn(b)'
  BY <1>2, <1>8, <1>11, <1>12 DEF Call, Main
<1>16. <<b, "short">> \in act' <=> <<b, "short">> \in act
  BY <1>2 DEF Call, Main
<1>17. Follows(b)'
  BY <1>1, <1>3, <1>15, <1>16 DEF Follows
<1>18. QED
  BY <1>7, <1>14, <1>17 DEF AlternateInv

\* Every action of every configuration is told on and off in turn: a key is never
\* pressed twice without a release between.
THEOREM ActionsAlternateAlways == Spec => []ActionsAlternate
<1>1. Init => AlternateInv
  BY DEF Init, AlternateInv, Follows, IsOn
<1>2. TypeOK /\ AlternateInv /\ [Next]_vars => AlternateInv'
  <2> SUFFICES ASSUME TypeOK, AlternateInv, [Next]_vars PROVE AlternateInv'
    OBVIOUS
  <2>1. CASE Task
    <3>1. Current \in Button /\ type' = type
      BY <2>1, ConstantsOK DEF Task, Current, TypeOK, config
    <3>2. QED
      BY <2>1, <3>1, PushFollows, ToggleFollows, HoldFollows, PulseFollows, ShiftFollows DEF Task
  <2>2. ASSUME UNCHANGED <<type, act, repeated, logical, phase>> PROVE AlternateInv'
    BY <2>2 DEF AlternateInv, Follows, IsOn
  <2>3. ASSUME NEW b \in Button, SecondCorePoll(b) PROVE AlternateInv'
    BY <2>2, <2>3 DEF SecondCorePoll, config, main
  <2>4. CASE Tick
    BY <2>2, <2>4 DEF Tick, config
  <2>5. ASSUME NEW p \in Pins, Move(p) PROVE AlternateInv'
    BY <2>2, <2>5 DEF Move, config, main
  <2>6. CASE UNCHANGED vars
    BY <2>2, <2>6 DEF vars
  <2>7. QED
    BY <2>1, <2>3, <2>4, <2>5, <2>6 DEF Next
<1>3. AlternateInv => ActionsAlternate
  BY DEF AlternateInv, ActionsAlternate
<1>4. QED
  BY <1>1, <1>2, <1>3, TypeInvariant, PTL DEF Spec

-----------------------------------------------------------------------------
(* A shift button whose press has shifted another button is marked as used  *)
(* (shiftUsed), until it is pressed again.                                  *)

ShiftInv ==
  /\ shifting \subseteq shiftUsed /\ shifting \subseteq logical
  /\ \A b \in Button : shiftBits[b] => shiftMask[b]

\* Only the button that is polled can take a press, and one that wants the shift
\* state marks every shift button when it does.
LEMMA TakesMarks ==
  ASSUME ShiftInv, NEW b \in Button,
         PushPoll(b) \/ TogglePoll(b) \/ HoldPoll(b) \/ PulsePoll(b) \/ ShiftPoll(b),
         NEW c \in Button, Takes(c), shiftBits[c]
  PROVE  OfType("shift") \subseteq shiftUsed'
<1>1. c = b
  <2> SUFFICES ASSUME c # b PROVE FALSE
    OBVIOUS
  <2>1. ASSUME NEW S, NEW T, NEW v, T = With(S, b, v) PROVE c \in T <=> c \in S
    BY <2>1, WithOthers
  <2> SUFFICES (c \in raw' <=> c \in raw) /\ (c \in logical' <=> c \in logical)
    BY DEF Takes
  <2>2. CASE PushPoll(b)
    BY <2>1, <2>2 DEF PushPoll, NoTimers
  <2>3. CASE TogglePoll(b)
    BY <2>1, <2>3 DEF TogglePoll, NoTimers
  <2>4. CASE HoldPoll(b)
    BY <2>1, <2>4 DEF HoldPoll
  <2>5. CASE PulsePoll(b)
    BY <2>1, <2>5 DEF PulsePoll
  <2>6. CASE ShiftPoll(b)
    BY <2>1, <2>6 DEF ShiftPoll
  <2>7. QED
    BY <2>2, <2>3, <2>4, <2>5, <2>6
<1>2. ASSUME MatchShiftState(b), NoteShiftUsage(b) PROVE OfType("shift") \subseteq shiftUsed'
  <2>1. shift /\ shiftMask[b]
    BY <1>1, <1>2, Zenon DEF MatchShiftState, ShiftInv
  <2>2. QED
    BY <1>2, <2>1, Zenon DEF NoteShiftUsage
<1>3. \A S, v : b \in With(S, b, v) <=> v
  BY DEF With
<1>4. CASE PushPoll(b)
  <2>1. type[b] = "push" /\ b \in logical' \ logical
    BY <1>1, <1>4 DEF PushPoll, Takes
  <2>2. Pressed(b) /\ b \notin logical /\ MatchShiftState(b)
    BY <1>3, <1>4, <2>1, Zenon DEF PushPoll
  <2>3. QED
    BY <1>2, <1>4, <2>2, Zenon DEF PushPoll
<1>5. CASE TogglePoll(b)
  <2>1. type[b] = "toggle" /\ (b \in logical') # (b \in logical)
    BY <1>1, <1>5 DEF TogglePoll, Takes
  <2> DEFINE press == Pressed(b) /\ MatchShiftState(b)
  <2>2. /\ logical' = With(logical, b, press # (b \in logical))
        /\ press => NoteShiftUsage(b)
    BY <1>5, Zenon DEF TogglePoll
  <2>3. b \in logical' <=> press # (b \in logical)
    BY <2>2, Zenon DEF With
  <2>4. press \in BOOLEAN
    OBVIOUS
  <2> HIDE DEF press
  <2>5. press
    BY <2>1, <2>3, <2>4
  <2>6. NoteShiftUsage(b) /\ MatchShiftState(b)
    BY <2>2, <2>5 DEF press
  <2>7. QED
    BY <1>2, <2>6
<1>6. CASE HoldPoll(b)
  <2>1. type[b] = "hold" /\ b \in raw' \ raw
    BY <1>1, <1>6 DEF HoldPoll, Takes
  <2>2. Pressed(b) /\ b \notin raw /\ MatchShiftState(b)
    BY <1>3, <1>6, <2>1, Zenon DEF HoldPoll
  <2>3. QED
    BY <1>2, <1>6, <2>2, Zenon DEF HoldPoll
<1>7. CASE PulsePoll(b)
  <2>1. type[b] = "pulse" /\ (b \in logical') # (b \in logical)
    BY <1>1, <1>7 DEF PulsePoll, Takes
  <2>2. phase[b] = "none" /\ Source(b) # (b \in logical) /\ MatchShiftState(b)
    BY <1>7, <2>1, Zenon DEF PulsePoll
  <2>3. QED
    BY <1>2, <1>7, <2>2, Zenon DEF PulsePoll
<1>8. CASE ShiftPoll(b)
  BY <1>1, <1>8 DEF ShiftPoll, Takes
<1>9. QED
  BY <1>4, <1>5, <1>6, <1>7, <1>8

\* The mark of a shift button that stays pressed is not taken back.
LEMMA MarkStays ==
  ASSUME NEW b \in Button,
         PushPoll(b) \/ TogglePoll(b) \/ HoldPoll(b) \/ PulsePoll(b) \/ ShiftPoll(b),
         NEW h \in shiftUsed, h \in logical
  PROVE  h \in shiftUsed'
<1>1. CASE PushPoll(b) \/ TogglePoll(b) \/ HoldPoll(b) \/ PulsePoll(b)
  <2>1. NoteShiftUsage(b) \/ shiftUsed' = shiftUsed
    BY <1>1, Zenon DEF PushPoll, TogglePoll, HoldPoll, PulsePoll
  <2>2. QED
    BY <2>1, Zenon DEF NoteShiftUsage
<1>2. CASE ShiftPoll(b)
  BY <1>2 DEF ShiftPoll
<1>3. QED
  BY <1>1, <1>2

\* The action of a shift button is started by its own poll only, and if the button
\* is a Shift-OR button then only when it is not marked.
LEMMA ShiftActionStarts ==
  ASSUME NEW b \in Button, ShiftPulse > 0,
         PushPoll(b) \/ TogglePoll(b) \/ HoldPoll(b) \/ PulsePoll(b) \/ ShiftPoll(b),
         NEW h \in OfType("shift"), <<h, "action">> \in act' \ act
  PROVE  h = b /\ h \notin shiftUsed
<1>1. ASSUME NEW up, NEW down, Call(up, down) PROVE <<h, "action">> \in up
  BY <1>1 DEF Call
<1>2. ASSUME NEW S, <<h, "action">> \in S, S \subseteq Main(b) \cup Short(b) PROVE h = b
  BY <1>2 DEF Main, Short
<1>3. type[h] = "shift"
  BY DEF OfType
<1>4. CASE PushPoll(b) \/ TogglePoll(b) \/ PulsePoll(b)
  <2>1. h = b
    BY <1>1, <1>2, <1>4 DEF PushPoll, TogglePoll, PulsePoll, CallIf
  <2>2. QED
    BY <1>3, <1>4, <2>1 DEF PushPoll, TogglePoll, PulsePoll
<1>5. CASE HoldPoll(b)
  <2>1. h = b
    BY <1>1, <1>2, <1>5 DEF HoldPoll
  <2>2. QED
    BY <1>3, <1>5, <2>1 DEF HoldPoll
<1>6. CASE ShiftPoll(b)
  <2> DEFINE start == ~Source(b) /\ b \in logical /\ ShiftPulse > 0 /\ b \notin shiftUsed
                      /\ phase[b] = "none"
             end == ~start /\ phase[b] = "pulse" /\ sinceStart[b] >= ShiftPulse
  <2>1. ShiftPulse # 0
    BY ConstantsOK
  <2>2. CallIf(start, end, Main(b))
    BY <1>6, <2>1, Zenon DEF ShiftPoll
  <2>3. <<h, "action">> \in (IF start THEN Main(b) ELSE {})
    BY <1>1, <2>2 DEF CallIf
  <2>4. start /\ <<h, "action">> \in Main(b)
    BY <2>3
  <2>5. QED
    BY <2>4 DEF Main
<1>7. QED
  BY <1>4, <1>5, <1>6

\* A shift button that has shifted another is down, and its use is noted.
LEMMA ShiftInvariant == Spec => []ShiftInv
<1>1. Init => ShiftInv
  BY DEF Init, ShiftInv
<1>2. TypeOK /\ ShiftInv /\ [Next]_vars => ShiftInv'
  <2> SUFFICES ASSUME TypeOK, ShiftInv, [Next]_vars PROVE ShiftInv'
    OBVIOUS
  <2>1. CASE Task
    <3>1. Current \in Button /\ UNCHANGED <<type, shiftBits>>
      BY <2>1, ConstantsOK DEF Task, Current, TypeOK, config
    <3>2. /\ PushPoll(Current) \/ TogglePoll(Current) \/ HoldPoll(Current)
             \/ PulsePoll(Current) \/ ShiftPoll(Current)
          /\ shifting' = {h \in OfType("shift") \cap logical \cap logical' :
                            h \in shifting \/ \E b \in Button : Takes(b) /\ shiftBits[b]}
      BY <2>1 DEF Task
    <3>3. ASSUME NEW h \in shifting' PROVE h \in shiftUsed'
      <4>1. h \in OfType("shift") /\ h \in logical
        BY <3>2, <3>3
      <4>2. CASE h \in shifting
        BY <3>1, <3>2, <4>1, <4>2, MarkStays DEF ShiftInv
      <4>3. CASE \E b \in Button : Takes(b) /\ shiftBits[b]
        BY <3>1, <3>2, <4>1, <4>3, TakesMarks
      <4>4. QED
        BY <3>2, <3>3, <4>2, <4>3
    <3>4. shifting' \subseteq logical'
      BY <3>2
    <3>5. \A b \in Button : shiftBits'[b] => shiftMask[b]
      BY <3>1, Zenon DEF ShiftInv
    <3>6. QED
      BY <3>3, <3>4, <3>5, Zenon DEF ShiftInv
  <2>2. ASSUME UNCHANGED <<shiftBits, logical, shiftUsed, shifting>> PROVE ShiftInv'
    BY <2>2, Zenon DEF ShiftInv
  <2>3. ASSUME NEW b \in Button, SecondCorePoll(b) PROVE ShiftInv'
    BY <2>2, <2>3 DEF SecondCorePoll, config, main
  <2>4. CASE Tick
    BY <2>2, <2>4 DEF Tick, config
  <2>5. ASSUME NEW p \in Pins, Move(p) PROVE ShiftInv'
    BY <2>2, <2>5 DEF Move, config, main
  <2>6. CASE UNCHANGED vars
    BY <2>2, <2>6 DEF vars
  <2>7. QED
    BY <2>1, <2>3, <2>4, <2>5, <2>6 DEF Next
<1>3. QED
  BY <1>1, <1>2, TypeInvariant, PTL DEF Spec

\* A press of a Shift-OR button has one function, in every configuration and with
\* whatever filters: its own action is not started by a press that has shifted
\* another button.
THEOREM ShiftPressHasOneFunction == Spec => ShiftOrNotBoth
<1> DEFINE Step == ShiftPulse > 0 => \A h \in OfType("shift") \cap shifting :
                     Main(h) \subseteq act' => Main(h) \subseteq act
<1>1. TypeOK /\ ShiftInv /\ [Next]_vars => [Step]_vars
  <2> SUFFICES ASSUME TypeOK, ShiftInv, [Next]_vars, ShiftPulse > 0,
                      NEW h \in OfType("shift") \cap shifting,
                      <<h, "action">> \in act', <<h, "action">> \notin act
               PROVE  FALSE
    BY DEF Main
  <2>1. CASE Task
    <3>1. Current \in Button
      BY ConstantsOK DEF Current, TypeOK
    <3>2. h \notin shiftUsed
      BY <2>1, <3>1, ShiftActionStarts DEF Task
    <3>3. QED
      BY <3>2 DEF ShiftInv
  <2>2. CASE UNCHANGED act
    BY <2>2
  <2>3. ASSUME NEW b \in Button, SecondCorePoll(b) PROVE UNCHANGED act
    BY <2>3 DEF SecondCorePoll, main
  <2>4. CASE Tick
    BY <2>2, <2>4 DEF Tick
  <2>5. ASSUME NEW p \in Pins, Move(p) PROVE UNCHANGED act
    BY <2>5 DEF Move, main
  <2>6. CASE UNCHANGED vars
    BY <2>2, <2>6 DEF vars
  <2>7. QED
    BY <2>1, <2>2, <2>3, <2>4, <2>5, <2>6 DEF Next
<1>2. ShiftOrNotBoth <=> [][Step]_vars
  BY DEF ShiftOrNotBoth
<1>3. QED
  BY <1>1, <1>2, TypeInvariant, ShiftInvariant, PTL DEF Spec
=============================================================================
