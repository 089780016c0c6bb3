-------------------------------- MODULE TVOn --------------------------------
(***************************************************************************)
(* The TV-ON sequencer, Firmware/TVON.cpp.  An external latch on the TV's  *)
(* power supply remembers whether the firmware has seen that power: a      *)
(* pulse on the SET pin sets it while there is power, and it clears when   *)
(* power goes.  The sequencer tests the latch, counts the TV's boot time   *)
(* down, fires a relay and sends infrared commands; it locks out resets    *)
(* while it does.                                                          *)
(*                                                                         *)
(* Time is abstracted: an interval the firmware waits for is over after    *)
(* some call of Task.  Manual use of the relay and the console's           *)
(* simulation of the latch are left out.                                   *)
(*                                                                         *)
(* A definition named D_Xxx is a plausible mistake in D; nothing refers to *)
(* it.                                                                     *)
(***************************************************************************)
EXTENDS Naturals

VARIABLES
    power,          \* the TV supply is on
    latch,          \* the latch, which the SENSE pin reads
    setPin,         \* the SET pin
    tv,             \* TVON::state
    timed,          \* this session set tCountdownEnd or irTime for the state
    irIndex,        \* TVON::irIndex
    relay,          \* RELAY_STATE_POWERON
    ir,             \* the infrared transmitter is busy
    locked,         \* TVON::resetLock
    savedTV,        \* watchdog scratch registers 2 and 3
    fired           \* history: times the relay went on since power came on

outside  == <<power, latch>>
tvVars   == <<setPin, tv, timed, irIndex, relay, ir, locked, savedTV>>
tvonVars == <<outside, tvVars, fired>>

TransitionalStates == {"PulseLatch", "TestLatch", "Countdown", "RelayOn", "IRReady",
                       "IRWaiting", "IRSending", "PicoBoot"}
States  == TransitionalStates \cup {"PowerOff", "PowerOn"}
Garbage == "garbage"

\* a configuration's "tvon" section; one without it has no sequencer
Section == [present : BOOLEAN, irs : Nat, relay : {"pulse", "switch", "manual"}]
Absent  == [present |-> FALSE, irs |-> 0, relay |-> "manual"]

(***************************************************************************)
(* The environment.                                                        *)
(***************************************************************************)
PowerOn ==
    /\ ~ power
    /\ power' = TRUE /\ latch' = setPin
    /\ fired' = 0
    /\ UNCHANGED tvVars

PowerOff ==
    /\ power
    /\ power' = FALSE /\ latch' = FALSE
    /\ UNCHANGED <<tvVars, fired>>

\* another part of the firmware sends, or the transmitter's queue runs empty
IRBusy ==
    /\ ~ ir /\ ir' = TRUE
    /\ UNCHANGED <<outside, setPin, tv, timed, irIndex, relay, locked, savedTV, fired>>

IRIdle ==
    /\ ir /\ ir' = FALSE
    /\ UNCHANGED <<outside, setPin, tv, timed, irIndex, relay, locked, savedTV, fired>>

(***************************************************************************)
(* Configuration and reset.  The registers keep their contents over a      *)
(* reset by the watchdog; restored states get no times with them.          *)
(***************************************************************************)
InitialState(watchdog) ==
    IF watchdog /\ savedTV \in States THEN savedTV ELSE "PicoBoot"

ConfigureTVOn(conf, watchdog) ==
    /\ tv' = IF conf.present THEN InitialState(watchdog) ELSE "PicoBoot"
    /\ UNCHANGED <<outside, setPin, timed, irIndex, relay, ir, locked, savedTV, fired>>

ResetTVOn(keep) ==
    /\ savedTV' = IF keep THEN savedTV ELSE Garbage
    /\ setPin' = FALSE /\ tv' = "PicoBoot" /\ timed' = FALSE /\ irIndex' = 0
    /\ relay' = FALSE /\ ir' = FALSE /\ locked' = FALSE
    /\ UNCHANGED <<outside, fired>>

(***************************************************************************)
(* The steps of TVON::Task, each from one state.  To(s) ends every one: it *)
(* stashes the new state and locks or unlocks resets.                      *)
(***************************************************************************)
\* resets are locked out only while commands are sent
Lockable_Commands(s) == s \in {"RelayOn", "IRReady", "IRWaiting", "IRSending"}

\* resets stay locked when power is gone
Lockable_Off(s) == s # "PowerOn"

Lockable(s) == s \notin {"PowerOn", "PowerOff"}

\* the state that was current on entry is stashed
To_Early(s) ==
    /\ tv' = s /\ savedTV' = tv
    /\ locked' = Lockable(s)

To(s) ==
    /\ tv' = s /\ savedTV' = s
    /\ locked' = Lockable(s)

WriteSetPin(on) ==
    /\ setPin' = on
    /\ latch' = (latch \/ (on /\ power))
    /\ UNCHANGED power

NoPins == UNCHANGED <<outside, setPin>>

FromPowerOff ==
    /\ tv = "PowerOff"
    /\ WriteSetPin(TRUE)
    /\ To("PulseLatch") /\ timed' = FALSE
    /\ UNCHANGED <<irIndex, relay, ir, fired>>

FromPulseLatch ==
    /\ tv = "PulseLatch"
    /\ WriteSetPin(FALSE)
    /\ To("TestLatch") /\ timed' = FALSE
    /\ UNCHANGED <<irIndex, relay, ir, fired>>

FromTestLatch ==
    /\ tv = "TestLatch"
    /\ IF latch THEN To("Countdown") /\ timed' = TRUE
       ELSE To("PowerOff") /\ timed' = FALSE
    /\ NoPins /\ UNCHANGED <<irIndex, relay, ir, fired>>

CountdownAborted ==
    /\ tv = "Countdown" /\ ~ latch
    /\ WriteSetPin(TRUE)
    /\ To("PowerOff") /\ timed' = FALSE
    /\ UNCHANGED <<irIndex, relay, ir, fired>>

\* tCountdownEnd has passed
CountdownEnds(conf) ==
    /\ tv = "Countdown" /\ latch
    /\ relay' = (relay \/ conf.relay \in {"pulse", "switch"})
    /\ fired' = IF relay' /\ ~ relay /\ fired < 2 THEN fired + 1 ELSE fired
    /\ To("RelayOn") /\ timed' = FALSE
    /\ NoPins /\ UNCHANGED <<irIndex, ir>>

FromRelayOn(conf) ==
    /\ tv = "RelayOn"
    /\ relay' = (relay /\ conf.relay # "pulse")
    /\ irIndex' = 0
    /\ To("IRReady") /\ timed' = FALSE
    /\ NoPins /\ UNCHANGED <<ir, fired>>

FromIRReady(conf) ==
    /\ tv = "IRReady"
    /\ IF irIndex < conf.irs THEN To("IRWaiting") /\ timed' = TRUE
       ELSE To("PowerOn") /\ timed' = FALSE
    /\ NoPins /\ UNCHANGED <<irIndex, relay, ir, fired>>

\* the transmitter sends irList[irIndex], which is beyond the end of the list
\* when a restored state meets a shorter list
FromIRWaiting ==
    /\ tv = "IRWaiting" /\ ~ ir
    /\ ir' = TRUE
    /\ To("IRSending") /\ timed' = FALSE
    /\ NoPins /\ UNCHANGED <<irIndex, relay, fired>>

FromIRSending(conf) ==
    /\ tv = "IRSending" /\ ~ ir
    /\ irIndex' = irIndex + 1
    /\ To(IF irIndex' < conf.irs THEN "IRReady" ELSE "PowerOn") /\ timed' = FALSE
    /\ NoPins /\ UNCHANGED <<relay, ir, fired>>

PowerLost ==
    /\ tv = "PowerOn" /\ ~ latch
    /\ To("PowerOff") /\ timed' = FALSE
    /\ NoPins /\ UNCHANGED <<irIndex, relay, ir, fired>>

FromPicoBoot ==
    /\ tv = "PicoBoot"
    /\ To(IF latch THEN "PowerOn" ELSE "PowerOff") /\ timed' = FALSE
    /\ NoPins /\ UNCHANGED <<irIndex, relay, ir, fired>>

Advance(conf) ==
    \/ FromPowerOff \/ FromPulseLatch \/ FromTestLatch \/ CountdownAborted
    \/ CountdownEnds(conf) \/ FromRelayOn(conf) \/ FromIRReady(conf)
    \/ FromIRWaiting \/ FromIRSending(conf) \/ PowerLost \/ FromPicoBoot

\* the state's time has not come, or its condition does not hold: a task that
\* does run stashes the state and sets the lock all the same
NotYet ==
    /\ \/ tv = "Countdown" /\ latch /\ timed
       \/ tv = "IRWaiting" /\ (timed \/ ir)
       \/ tv = "IRSending" /\ ir
       \/ tv = "PowerOn" /\ latch
    /\ To(tv)
    /\ NoPins /\ UNCHANGED <<timed, irIndex, relay, ir, fired>>

\* tNextState has not come; in the first call after a reset it has
Early(first) ==
    /\ ~ first
    /\ UNCHANGED tvonVars

TVOnTask(conf, first) ==
    \/ conf.present /\ (Advance(conf) \/ NotYet)
    \/ Early(first /\ conf.present)

InitTVOn ==
    /\ power \in BOOLEAN /\ latch = FALSE
    /\ setPin = FALSE /\ tv = "PicoBoot" /\ timed = FALSE /\ irIndex = 0
    /\ relay = FALSE /\ ir = FALSE /\ locked = FALSE
    /\ savedTV = Garbage
    /\ fired = 0

TVOnTypeOK ==
    /\ power \in BOOLEAN /\ latch \in BOOLEAN /\ setPin \in BOOLEAN
    /\ tv \in States /\ timed \in BOOLEAN /\ irIndex \in Nat
    /\ relay \in BOOLEAN /\ ir \in BOOLEAN /\ locked \in BOOLEAN
    /\ savedTV \in States \cup {Garbage}
    /\ fired \in 0 .. 2
    /\ latch => power
=============================================================================
