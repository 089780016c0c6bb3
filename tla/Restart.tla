------------------------------ MODULE Restart -------------------------------
(***************************************************************************)
(* Restarts of the firmware: the boot modes that keep a bad configuration  *)
(* from crashing the device for ever, and the resets that the host, a      *)
(* button or the console ask for and a lock may put off.  Firmware/Main.cpp*)
(* Reset.cpp, FaultHandler.cpp, VendorIfc.cpp, Buttons.cpp and the TV-ON   *)
(* sequencer, which owns the one lock.                                     *)
(*                                                                         *)
(* The main loop calls its tasks in a fixed order; "at" is the next one of *)
(* those modelled.  A crash can happen before each.                        *)
(***************************************************************************)
EXTENDS TVOn

CONSTANT Sections       \* the "tvon" section each boot mode loads

ASSUME SectionsAssumption == Sections \in [{"Normal", "SafeMode", "FactoryMode"} -> Section]

VARIABLES
    at,             \* where the program is
    mode,           \* lastBootMode
    nextMode,       \* watchdog scratch registers 0 and 1
    watchdog,       \* watchdog_caused_reboot()
    stable,         \* the main loop has passed mainLoopSafeTime
    pending,        \* PicoReset::resetPending
    bootLoader,     \* PicoReset::bootLoaderMode
    deferred,       \* deferredRebootSubcmd
    first,          \* TVON::Task has not been called in this session
    \* history of the session before, if it ended by an early hang
    hungIn,         \* its mode, or None
    asked           \* the mode for which a reset was put off in it, or None

hungVars  == <<hungIn, asked>>
bootVars  == <<at, mode, nextMode, watchdog, stable, pending, bootLoader, deferred, first,
               hungIn, asked>>
vars      == <<tvonVars, bootVars>>

Modes == {"Normal", "SafeMode", "FactoryMode"}
Unknown == "Unknown"
None == "none"
Loop == {"reset", "vendor", "button", "tvon", "end"}

Conf == Sections[mode]

(***************************************************************************)
(* Startup.                                                                *)
(***************************************************************************)
\* the configuration that Config::Load loads for a boot mode
Loaded(m) == IF m \in {"SafeMode", "FactoryMode"} THEN m ELSE "Normal"

\* a crash in Safe Mode boots in Safe Mode again
Degraded_Once(m) == IF m = "FactoryMode" THEN "FactoryMode" ELSE "SafeMode"

\* the mode to boot in if this session crashes early
Degraded(m) == IF m \in {"SafeMode", "FactoryMode"} THEN "FactoryMode" ELSE "SafeMode"

Boot ==
    /\ at = "start"
    /\ mode' = Loaded(nextMode)
    /\ nextMode' = Degraded(nextMode)
    /\ at' = "configure"
    /\ UNCHANGED <<watchdog, stable, pending, bootLoader, deferred, first, hungVars, tvonVars>>

Configure ==
    /\ at = "configure"
    /\ ConfigureTVOn(Conf, watchdog)
    /\ at' = "reset"
    /\ UNCHANGED <<mode, nextMode, watchdog, stable, pending, bootLoader, deferred, first, hungVars>>

(***************************************************************************)
(* Resets.  A session ends with the registers kept, or lost.               *)
(***************************************************************************)
EndSession(keep) ==
    /\ ResetTVOn(keep)
    /\ watchdog' = keep
    /\ stable' = FALSE /\ pending' = FALSE /\ bootLoader' = FALSE
    /\ deferred' = None /\ first' = TRUE
    /\ UNCHANGED mode

\* the session does not end by an early hang
DidNotHang == hungIn' = None /\ asked' = None

\* TryReset where no lock is set
PerformReset(loader, next) ==
    /\ at' = IF loader THEN "rom" ELSE "start"
    /\ nextMode' = next
    /\ DidNotHang
    /\ EndSession(TRUE)

\* TryReset where a lock is set, called in a task that the task at "then" follows
PutOff(loader, next, then) ==
    /\ pending' = TRUE /\ bootLoader' = loader
    /\ nextMode' = next
    /\ at' = then
    /\ UNCHANGED <<mode, watchdog, stable, first, hungVars, tvonVars>>

BootModes == Modes \cup {"loader"}

\* the mode Reboot stores, which has Normal for its default
Stored(m) == IF m = "loader" THEN "Normal" ELSE m

\* PicoReset::Reboot; if the call returns, the deferred subcommand is d
Reboot(m, then, d) ==
    IF locked THEN PutOff(m = "loader", Stored(m), then) /\ deferred' = d
    ELSE PerformReset(m = "loader", Stored(m))

Goto(then) == at' = then /\ UNCHANGED <<mode, nextMode, watchdog, stable, pending,
                                        bootLoader, first, hungVars, tvonVars>>

(***************************************************************************)
(* The main loop.                                                          *)
(***************************************************************************)
\* whether picoReset.Task resets the device
CanReset == pending /\ ~ locked

ResetTask ==
    /\ at = "reset"
    /\ IF CanReset THEN PerformReset(bootLoader, nextMode)
       ELSE Goto("vendor") /\ UNCHANGED deferred

\* CMD_RESET, in the USB task: the request is for later, when its reply is sent
Subcommands == {"Normal", "SafeMode", "loader", "FactoryMode"}

VendorReset ==
    /\ at = "vendor"
    /\ \E c \in Subcommands : deferred' = c
    /\ Goto("vendor")

\* the cases of VendorIfc::Task
Cases == {"Normal", "SafeMode", "loader"}

DeferredReboot ==
    /\ at = "vendor" /\ deferred \in Cases
    /\ Reboot(deferred, "button", None)

\* a subcommand without a case is forgotten
DeferredDropped ==
    /\ at = "vendor" /\ deferred # None /\ deferred \notin Cases
    /\ deferred' = None
    /\ Goto("button")

VendorIdle ==
    /\ at = "vendor"
    /\ Goto("button") /\ UNCHANGED deferred

\* a reset button held long enough, or the console's reset command
ButtonReset ==
    /\ at = "button"
    /\ \E m \in BootModes : Reboot(m, "tvon", deferred)

ButtonIdle ==
    /\ at = "button"
    /\ Goto("tvon") /\ UNCHANGED deferred

\* SetLocked(false) calls picoReset.Task while the lock still is set: nothing
\* comes of it, and ResetTask of the next pass performs a pending reset
TVOnStep ==
    /\ at = "tvon"
    /\ TVOnTask(Conf, first)
    /\ first' = FALSE
    /\ at' = "end"
    /\ UNCHANGED <<mode, nextMode, watchdog, stable, pending, bootLoader, deferred, hungVars>>

\* mainLoopSafeTime has passed: two minutes
BecomeStable ==
    /\ at = "end" /\ ~ stable
    /\ stable' = TRUE /\ nextMode' = "Normal"
    /\ at' = "reset"
    /\ UNCHANGED <<mode, watchdog, pending, bootLoader, deferred, first, hungVars, tvonVars>>

EndOfLoop ==
    /\ at = "end"
    /\ Goto("reset") /\ UNCHANGED deferred

(***************************************************************************)
(* Failures.                                                               *)
(***************************************************************************)
Running == at \in Loop \cup {"configure"}

\* the program hangs and the watchdog resets the device
Hang ==
    /\ Running
    /\ hungIn' = IF stable THEN None ELSE mode
    /\ asked' = IF pending /\ ~ stable THEN nextMode ELSE None
    /\ at' = "start"
    /\ EndSession(TRUE)
    /\ UNCHANGED nextMode

\* the fault handler reboots into Safe Mode; if that is locked out, the watchdog
\* resets the device soon after
HardFault ==
    /\ Running
    /\ nextMode' = "SafeMode"
    /\ DidNotHang
    /\ at' = "start"
    /\ EndSession(TRUE)

\* power is cycled, or the RUN pin or the ROM boot loader resets the device
PowerCycle ==
    /\ at # "start"
    /\ nextMode' = Unknown
    /\ DidNotHang
    /\ at' = "start"
    /\ EndSession(FALSE)

\* infrared commands are queued by the host and by buttons, before TVON's task
Environment ==
    /\ PowerOn \/ PowerOff \/ (at \in {"vendor", "button"} /\ IRBusy) \/ IRIdle
    /\ UNCHANGED bootVars

Init ==
    /\ InitTVOn
    /\ at = "start" /\ mode = "Normal" /\ nextMode = Unknown /\ watchdog = FALSE
    /\ stable = FALSE /\ pending = FALSE /\ bootLoader = FALSE
    /\ deferred = None /\ first = TRUE
    /\ hungIn = None /\ asked = None

Next ==
    \/ Boot \/ Configure
    \/ ResetTask
    \/ VendorReset \/ DeferredReboot \/ DeferredDropped \/ VendorIdle
    \/ ButtonReset \/ ButtonIdle
    \/ TVOnStep
    \/ BecomeStable \/ EndOfLoop
    \/ Hang \/ HardFault \/ PowerCycle
    \/ Environment

Spec == Init /\ [][Next]_vars

\* the processor goes on, times come, and the transmitter is not kept busy by
\* others for ever
Fairness ==
    /\ WF_vars(Boot \/ Configure)
    /\ WF_vars(ResetTask \/ VendorIdle \/ ButtonIdle \/ TVOnStep \/ EndOfLoop)
    /\ SF_vars(DeferredReboot \/ DeferredDropped)
    /\ SF_vars(TVOnStep /\ tv' # tv)
    /\ SF_vars(IRIdle /\ at = "tvon" /\ UNCHANGED bootVars)

LiveSpec == Spec /\ Fairness
(***************************************************************************)
(* Properties.                                                             *)
(***************************************************************************)
\* Every variable has its type, and no boot mode register holds anything but a
\* mode the startup code knows, or what power-up left in it.
TypeOK ==
    /\ TVOnTypeOK
    /\ at \in Loop \cup {"start", "configure", "rom"}
    /\ mode \in Modes /\ nextMode \in Modes \cup {Unknown}
    /\ watchdog \in BOOLEAN /\ stable \in BOOLEAN /\ pending \in BOOLEAN
    /\ bootLoader \in BOOLEAN /\ first \in BOOLEAN
    /\ deferred \in Subcommands \cup {None}
    /\ hungIn \in Modes \cup {None} /\ asked \in Modes \cup {Unknown, None}

\* A configuration that hung early is not loaded again in the next session: after the
\* normal one comes Safe Mode or less, after any other one Factory Mode, however the
\* TV-ON sequencer, hard faults and resets led there.  There is one exception: if a
\* reset was being put off when the session hung, the next one has the mode that was
\* asked for, be it the one that hung, because Reboot has stored it already.
HungConfigNotReloaded ==
    Running /\ hungIn # None =>
        IF asked # None THEN mode = asked
        ELSE /\ mode # "Normal"
             /\ hungIn # "Normal" => mode = "FactoryMode"

\* The relay goes on at most once for each time the TV supply comes on, also when
\* crashes interrupt the sequence and the next session takes it up: a second
\* press of the TV's button would turn it off.
FiredOnce == fired <= 1

\* A reset that was asked for, not one that a crash brings, never interrupts the
\* TV-ON sequence, once the sequencer's first call has set its lock.
SequenceNotInterrupted ==
    [][(ResetTask \/ DeferredReboot \/ ButtonReset) /\ at' \in {"start", "rom"}
        => first \/ ~ Conf.present \/ tv \in {"PowerOn", "PowerOff"}]_vars

\* A reset that a lock put off takes place: whatever state the sequencer is in,
\* and however the TV's power comes and goes, the lock is lifted at last.
PendingEnds == pending ~> ~ pending

\* VendorIfcProtocol.h says that CMD_RESET resets the device, one of its four
\* subcommands into Factory Mode: the request has its reset.
CommandResets == (deferred # None) ~> (at \in {"start", "rom"})
=============================================================================
