--------------------------- MODULE Restart_proofs ---------------------------
(***************************************************************************)
(* What holds of Restart for every assignment of "tvon" sections to the    *)
(* boot modes, command lists of every length included.                     *)
(***************************************************************************)
EXTENDS Restart, TLAPS

-----------------------------------------------------------------------------
(***************************************************************************)
(* Types.                                                                  *)
(***************************************************************************)
LEMMA SmallNumbers == 0 \in 0 .. 2 /\ 0 \in Nat
OBVIOUS

\* A session that ends leaves well-typed values behind.
LEMMA EndSessionType ==
    ASSUME TypeOK, NEW keep \in BOOLEAN, EndSession(keep),
           at' \in {"start", "rom"}, nextMode' \in Modes \cup {Unknown},
           DidNotHang \/ (hungIn' \in Modes \cup {None} /\ asked' \in Modes \cup {Unknown, None})
    PROVE  TypeOK'
BY DEF DidNotHang, TypeOK, TVOnTypeOK, EndSession, ResetTVOn, outside, States, TransitionalStates

\* A reset takes effect or is put off; either way the types are kept.
LEMMA RebootType ==
    ASSUME TypeOK, NEW m \in BootModes, NEW then \in Loop,
           NEW d \in Subcommands \cup {None}, Reboot(m, then, d)
    PROVE  TypeOK'
<1>1. Stored(m) \in Modes
  BY DEF Stored, BootModes, Modes
<1>2. CASE locked
  <2>1. PutOff(m = "loader", Stored(m), then) /\ deferred' = d
    BY <1>2 DEF Reboot
  <2>2. TVOnTypeOK'
    BY <2>1 DEF TypeOK, TVOnTypeOK, PutOff, tvonVars, outside, tvVars
  <2> QED  BY <1>1, <2>1, <2>2 DEF TypeOK, PutOff, hungVars
<1>3. CASE ~ locked
  <2>1. PerformReset(m = "loader", Stored(m))
    BY <1>3 DEF Reboot
  <2>2. EndSession(TRUE) /\ at' \in {"start", "rom"} /\ DidNotHang
    BY <2>1, Zenon DEF PerformReset
  <2>3. nextMode' \in Modes \cup {Unknown}
    BY <1>1, <2>1 DEF PerformReset
  <2> QED  BY <2>2, <2>3, EndSessionType
<1> QED  BY <1>2, <1>3

\* The sequencer's step, from any section, keeps its own types.
LEMMA TaskType ==
    ASSUME TVOnTypeOK, NEW conf \in Section, NEW f \in BOOLEAN, TVOnTask(conf, f)
    PROVE  TVOnTypeOK'
<1> USE DEF TVOnTypeOK, To, NoPins, WriteSetPin, outside, States, TransitionalStates,
            Lockable
<1>1. CASE FromPowerOff \/ FromPulseLatch
  BY <1>1, Zenon DEF FromPowerOff, FromPulseLatch
<1>11. CASE FromTestLatch
  <2>1. tv' \in {"Countdown", "PowerOff"} /\ timed' \in BOOLEAN /\ To(tv')
    BY <1>11, Zenon DEF FromTestLatch
  <2> QED  BY <1>11, <2>1, Zenon DEF FromTestLatch
<1>2. CASE CountdownAborted
  BY <1>2 DEF CountdownAborted
<1>3. CASE CountdownEnds(conf)
  <2>1. fired' \in 0 .. 2
    BY <1>3 DEF CountdownEnds
  <2>2. relay' \in BOOLEAN
    BY <1>3, Zenon DEF CountdownEnds
  <2> QED  BY <1>3, <2>1, <2>2, Zenon DEF CountdownEnds
<1>4. CASE FromRelayOn(conf)
  BY <1>4 DEF FromRelayOn
<1>5. CASE FromIRReady(conf)
  BY <1>5 DEF FromIRReady
<1>6. CASE FromIRWaiting
  BY <1>6 DEF FromIRWaiting
<1>7. CASE FromIRSending(conf)
  <2>1. irIndex' \in Nat
    BY <1>7 DEF FromIRSending
  <2>2. tv' \in {"IRReady", "PowerOn"} /\ To(tv')
    BY <1>7 DEF FromIRSending
  <2> QED  BY <1>7, <2>1, <2>2 DEF FromIRSending
<1>8. CASE PowerLost \/ FromPicoBoot
  <2>1. tv' \in {"PowerOff", "PowerOn"} /\ To(tv')
    BY <1>8 DEF PowerLost, FromPicoBoot
  <2>2. /\ power' = power /\ latch' = latch /\ setPin' = setPin /\ irIndex' = irIndex
        /\ relay' = relay /\ ir' = ir /\ fired' = fired /\ timed' = FALSE
    BY <1>8 DEF PowerLost, FromPicoBoot
  <2> QED  BY <2>1, <2>2, Zenon
<1>9. CASE NotYet
  BY <1>9 DEF NotYet
<1>10. CASE Early(f /\ conf.present)
  BY <1>10 DEF Early, tvonVars, tvVars
<1> QED  BY <1>1, <1>2, <1>3, <1>4, <1>5, <1>6, <1>7, <1>8, <1>9,
         <1>10, <1>11 DEF TVOnTask, Advance

\* The section in use is one of the constant's.
LEMMA ConfType ==
    ASSUME TypeOK
    PROVE  Conf \in Section
BY SectionsAssumption DEF TypeOK, Modes, Conf

\* The state is well formed when power comes on.
LEMMA TypeInit == Init => TypeOK
<1>1. InitTVOn => TVOnTypeOK
  BY SmallNumbers, Zenon DEF InitTVOn, TVOnTypeOK, Garbage, States, TransitionalStates
<1> QED  BY <1>1, SmallNumbers, Zenon DEF Init, TypeOK, Modes, Unknown, None, Subcommands, Loop

\* Every step leaves it well formed.
LEMMA TypeStep == TypeOK /\ [Next]_vars => TypeOK'
<1> SUFFICES ASSUME TypeOK, [Next]_vars
             PROVE  TypeOK'
  OBVIOUS
<1> USE DEF hungVars
<1>1. CASE Boot
  BY <1>1 DEF Boot, Loaded, Degraded, TypeOK, TVOnTypeOK, tvonVars, outside, tvVars, Modes
<1>2. CASE Configure
  <2>1. TVOnTypeOK'
    BY <1>2 DEF Configure, ConfigureTVOn, InitialState, TypeOK, TVOnTypeOK, outside,
                States, TransitionalStates
  <2> QED  BY <1>2, <2>1 DEF Configure, TypeOK, Loop
<1>3. CASE ResetTask
  <2>1. CASE CanReset
    <3>1. PerformReset(bootLoader, nextMode)
      BY <1>3, <2>1 DEF ResetTask
    <3>2. EndSession(TRUE) /\ at' \in {"start", "rom"} /\ DidNotHang
      BY <3>1, Zenon DEF PerformReset
    <3>3. nextMode' \in Modes \cup {Unknown}
      BY <3>1 DEF PerformReset, TypeOK
    <3> QED  BY <3>2, <3>3, EndSessionType
  <2>2. CASE ~ CanReset
    BY <1>3, <2>2 DEF ResetTask, Goto, TypeOK, TVOnTypeOK, tvonVars, outside, tvVars, Loop
  <2> QED  BY <2>1, <2>2
<1>4. CASE VendorReset \/ DeferredDropped \/ VendorIdle \/ ButtonIdle \/ EndOfLoop
  BY <1>4 DEF VendorReset, DeferredDropped, VendorIdle, ButtonIdle, EndOfLoop, Goto,
              TypeOK, TVOnTypeOK, tvonVars, outside, tvVars, Loop
<1>5. CASE DeferredReboot
  <2>1. deferred \in BootModes /\ "button" \in Loop /\ Reboot(deferred, "button", None)
    BY <1>5 DEF DeferredReboot, Cases, BootModes, Modes, Loop
  <2> QED  BY <2>1, RebootType
<1>6. CASE ButtonReset
  <2>1. PICK m \in BootModes : Reboot(m, "tvon", deferred)
    BY <1>6 DEF ButtonReset
  <2>2. "tvon" \in Loop /\ deferred \in Subcommands \cup {None}
    BY DEF Loop, TypeOK
  <2> QED  BY <2>1, <2>2, RebootType
<1>7. CASE TVOnStep
  <2>1. TVOnTypeOK'
    BY <1>7, TaskType, ConfType DEF TVOnStep, TypeOK
  <2> QED  BY <1>7, <2>1 DEF TVOnStep, TypeOK, Loop
<1>8. CASE BecomeStable
  BY <1>8 DEF BecomeStable, TypeOK, TVOnTypeOK, tvonVars, outside, tvVars, Loop, Modes
<1>9. CASE Hang \/ HardFault \/ PowerCycle
  <2>1. \E keep \in BOOLEAN : EndSession(keep)
    BY <1>9 DEF Hang, HardFault, PowerCycle
  <2>2. at' = "start" /\ nextMode' \in Modes \cup {Unknown}
    BY <1>9 DEF Hang, HardFault, PowerCycle, TypeOK, Modes
  <2>3. DidNotHang \/ (hungIn' \in Modes \cup {None} /\ asked' \in Modes \cup {Unknown, None})
    BY <1>9 DEF Hang, HardFault, PowerCycle, TypeOK
  <2> QED  BY <2>1, <2>2, <2>3, EndSessionType
<1>10. CASE Environment
  <2>1. TVOnTypeOK'
    <3> USE DEF TypeOK, TVOnTypeOK, tvVars, outside
    <3>1. CASE PowerOn
      BY <3>1, SmallNumbers, Zenon DEF PowerOn
    <3>2. CASE PowerOff
      BY <3>2 DEF PowerOff
    <3>3. CASE IRBusy \/ IRIdle
      <4>1. /\ power' = power /\ latch' = latch /\ setPin' = setPin /\ tv' = tv
            /\ timed' = timed /\ irIndex' = irIndex /\ relay' = relay
            /\ locked' = locked /\ savedTV' = savedTV /\ fired' = fired
        BY <3>3 DEF IRBusy, IRIdle
      <4>2. ir' \in BOOLEAN
        BY <3>3, Zenon DEF IRBusy, IRIdle
      <4> QED  BY <4>1, <4>2, Zenon
    <3> QED  BY <1>10, <3>1, <3>2, <3>3 DEF Environment
  <2> QED  BY <1>10, <2>1 DEF Environment, bootVars, TypeOK
<1>11. CASE UNCHANGED vars
  BY <1>11 DEF vars, bootVars, tvonVars, outside, tvVars, TypeOK, TVOnTypeOK
<1> QED  BY <1>1, <1>2, <1>3, <1>4, <1>5, <1>6, <1>7, <1>8, <1>9, <1>10, <1>11 DEF Next

\* Every variable keeps its type, whatever order resets, crashes and the TV's
\* supply come in, and the boot mode register holds a mode or what power-up left.
THEOREM TypeInvariant == Spec => []TypeOK
BY TypeInit, TypeStep, PTL DEF Spec

-----------------------------------------------------------------------------
(***************************************************************************)
(* Boot modes.  The register says what to boot in if this session crashes  *)
(* early, until it becomes stable or a reset is asked for.                 *)
(***************************************************************************)
BootInv ==
    /\ at = "start" /\ hungIn # None =>
         nextMode = IF asked # None THEN asked ELSE Degraded(hungIn)
    /\ hungIn \in Modes \cup {None} /\ asked \in Modes \cup {None}
    /\ Running => nextMode \in Modes
    /\ Running /\ ~ stable /\ ~ pending => nextMode = Degraded(mode)
    /\ HungConfigNotReloaded

\* A session that ends with anything but an early hang leaves nothing to be avoided.
LEMMA NothingHung ==
    ASSUME DidNotHang, at' \in {"start", "rom"}
    PROVE  BootInv'
BY DEF DidNotHang, BootInv, HungConfigNotReloaded, Running, Loop

\* A step within a session changes none of it, or the mode stored for the next one.
LEMMA SessionGoesOn ==
    ASSUME BootInv, at \in Loop \cup {"configure"}, at' \in Loop,
           UNCHANGED <<mode, hungIn, asked>>, nextMode' \in Modes,
           UNCHANGED <<nextMode, stable, pending>> \/ stable' \/ pending'
    PROVE  BootInv'
BY DEF BootInv, HungConfigNotReloaded, Running, Loop

\* After a run that hung, the mode stored for the next one is a step further down, or
\* the one that was asked for.
LEMMA BootStep == TypeOK /\ BootInv /\ [Next]_vars => BootInv'
<1> SUFFICES ASSUME TypeOK, BootInv, [Next]_vars
             PROVE  BootInv'
  OBVIOUS
<1>1. mode \in Modes /\ (Running => nextMode \in Modes)
  BY DEF TypeOK, BootInv
<1>2. CASE Boot
  <2>1. /\ at = "start" /\ at' = "configure" /\ mode' = Loaded(nextMode)
        /\ nextMode' = Degraded(nextMode) /\ UNCHANGED <<hungIn, asked>>
    BY <1>2 DEF Boot, hungVars
  <2>2. nextMode' = Degraded(mode') /\ nextMode' \in Modes
    BY <2>1 DEF Loaded, Degraded, Modes
  <2>3. ASSUME hungIn # None
        PROVE  IF asked # None THEN mode' = asked
               ELSE mode' # "Normal" /\ (hungIn # "Normal" => mode' = "FactoryMode")
    <3>1. hungIn \in Modes /\ asked \in Modes \cup {None}
      BY <2>3 DEF BootInv
    <3>2. CASE asked # None
      <4>1. nextMode = asked /\ asked \in Modes
        BY <2>1, <2>3, <3>1, <3>2 DEF BootInv
      <4> QED  BY <2>1, <3>2, <4>1 DEF Loaded, Modes
    <3>3. CASE asked = None
      <4>1. nextMode = Degraded(hungIn)
        BY <2>1, <2>3, <3>3 DEF BootInv
      <4> QED  BY <2>1, <3>1, <3>3, <4>1 DEF Loaded, Degraded, Modes
    <3> QED  BY <3>2, <3>3
  <2> QED  BY <2>1, <2>2, <2>3 DEF BootInv, HungConfigNotReloaded
<1>3. CASE Configure \/ TVOnStep
  BY <1>1, <1>3, SessionGoesOn DEF Configure, TVOnStep, hungVars, Loop, Running
<1>4. ASSUME NEW m, NEW n, PerformReset(m, n)
      PROVE  BootInv'
  <2>1. DidNotHang /\ at' \in {"start", "rom"}
    BY <1>4, Zenon DEF PerformReset
  <2> QED  BY <2>1, NothingHung
<1>5. CASE ResetTask
  <2>1. CASE CanReset
    BY <1>4, <1>5, <2>1 DEF ResetTask
  <2>2. CASE ~ CanReset
    BY <1>1, <1>5, <2>2, SessionGoesOn DEF ResetTask, Goto, hungVars, Loop, Running
  <2> QED  BY <2>1, <2>2
<1>6. CASE VendorReset \/ DeferredDropped \/ VendorIdle \/ ButtonIdle \/ EndOfLoop
  BY <1>1, <1>6, SessionGoesOn DEF VendorReset, DeferredDropped, VendorIdle, ButtonIdle,
     EndOfLoop, Goto, hungVars, Loop, Running
<1>7. CASE DeferredReboot \/ ButtonReset
  <2>1. ASSUME NEW m \in BootModes, NEW then \in Loop, NEW d, at \in Loop, Reboot(m, then, d)
        PROVE  BootInv'
    <3>1. Stored(m) \in Modes
      BY DEF Stored, BootModes, Modes
    <3>2. CASE locked
      <4>1. PutOff(m = "loader", Stored(m), then)
        BY <2>1, <3>2 DEF Reboot
      <4>2. /\ at' \in Loop /\ pending' /\ nextMode' \in Modes
            /\ UNCHANGED <<mode, hungIn, asked>>
        BY <2>1, <3>1, <4>1 DEF PutOff, hungVars
      <4> QED  BY <2>1, <4>2, SessionGoesOn
    <3>3. CASE ~ locked
      BY <1>4, <2>1, <3>3 DEF Reboot
    <3> QED  BY <3>2, <3>3
  <2>2. CASE DeferredReboot
    BY <2>1, <2>2 DEF DeferredReboot, Cases, BootModes, Modes, Loop
  <2>3. CASE ButtonReset
    BY <2>1, <2>3 DEF ButtonReset, Loop
  <2> QED  BY <1>7, <2>2, <2>3
<1>8. CASE BecomeStable
  BY <1>8, SessionGoesOn DEF BecomeStable, hungVars, Loop, Modes
<1>9. CASE Hang
  <2>1. /\ Running /\ at' = "start" /\ nextMode' = nextMode
        /\ hungIn' = IF stable THEN None ELSE mode
        /\ asked' = IF pending /\ ~ stable THEN nextMode ELSE None
    BY <1>9 DEF Hang
  <2>2. nextMode \in Modes /\ None \notin Modes
    BY <1>1, <2>1 DEF Modes, None
  <2>3. ~ stable /\ ~ pending => nextMode = Degraded(mode)
    BY <2>1 DEF BootInv
  <2>4. CASE stable
    BY <2>1, <2>4 DEF BootInv, HungConfigNotReloaded, Running, Loop
  <2>5. CASE ~ stable /\ pending
    BY <1>1, <2>1, <2>2, <2>5 DEF BootInv, HungConfigNotReloaded, Running, Loop
  <2>6. CASE ~ stable /\ ~ pending
    BY <1>1, <2>1, <2>2, <2>3, <2>6 DEF BootInv, HungConfigNotReloaded, Running, Loop
  <2> QED  BY <2>4, <2>5, <2>6
<1>10. CASE HardFault \/ PowerCycle
  BY <1>10, NothingHung DEF HardFault, PowerCycle
<1>11. CASE Environment \/ UNCHANGED vars
  BY <1>11 DEF Environment, vars, bootVars, BootInv, HungConfigNotReloaded, Running
<1> QED  BY <1>2, <1>3, <1>5, <1>6, <1>7, <1>8, <1>9, <1>10, <1>11 DEF Next

\* A configuration that hangs early is not loaded by the next session, and after another
\* one than the normal one none is (Main.cpp's boot mode selection), whatever faults and
\* states of the TV-ON sequencer lie between; except where a reset was being put off
\* when it hung, which comes up in the mode that was asked for.
THEOREM HungConfigurationLeftBehind == Spec => []HungConfigNotReloaded
<1>1. Init => BootInv
  <2> SUFFICES ASSUME Init  PROVE BootInv
    OBVIOUS
  <2>1. at = "start" /\ hungIn = None /\ asked = None
    BY DEF Init
  <2> QED  BY <2>1 DEF BootInv, HungConfigNotReloaded, Running, Loop
<1>2. BootInv => HungConfigNotReloaded
  BY DEF BootInv
<1> QED  BY <1>1, <1>2, TypeInvariant, BootStep, PTL DEF Spec

-----------------------------------------------------------------------------
(***************************************************************************)
(* The relay.  Once it has gone on, the latch is set for as long as the TV *)
(* supply is on, and both the state and the one in the registers are past  *)
(* the countdown, or are sent past it by the test of the latch at boot.    *)
(***************************************************************************)
Passed == {"RelayOn", "IRReady", "IRWaiting", "IRSending", "PowerOn", "PicoBoot"}

FiredInv ==
    /\ fired \in {0, 1}
    /\ fired = 1 /\ power => latch /\ tv \in Passed /\ savedTV \in Passed \cup {Garbage}

\* The sequencer's step, from any section.
LEMMA TaskFires ==
    ASSUME TVOnTypeOK, FiredInv, NEW conf \in Section, NEW f \in BOOLEAN, TVOnTask(conf, f)
    PROVE  FiredInv'
<1> USE DEF FiredInv, TVOnTypeOK, To, NoPins, WriteSetPin, outside, Passed
<1>1. CASE FromPowerOff \/ FromPulseLatch \/ FromTestLatch
  BY <1>1 DEF FromPowerOff, FromPulseLatch, FromTestLatch
<1>2. CASE CountdownAborted
  BY <1>2 DEF CountdownAborted
<1>3. CASE CountdownEnds(conf)
  BY <1>3 DEF CountdownEnds
<1>4. CASE FromRelayOn(conf)
  BY <1>4 DEF FromRelayOn
<1>5. CASE FromIRReady(conf)
  BY <1>5 DEF FromIRReady
<1>6. CASE FromIRWaiting
  BY <1>6 DEF FromIRWaiting
<1>7. CASE FromIRSending(conf)
  BY <1>7 DEF FromIRSending
<1>8. CASE PowerLost \/ FromPicoBoot
  BY <1>8 DEF PowerLost, FromPicoBoot
<1>9. CASE NotYet
  BY <1>9 DEF NotYet
<1>10. CASE Early(f /\ conf.present)
  BY <1>10 DEF Early, tvonVars, tvVars
<1> QED  BY <1>1, <1>2, <1>3, <1>4, <1>5, <1>6, <1>7, <1>8, <1>9, <1>10 DEF TVOnTask, Advance

\* Once the relay has fired, the latch and the state of the sequencer show it.
LEMMA FiredStep == TypeOK /\ FiredInv /\ [Next]_vars => FiredInv'
<1> SUFFICES ASSUME TypeOK, FiredInv, [Next]_vars
             PROVE  FiredInv'
  OBVIOUS
<1>1. CASE TVOnStep
  BY <1>1, TaskFires, ConfType DEF TVOnStep, TypeOK
<1>2. CASE Configure
  BY <1>2 DEF Configure, ConfigureTVOn, InitialState, FiredInv, Passed, States,
              TransitionalStates, Garbage, outside
<1>3. ASSUME NEW keep, EndSession(keep)
      PROVE  FiredInv'
  BY <1>3 DEF EndSession, ResetTVOn, FiredInv, Passed, outside
<1>4. CASE UNCHANGED tvonVars
  BY <1>4 DEF tvonVars, outside, tvVars, FiredInv
<1>5. CASE ResetTask
  BY <1>3, <1>4, <1>5 DEF ResetTask, PerformReset, Goto
<1>6. CASE DeferredReboot \/ ButtonReset
  <2>1. \E m, d, then : Reboot(m, then, d)
    BY <1>6 DEF DeferredReboot, ButtonReset
  <2> QED  BY <1>3, <1>4, <2>1 DEF Reboot, PerformReset, PutOff
<1>7. CASE Hang \/ HardFault \/ PowerCycle
  BY <1>3, <1>7 DEF Hang, HardFault, PowerCycle
<1>8. CASE Boot \/ VendorReset \/ DeferredDropped \/ VendorIdle \/ ButtonIdle \/ EndOfLoop
           \/ BecomeStable \/ UNCHANGED vars
  BY <1>4, <1>8 DEF Boot, VendorReset, DeferredDropped, VendorIdle, ButtonIdle, EndOfLoop,
                    BecomeStable, Goto, vars
<1>9. CASE Environment
  BY <1>9 DEF Environment, PowerOn, PowerOff, IRBusy, IRIdle, FiredInv, outside, tvVars
<1> QED  BY <1>1, <1>2, <1>5, <1>6, <1>7, <1>8, <1>9 DEF Next

\* The relay goes on at most once while the TV supply stays on (TVON::Task), also
\* when a reset in the middle of the sequence restores the state from the scratch
\* registers, into a configuration that may be another.
THEOREM RelayOnce == Spec => []FiredOnce
<1>1. Init => FiredInv
  BY DEF Init, InitTVOn, FiredInv
<1>2. FiredInv => FiredOnce
  BY DEF FiredInv, FiredOnce
<1> QED  BY <1>1, <1>2, TypeInvariant, FiredStep, PTL DEF Spec

-----------------------------------------------------------------------------
(***************************************************************************)
(* The lock.  From the sequencer's first call of a session to its end, the *)
(* lock is set in every state that a reset must not interrupt.             *)
(***************************************************************************)
LockInv ==
    /\ at \in {"start", "configure"} => first
    /\ at \in Loop /\ ~ first /\ Conf.present => locked \/ tv \in {"PowerOn", "PowerOff"}

\* A call of a sequencer that is configured leaves the lock as the new state needs it.
LEMMA TaskLocks ==
    ASSUME TVOnTypeOK, NEW conf \in Section, conf.present, NEW f \in BOOLEAN,
           TVOnTask(conf, f), ~ f => locked \/ tv \in {"PowerOn", "PowerOff"}
    PROVE  locked' \/ tv' \in {"PowerOn", "PowerOff"}
<1>1. ASSUME NEW s, To(s)
      PROVE  locked' \/ tv' \in {"PowerOn", "PowerOff"}
  BY <1>1 DEF To, Lockable
<1>2. CASE Advance(conf)
  BY <1>1, <1>2 DEF Advance, FromPowerOff, FromPulseLatch, FromTestLatch, CountdownAborted,
                    CountdownEnds, FromRelayOn, FromIRReady, FromIRWaiting, FromIRSending,
                    PowerLost, FromPicoBoot
<1>3. CASE NotYet
  BY <1>1, <1>3 DEF NotYet
<1>4. CASE Early(f /\ conf.present)
  BY <1>4 DEF Early, tvonVars, tvVars
<1> QED  BY <1>2, <1>3, <1>4 DEF TVOnTask

\* Every step keeps the locks honoured.
LEMMA LockStep == TypeOK /\ LockInv /\ [Next]_vars => LockInv'
<1> SUFFICES ASSUME TypeOK, LockInv, [Next]_vars
             PROVE  LockInv'
  OBVIOUS
<1>1. CASE TVOnStep
  <2>1. mode' = mode /\ at' = "end" /\ first \in BOOLEAN /\ TVOnTask(Conf, first)
    BY <1>1 DEF TVOnStep, TypeOK
  <2>2. Conf' = Conf
    BY <2>1 DEF Conf
  <2>3. Conf.present /\ ~ first => locked \/ tv \in {"PowerOn", "PowerOff"}
    BY <1>1 DEF TVOnStep, LockInv, Loop
  <2>4. Conf.present => locked' \/ tv' \in {"PowerOn", "PowerOff"}
    BY <2>1, <2>3, TaskLocks, ConfType DEF TypeOK
  <2> QED  BY <2>1, <2>2, <2>4 DEF LockInv
<1>2. CASE Configure
  BY <1>2 DEF Configure, LockInv
<1>3. ASSUME first', at' \in {"start", "rom", "configure"}
      PROVE  LockInv'
  BY <1>3 DEF LockInv, Loop
<1>4. ASSUME at \in Loop, at' \in Loop, mode' = mode, first' = first, UNCHANGED tvonVars
      PROVE  LockInv'
  BY <1>4 DEF LockInv, Conf, tvonVars, tvVars, Loop
<1>5. CASE Boot
  BY <1>3, <1>5 DEF Boot, LockInv
<1>6. CASE ResetTask
  BY <1>3, <1>4, <1>6 DEF ResetTask, PerformReset, EndSession, Goto, Loop
<1>7. ASSUME NEW m, NEW then \in Loop, NEW d, at \in Loop, Reboot(m, then, d)
      PROVE  LockInv'
  <2>1. CASE locked
    BY <1>4, <1>7, <2>1 DEF Reboot, PutOff
  <2>2. CASE ~ locked
    BY <1>3, <1>7, <2>2 DEF Reboot, PerformReset, EndSession
  <2> QED  BY <2>1, <2>2
<1>8. CASE DeferredReboot \/ ButtonReset
  BY <1>7, <1>8 DEF DeferredReboot, ButtonReset, Loop
<1>9. CASE VendorReset \/ DeferredDropped \/ VendorIdle \/ ButtonIdle \/ EndOfLoop
           \/ BecomeStable
  BY <1>4, <1>9 DEF VendorReset, DeferredDropped, VendorIdle, ButtonIdle, EndOfLoop,
                    BecomeStable, Goto, Loop
<1>10. CASE Hang \/ HardFault \/ PowerCycle
  BY <1>3, <1>10 DEF Hang, HardFault, PowerCycle, EndSession
<1>11. CASE Environment
  <2>1. tv' = tv /\ locked' = locked
    BY <1>11 DEF Environment, PowerOn, PowerOff, IRBusy, IRIdle, tvVars
  <2> QED  BY <1>11, <2>1 DEF Environment, bootVars, LockInv, Conf
<1>12. CASE UNCHANGED vars
  BY <1>12 DEF vars, bootVars, tvonVars, tvVars, LockInv, Conf
<1> QED  BY <1>1, <1>2, <1>5, <1>6, <1>8, <1>9, <1>10, <1>11, <1>12 DEF Next

\* A reset that the host, a button or the console asks for never interrupts the
\* TV-ON sequence (TVON::Task's lock and PicoReset::TryReset), from the sequencer's
\* first call of the session on.
THEOREM SequenceUninterrupted == Spec => SequenceNotInterrupted
<1>1. Init => LockInv
  BY DEF Init, LockInv, Loop
<1>2. LockInv /\ [Next]_vars =>
        [(ResetTask \/ DeferredReboot \/ ButtonReset) /\ at' \in {"start", "rom"}
            => first \/ ~ Conf.present \/ tv \in {"PowerOn", "PowerOff"}]_vars
  <2> SUFFICES ASSUME LockInv, at' \in {"start", "rom"},
                      ResetTask \/ DeferredReboot \/ ButtonReset
               PROVE  first \/ ~ Conf.present \/ tv \in {"PowerOn", "PowerOff"}
    OBVIOUS
  <2>1. ~ locked
    BY DEF ResetTask, CanReset, Goto, DeferredReboot, ButtonReset, Reboot, PutOff
  <2>2. at \in Loop
    BY DEF ResetTask, DeferredReboot, ButtonReset, Loop
  <2> QED  BY <2>1, <2>2 DEF LockInv
<1> QED  BY <1>1, <1>2, TypeInvariant, LockStep, PTL DEF Spec, SequenceNotInterrupted
=============================================================================
