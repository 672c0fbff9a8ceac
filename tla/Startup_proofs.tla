--------------------------- MODULE Startup_proofs ---------------------------
(***************************************************************************)
(* Proofs about Startup for every number of pins, every set of             *)
(* configuration files and any number of failures.                         *)
(***************************************************************************)
EXTENDS Startup, TLAPS

\* A file that passes the checks of piduier_config_load gives every pin a target
\* that gpio_apply_pinctrl_config accepts, and so every accepted configuration
\* can be applied: the second check of the targets never fails.
LEMMA AcceptedTargets ==
  ASSUME NEW f, Accepted(f)
  PROVE  Load(f).pinctrl \in [Pins -> Funcs]
<1>1. \A p \in Pins : Lookup(f.pinctrl, Plain(p)) \in Funcs
  BY DEF Accepted, ValidPinctrl, ValidFunc
<1>2. Targets(f.pinctrl) \in [Pins -> Funcs]
  BY <1>1 DEF Targets
<1>3. Load(f).pinctrl = Targets(f.pinctrl)
  BY DEF Load
<1>4. QED
  BY <1>2, <1>3

-----------------------------------------------------------------------------
(* The inductive invariant. *)

\* What the process holds at each point, and who will give it back.
HeldInv ==
  /\ pc \in {"none", "load"} => ~ini /\ ~zlog
  /\ pc = "log" => ~zlog
  /\ pc \in {"read", "apply", "listen", "serve"} => hook

\* The configuration that the process works from has passed the checks.
ConfigInv ==
  pc \in {"log", "read", "apply", "listen", "serve"} =>
    cfg.pinctrl \in [Pins -> Funcs]

\* Half way through the pins: those before `next` are as configured, the others
\* are as they were read.
PinsInv ==
  /\ pc = "apply" =>
       /\ current \in [Pins -> Funcs]
       /\ \A p \in Pins \ disturbed :
            pins[p] = IF p < next THEN cfg.pinctrl[p] ELSE current[p]
  /\ pc \in {"listen", "serve"} =>
       \A p \in Pins \ disturbed : pins[p] = cfg.pinctrl[p]

Inv == TypeOK /\ HeldInv /\ ConfigInv /\ PinsInv /\ FailsForACause

LEMMA InvInit == Init => Inv
<1> SUFFICES ASSUME Init PROVE Inv
  OBVIOUS
<1>1. TypeOK
  <2>1. next \in 0 .. NumPins /\ faults \in 0 .. MaxFaults
    BY NumPinsAssumption, MaxFaultsAssumption DEF Init, Fresh
  <2>2. {portFree, ini, zlog, hook, monitor, listening, failed} \subseteq BOOLEAN
    BY DEF Init, Fresh
  <2>3. QED
    BY <2>1, <2>2 DEF Init, Fresh, TypeOK
<1>2. HeldInv /\ ConfigInv /\ PinsInv /\ FailsForACause
  BY DEF Init, Fresh, HeldInv, ConfigInv, PinsInv, FailsForACause
<1>3. QED
  BY <1>1, <1>2 DEF Inv

-----------------------------------------------------------------------------
(* Every action preserves it. *)

Ends == {"none", "load"}   \* nothing held and nothing promised yet

\* A process that starts, or that is taken away by a signal or by its options.
LEMMA WipeInv ==
  ASSUME Inv, Wipe, pc' \in Ends, status' \in {"none", "success", "failure"},
         unit' \in {"on", "off", "hand"}, faults' \in 0 .. MaxFaults,
         failed' \in BOOLEAN, disturbed' \subseteq Pins,
         UNCHANGED <<file, pins, portFree>>
  PROVE  Inv'
<1> USE NumPinsAssumption DEF Inv, Wipe, Ends
<1>1. TypeOK'
  <2>1. next' \in 0 .. NumPins
    OBVIOUS
  <2>2. {portFree, ini, zlog, hook, monitor, listening, failed}' \subseteq BOOLEAN
    BY DEF TypeOK
  <2>3. QED
    BY <2>1, <2>2 DEF TypeOK
<1>2. HeldInv' /\ ConfigInv' /\ PinsInv'
  BY DEF HeldInv, ConfigInv, PinsInv
<1>3. FailsForACause'
  BY DEF FailsForACause
<1>4. QED
  BY <1>1, <1>2, <1>3

LEMMA StartsAndStops ==
  ASSUME Inv,
         \/ SystemctlStart \/ Restart \/ Stop \/ Kill
         \/ \E args \in {"config", "help", "version", "bad"} : RunByHand(args)
  PROVE  Inv'
<1> USE DEF Inv, TypeOK, Ends
<1>1. CASE SystemctlStart \/ Restart
  BY <1>1, WipeInv DEF SystemctlStart, Restart, Begin, machine
<1>2. CASE Stop
  BY <1>2, WipeInv DEF Stop, history
<1>3. CASE Kill
  BY <1>3, WipeInv, MaxFaultsAssumption DEF Kill, Fault
<1>4. ASSUME NEW args \in {"config", "help", "version", "bad"}, RunByHand(args)
      PROVE  Inv'
  BY <1>4, WipeInv DEF RunByHand, Begin
<1>5. QED
  BY <1>1, <1>2, <1>3, <1>4

LEMMA LoadConfigInv == Inv /\ LoadConfig => Inv'
<1> SUFFICES ASSUME Inv, LoadConfig PROVE Inv'
  OBVIOUS
<1> USE DEF Inv, LoadConfig, Goto, machine, history
<1>1. cfg' = Load(file) /\ file \in Files
  BY DEF TypeOK
<1>2. CASE Accepted(file)
  <2>1. ini' = TRUE /\ pc' = "log" /\ status' = status
    BY <1>2
  <2>2. TypeOK'
    BY <1>1, <2>1 DEF TypeOK
  <2>3. HeldInv'
    BY <2>1 DEF HeldInv
  <2>4. ConfigInv'
    BY <1>1, <1>2, AcceptedTargets DEF ConfigInv
  <2>5. PinsInv' /\ FailsForACause'
    BY <2>1 DEF PinsInv, FailsForACause
  <2>6. QED
    BY <2>2, <2>3, <2>4, <2>5
<1>3. CASE ~Accepted(file)
  <2>1. ini' = FALSE /\ pc' = "none" /\ status' = "failure"
    BY <1>3
  <2>2. TypeOK'
    BY <1>1, <2>1 DEF TypeOK
  <2>3. HeldInv' /\ ConfigInv' /\ PinsInv'
    BY <2>1 DEF HeldInv, ConfigInv, PinsInv
  <2>4. FailsForACause'
    BY <1>1, <1>3 DEF FailsForACause, Load
  <2>5. QED
    BY <2>2, <2>3, <2>4
<1>4. QED
  BY <1>2, <1>3

LEMMA LogInitInv == Inv /\ (LogInit \/ LogInitFails) => Inv'
<1> SUFFICES ASSUME Inv, LogInit \/ LogInitFails PROVE Inv'
  OBVIOUS
<1> USE DEF Inv, LogInit, LogInitFails, Goto, Fault, machine, history
<1>1. TypeOK'
  <2>1. /\ pc' \in {"read", "none"} /\ status' \in {"none", "success", "failure"}
        /\ faults' \in 0 .. MaxFaults
    BY MaxFaultsAssumption DEF TypeOK
  <2>2. {portFree, ini, zlog, hook, monitor, listening, failed}' \subseteq BOOLEAN
    <3>1. CASE LogInit
      BY <3>1 DEF TypeOK
    <3>2. CASE LogInitFails
      BY <3>2 DEF TypeOK
    <3>3. QED
      BY <3>1, <3>2
  <2>3. QED
    BY <2>1, <2>2 DEF TypeOK
<1>2. HeldInv' /\ ConfigInv' /\ PinsInv' /\ FailsForACause'
  BY DEF HeldInv, ConfigInv, PinsInv, FailsForACause, TypeOK
<1>3. QED
  BY <1>1, <1>2

\* The way out through the exit hook, after a failure.
LEMMA ExitInv ==
  ASSUME Inv, pc \in {"read", "apply"}, Fault, Exit("failure"),
         UNCHANGED <<file, pins, portFree, unit, disturbed>>
  PROVE  Inv'
<1> USE DEF Inv, Fault, Exit
<1>1. hook /\ zlog' = FALSE /\ ini' = FALSE
  BY DEF HeldInv, TypeOK
<1>2. TypeOK'
  BY <1>1, MaxFaultsAssumption DEF TypeOK
<1>3. HeldInv' /\ ConfigInv' /\ PinsInv' /\ FailsForACause'
  BY <1>1 DEF HeldInv, ConfigInv, PinsInv, FailsForACause
<1>4. QED
  BY <1>2, <1>3

LEMMA ReadFunctionsInv == Inv /\ ReadFunctions => Inv'
<1> SUFFICES ASSUME Inv, ReadFunctions PROVE Inv'
  OBVIOUS
<1> USE DEF Inv, ReadFunctions, Goto, machine, memory
<1>1. \A p \in Pins : cfg.pinctrl[p] \in Funcs
  BY DEF ConfigInv
<1>2. /\ pc' = "apply" /\ status' = status
      /\ current' = pins /\ next' = 0 /\ disturbed' = {}
      /\ UNCHANGED <<cfg, ini, zlog, hook, monitor, listening, failed>>
      /\ UNCHANGED <<file, pins, portFree, unit, faults>>
  BY <1>1
<1>3. TypeOK'
  BY <1>2, NumPinsAssumption DEF TypeOK
<1>4. HeldInv' /\ ConfigInv' /\ FailsForACause'
  BY <1>2 DEF HeldInv, ConfigInv, FailsForACause
<1>5. PinsInv'
  BY <1>2 DEF PinsInv, TypeOK, Pins
<1>6. QED
  BY <1>3, <1>4, <1>5

LEMMA CorrectPinInv == Inv /\ CorrectPin => Inv'
<1> SUFFICES ASSUME Inv, CorrectPin PROVE Inv'
  OBVIOUS
<1> USE NumPinsAssumption DEF Inv
<1>1. next \in Pins /\ next' = next + 1 /\ next' \in 0 .. NumPins
  BY DEF CorrectPin, TypeOK, Pins
<1>2. /\ pc = "apply"
      /\ UNCHANGED <<file, portFree, unit, faults, pc, status, cfg, ini, zlog, hook,
                     current, monitor, listening, failed>>
  BY DEF CorrectPin, memory
<1>3. cfg.pinctrl \in [Pins -> Funcs] /\ pins \in [Pins -> Funcs]
  BY <1>2 DEF ConfigInv, TypeOK
<1>4. pins' \in [Pins -> Funcs] /\ disturbed' \subseteq Pins
  BY <1>1, <1>3 DEF CorrectPin, TypeOK
<1>5. TypeOK'
  BY <1>1, <1>2, <1>4 DEF TypeOK
<1>6. HeldInv' /\ ConfigInv' /\ FailsForACause'
  BY <1>2 DEF HeldInv, ConfigInv, FailsForACause
<1>7. PinsInv'
  <2>1. ASSUME NEW p \in Pins \ disturbed'
        PROVE  pins'[p] = IF p < next' THEN cfg.pinctrl[p] ELSE current[p]
    <3>1. CASE p = next
      \* Either it was read as right and nobody has set it since, or it is set now.
      <4>1. CASE IsRight(next)
        BY <1>1, <1>2, <2>1, <3>1, <4>1 DEF CorrectPin, PinsInv, IsRight, Pins
      <4>2. CASE ~IsRight(next)
        BY <1>1, <1>3, <3>1, <4>2 DEF CorrectPin, Pins
      <4>3. QED
        BY <4>1, <4>2
    <3>2. CASE p # next
      <4>1. p \in Pins \ disturbed /\ pins'[p] = pins[p]
        BY <1>1, <1>3, <2>1, <3>2 DEF CorrectPin
      <4>2. p \in Int /\ next \in Int
        BY <1>1 DEF Pins
      <4>3. p < next' <=> p < next
        BY <1>1, <3>2, <4>2
      <4>4. QED
        BY <1>2, <4>1, <4>3 DEF PinsInv
    <3>3. QED
      BY <3>1, <3>2
  <2>2. QED
    BY <1>2, <2>1 DEF PinsInv
<1>8. QED
  BY <1>5, <1>6, <1>7

LEMMA StartMonitorInv == Inv /\ StartMonitor => Inv'
<1> SUFFICES ASSUME Inv, StartMonitor PROVE Inv'
  OBVIOUS
<1> USE NumPinsAssumption DEF Inv, StartMonitor, Goto, machine, memory, history
<1>1. TypeOK'
  BY DEF TypeOK
<1>2. HeldInv' /\ ConfigInv' /\ FailsForACause'
  BY DEF HeldInv, ConfigInv, FailsForACause
<1>3. \A p \in Pins : p < next
  BY DEF Pins
<1>4. PinsInv'
  BY <1>3 DEF PinsInv
<1>5. QED
  BY <1>1, <1>2, <1>4

LEMMA ListenInv == Inv /\ Listen => Inv'
<1> SUFFICES ASSUME Inv, Listen PROVE Inv'
  OBVIOUS
<1> USE DEF Inv, Listen, Goto, machine, memory, history
<1>1. TypeOK'
  BY DEF TypeOK
<1>2. HeldInv' /\ ConfigInv' /\ PinsInv' /\ FailsForACause'
  BY DEF HeldInv, ConfigInv, PinsInv, FailsForACause
<1>3. QED
  BY <1>1, <1>2

LEMMA MachineInv == Inv /\ Machine => Inv'
<1> SUFFICES ASSUME Inv, Machine PROVE Inv'
  OBVIOUS
<1> USE DEF Inv
<1>1. ASSUME NEW p \in Pins, NEW func \in Funcs, OtherProcess(p, func)
      PROVE  Inv'
  <2> USE <1>1 DEF OtherProcess, process, memory
  <2>1. TypeOK'
    BY DEF TypeOK
  <2>2. HeldInv' /\ ConfigInv' /\ FailsForACause'
    BY DEF HeldInv, ConfigInv, FailsForACause
  <2>3. \A q \in Pins \ disturbed' : q \in Pins \ disturbed /\ pins'[q] = pins[q]
    BY DEF TypeOK
  <2>4. PinsInv'
    BY <2>3 DEF PinsInv
  <2>5. QED
    BY <2>1, <2>2, <2>4
<1>2. CASE PortTaken \/ \E new \in Files : Edit(new)
  <2> USE <1>2 DEF PortTaken, Edit, process, memory, history
  <2>1. TypeOK'
    BY DEF TypeOK
  <2>2. HeldInv' /\ ConfigInv' /\ PinsInv' /\ FailsForACause'
    BY DEF HeldInv, ConfigInv, PinsInv, FailsForACause
  <2>3. QED
    BY <2>1, <2>2
<1>3. QED
  BY <1>1, <1>2 DEF Machine

LEMMA InvNext == Inv /\ [Next]_vars => Inv'
<1> SUFFICES ASSUME Inv, [Next]_vars PROVE Inv'
  OBVIOUS
<1>1. CASE Program
  <2>1. CASE ReadFunctionsFails \/ CorrectPinFails
    BY <2>1, ExitInv DEF ReadFunctionsFails, CorrectPinFails
  <2>2. QED
    BY <1>1, <2>1, LoadConfigInv, LogInitInv, ReadFunctionsInv, CorrectPinInv,
       StartMonitorInv, ListenInv DEF Program
<1>2. CASE Machine
  BY <1>2, MachineInv
<1>3. CASE UNCHANGED vars
  BY <1>3 DEF vars, machine, process, memory, history, Inv, TypeOK, HeldInv,
              ConfigInv, PinsInv, FailsForACause
<1>4. QED
  BY <1>1, <1>2, <1>3, StartsAndStops DEF Next

LEMMA InvAlways == Spec => []Inv
BY InvInit, InvNext, PTL DEF Spec

-----------------------------------------------------------------------------
\* The process stays in the states that main can be in, whatever fails and
\* whatever the machine does.
THEOREM TypeCorrect == Spec => []TypeOK
<1>1. Inv => TypeOK
  BY DEF Inv
<1>2. QED
  BY <1>1, InvAlways, PTL

\* gpio_apply_pinctrl_config is done before the server listens: for any number of
\* pins, however often it was interrupted before, every pin is as configured but
\* those that others have set since it looked.
THEOREM PinsAreConfigured == Spec => []ServesConfiguredPins
<1>1. Inv => ServesConfiguredPins
  BY DEF Inv, PinsInv, ServesConfiguredPins
<1>2. QED
  BY <1>1, InvAlways, PTL

\* Whatever piduier_config_load accepts, gpio_apply_pinctrl_config accepts too: a
\* start that ends in failure has been given bad options or a bad file, or
\* something of the machine has failed.
THEOREM FailuresHaveACause == Spec => []FailsForACause
<1>1. Inv => FailsForACause
  BY DEF Inv
<1>2. QED
  BY <1>1, InvAlways, PTL

\* main and its exit hook between them free the text of the configuration and
\* close the log on every way out of the program.
THEOREM EverythingIsReleased == Spec => []ReleasesEverything
<1>1. Inv => ReleasesEverything
  BY DEF Inv, HeldInv, ReleasesEverything
<1>2. QED
  BY <1>1, InvAlways, PTL

=============================================================================
