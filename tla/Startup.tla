------------------------------ MODULE Startup ------------------------------
(***************************************************************************)
(* From the start of the process to its event loop: main.c, the            *)
(* configuration, the correction of the pins, and systemd, which starts    *)
(* the program again when it has failed.                                   *)
(*                                                                         *)
(* The functions of all pins are read once, by one `pinctrl get`, and then *)
(* corrected one by one with `pinctrl set`. Other processes of the machine *)
(* set pins too; any of the program's own pinctrl processes may fail, and  *)
(* the program may be killed between any two steps.                        *)
(***************************************************************************)
EXTENDS AppConfig

CONSTANTS
  Files,      \* what the configuration file may hold
  MaxFaults   \* bound on the failures of tools and on kills

ASSUME MaxFaultsAssumption == MaxFaults \in Nat

NoFunctions == [p \in Pins |-> Empty]   \* nothing read yet

VARIABLES
  (* the machine *)
  file,       \* the configuration file
  pins,       \* the function of every pin
  portFree,   \* nobody else listens on the configured port
  unit,       \* "on": systemd runs the service, "off", or "hand": a shell does
  faults,     \* counted against the bound
  (* the process *)
  pc,         \* where it stands, "none" when there is no process
  status,     \* how the last one ended
  cfg,        \* g_cfg
  ini,        \* g_cfg.zlog_ini is allocated
  zlog,       \* zlog is initialised
  hook,       \* piduier_exit_cleanup is registered
  current,    \* current_funcs
  next,       \* the loop variable of gpio_apply_pinctrl_config
  monitor,    \* the CPU monitor thread runs
  listening,  \* mongoose holds the listening socket
  (* history *)
  failed,     \* something has failed since this process started
  disturbed   \* pins that others have set since it read the functions

machine == <<file, pins, portFree, unit, faults>>
memory  == <<cfg, ini, zlog, hook>>
process == <<pc, status, memory, current, next, monitor, listening>>
history == <<failed, disturbed>>
vars    == <<machine, process, history>>

-----------------------------------------------------------------------------
Fresh ==
  /\ cfg = NoConfig /\ ini = FALSE /\ zlog = FALSE /\ hook = FALSE
  /\ current = NoFunctions /\ next = 0
  /\ monitor = FALSE /\ listening = FALSE

Init ==
  /\ file \in Files
  /\ pins \in [Pins -> Funcs]
  /\ portFree \in BOOLEAN
  /\ unit = "off"
  /\ faults = 0
  /\ pc = "none" /\ status = "none"
  /\ Fresh
  /\ failed = FALSE /\ disturbed = {}

\* What the kernel gives a new process, and takes from one that is killed.
Wipe ==
  /\ cfg' = NoConfig /\ ini' = FALSE /\ zlog' = FALSE /\ hook' = FALSE
  /\ current' = NoFunctions /\ next' = 0
  /\ monitor' = FALSE /\ listening' = FALSE

\* The process returns from main. What it still holds then is what the exit
\* hook leaves: piduier_exit_cleanup calls log_fini and piduier_config_free.
\* The rest of its memory stays as it was for the properties to see.
Exit(how) ==
  /\ pc' = "none"
  /\ status' = how
  /\ zlog' = (zlog /\ ~hook)
  /\ ini' = (ini /\ ~hook)
  /\ UNCHANGED <<cfg, hook, current, next, monitor, listening>>

Fault == faults < MaxFaults /\ faults' = faults + 1 /\ failed' = TRUE

Goto(label) == pc' = label /\ UNCHANGED status

Begin ==
  /\ pc' = "load"
  /\ status' = "none"
  /\ Wipe
  /\ failed' = FALSE /\ disturbed' = {}

(* Who starts and stops the process. *)

SystemctlStart ==
  /\ pc = "none" /\ unit # "on"
  /\ unit' = "on"
  /\ Begin
  /\ UNCHANGED <<file, pins, portFree, faults>>

\* Restart=on-failure
Restart ==
  /\ pc = "none" /\ unit = "on" /\ status = "failure"
  /\ Begin
  /\ UNCHANGED machine

\* From a shell: parse_args ends -h and -v with success, and an option it does
\* not know, or one without its path, with failure.
RunByHand(args) ==
  /\ pc = "none" /\ unit # "on"
  /\ unit' = "hand"
  /\ IF args = "config"
       THEN Begin
       ELSE /\ pc' = "none"
            /\ status' = IF args \in {"help", "version"} THEN "success" ELSE "failure"
            /\ Wipe
            /\ failed' = FALSE /\ disturbed' = {}
  /\ UNCHANGED <<file, pins, portFree, faults>>

\* SIGTERM is not handled: it ends the process, and systemd calls that clean.
Stop ==
  /\ unit' = "off"
  /\ pc' = "none"
  /\ status' = "success"
  /\ Wipe
  /\ UNCHANGED <<file, pins, portFree, faults, history>>

\* Any other signal counts as a failure.
Kill ==
  /\ pc # "none"
  /\ Fault
  /\ pc' = "none"
  /\ status' = "failure"
  /\ Wipe
  /\ UNCHANGED <<file, pins, portFree, unit, disturbed>>

-----------------------------------------------------------------------------
(* The program. *)

LoadConfig ==
  /\ pc = "load"
  /\ cfg' = Load(file)
  /\ ini' = Accepted(file)
  /\ IF Accepted(file)
       THEN Goto("log")
       ELSE pc' = "none" /\ status' = "failure"
  /\ UNCHANGED <<machine, zlog, hook, current, next, monitor, listening, history>>

LogInit ==
  /\ pc = "log"
  /\ zlog' = TRUE
  /\ hook' = TRUE
  /\ Goto("read")
  /\ UNCHANGED <<machine, cfg, ini, current, next, monitor, listening, history>>

\* zlog refuses the text or has no category piduier; main frees g_cfg itself.
LogInitFailsLeaking ==
  /\ pc = "log"
  /\ Fault
  /\ Exit("failure")
  /\ UNCHANGED <<file, pins, portFree, unit, disturbed>>
LogInitFails ==
  /\ pc = "log"
  /\ Fault
  /\ pc' = "none" /\ status' = "failure"
  /\ ini' = FALSE
  /\ UNCHANGED <<file, pins, portFree, unit, disturbed, cfg, zlog, hook, current,
                 next, monitor, listening>>

\* gpio_apply_pinctrl_config up to its loop: the targets are checked, and one
\* `pinctrl get` gives the functions of all pins.
ReadFunctions ==
  /\ pc = "read"
  /\ IF \A p \in Pins : cfg.pinctrl[p] \in Funcs
       THEN /\ current' = pins
            /\ next' = 0
            /\ Goto("apply")
            /\ disturbed' = {}
            /\ UNCHANGED <<memory, monitor, listening>>
       ELSE Exit("failure") /\ UNCHANGED disturbed
  /\ UNCHANGED <<machine, failed>>

\* pinctrl does not run, or its output lacks a row for some pin.
ReadFunctionsFailsUnnoticed ==
  /\ pc = "read"
  /\ Fault
  /\ current' = [pins EXCEPT ![0] = Empty]
  /\ next' = 0
  /\ Goto("apply")
  /\ UNCHANGED <<file, pins, portFree, unit, memory, monitor, listening, disturbed>>
ReadFunctionsFails ==
  /\ pc = "read"
  /\ Fault
  /\ Exit("failure")
  /\ UNCHANGED <<file, pins, portFree, unit, disturbed>>

\* One round of the loop: a pin that was read as right is skipped.
IsRightOrUnused(p) == current[p] \in {"no", cfg.pinctrl[p]}
IsRight(p) == current[p] = cfg.pinctrl[p]

CorrectPin ==
  /\ pc = "apply" /\ next < NumPins
  /\ next' = next + 1
  /\ pins' = IF IsRight(next) THEN pins
             ELSE [pins EXCEPT ![next] = cfg.pinctrl[next]]
  /\ disturbed' = IF IsRight(next) THEN disturbed ELSE disturbed \ {next}
  /\ UNCHANGED <<file, portFree, unit, faults, pc, status, memory, current,
                 monitor, listening, failed>>

CorrectPinFails ==
  /\ pc = "apply" /\ next < NumPins
  /\ ~IsRight(next)
  /\ Fault
  /\ Exit("failure")
  /\ UNCHANGED <<file, pins, portFree, unit, disturbed>>

\* From the end of the loop to pthread_create. The listen URL always fits.
StartMonitor ==
  /\ pc = "apply" /\ next = NumPins
  /\ monitor' = TRUE
  /\ Goto("listen")
  /\ UNCHANGED <<machine, memory, current, next, listening, history>>

\* mg_http_listen; whether it has succeeded is not looked at.
Listen ==
  /\ pc = "listen"
  /\ listening' = (portFree /\ cfg.listen = Address)
  /\ Goto("serve")
  /\ UNCHANGED <<machine, memory, current, next, monitor, history>>

-----------------------------------------------------------------------------
(* The rest of the machine. *)

OtherProcess(p, func) ==
  /\ pins' = [pins EXCEPT ![p] = func]
  /\ disturbed' = disturbed \cup {p}
  /\ UNCHANGED <<file, portFree, unit, faults, process, failed>>

Edit(new) ==
  /\ file' = new
  /\ UNCHANGED <<pins, portFree, unit, faults, process, history>>

PortTaken ==
  /\ ~listening
  /\ portFree' = ~portFree
  /\ UNCHANGED <<file, pins, unit, faults, process, history>>

Program ==
  \/ LoadConfig
  \/ LogInit \/ LogInitFails
  \/ ReadFunctions \/ ReadFunctionsFails
  \/ CorrectPin \/ CorrectPinFails
  \/ StartMonitor \/ Listen

Machine ==
  \/ \E p \in Pins, func \in Funcs : OtherProcess(p, func)
  \/ \E new \in Files : Edit(new)
  \/ PortTaken

Next ==
  \/ Program
  \/ SystemctlStart \/ Restart \/ Stop \/ Kill
  \/ \E args \in {"config", "help", "version", "bad"} : RunByHand(args)
  \/ Machine

Spec == Init /\ [][Next]_vars

\* The process runs on and systemd restarts it after RestartSec=3; five starts
\* in ten seconds, at which it would give up, are not reached at that pace.
Fairness == WF_vars(Program) /\ WF_vars(Restart)

FairSpec == Spec /\ Fairness

-----------------------------------------------------------------------------
TypeOK ==
  /\ file \in Files
  /\ pins \in [Pins -> Funcs]
  /\ unit \in {"on", "off", "hand"}
  /\ faults \in 0 .. MaxFaults
  /\ pc \in {"none", "load", "log", "read", "apply", "listen", "serve"}
  /\ status \in {"none", "success", "failure"}
  /\ cfg \in {Load(f) : f \in Files} \cup {NoConfig}
  /\ current \in [Pins -> Funcs] \cup {NoFunctions}
  /\ next \in 0 .. NumPins
  /\ {portFree, ini, zlog, hook, monitor, listening, failed} \subseteq BOOLEAN
  /\ disturbed \subseteq Pins

\* A program that has come to its listening socket has every pin as configured,
\* whether it found or made it so and however often an earlier start ended half
\* way through the pins, except those that others have set since it looked.
ServesConfiguredPins ==
  pc \in {"listen", "serve"} =>
    \A p \in Pins \ disturbed : pins[p] = cfg.pinctrl[p]

\* What piduier_config_load has accepted is good enough for the rest of the
\* start: a process that ends in failure was started with bad options, has
\* refused its file, or has met a failure of the machine.
FailsForACause ==
  pc = "none" /\ status = "failure" =>
    failed \/ cfg = NoConfig

\* However the program ends by itself, it has given back the log and the text of
\* its configuration; what the exit hook frees and what main frees add up.
ReleasesEverything == pc = "none" => ~ini /\ ~zlog


\* README.md: "when a field of the configuration is missing or invalid, the
\* program reports it at startup and exits".
InvalidConfigExits == pc = "serve" => cfg.listen = Address

=============================================================================
