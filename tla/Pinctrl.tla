------------------------------ MODULE Pinctrl ------------------------------
(***************************************************************************)
(* The header pins and the pinctrl command line tool, as gpio.c uses them. *)
(* The tool is not part of the repository: Execute says what               *)
(* `pinctrl set <pin> <func> [dh|dl] [pu|pd|pn]` does to a pin, and the    *)
(* operators after it say what gpio.c's parsers find in the one line that  *)
(* `pinctrl get <pin>` prints ("12: op dh pd | hi // GPIO12 = output").    *)
(***************************************************************************)

CONSTANT AltFuncs   \* the alternate functions, a subset of a0 .. a8

ASSUME AltFuncsAssumption == AltFuncs \cap {"ip", "op", "no"} = {}

Funcs  == {"ip", "op", "no"} \cup AltFuncs
Drives == {"dh", "dl"}
Pulls  == {"pu", "pd", "pn"}
Levels == {"hi", "lo"}

\* drive is the output latch: it survives while the pin is not an output,
\* but the tool prints it for outputs only. level is what the pad carries.
PinState == [func : Funcs, drive : Drives, pull : Pulls, level : Levels]

NoArg    == "none"   \* an argument the command line leaves out
Commands == [func  : Funcs,
             drive : Drives \cup {NoArg},
             pull  : Pulls \cup {NoArg}]

Given(arg, current) == IF arg = NoArg THEN current ELSE arg

DrivenLevel(drive) == IF drive = "dh" THEN "hi" ELSE "lo"

\* The pin after a successful `pinctrl set`. A pad that an outside signal
\* holds keeps that signal's level whatever the pin drives.
Execute(pin, cmd, held) ==
  LET drive == Given(cmd.drive, pin.drive)
  IN  [func  |-> cmd.func,
       drive |-> drive,
       pull  |-> Given(cmd.pull, pin.pull),
       level |-> IF cmd.func = "op" /\ ~held THEN DrivenLevel(drive)
                                             ELSE pin.level]

-----------------------------------------------------------------------------

\* pinctrl_get_state: the mode is known for inputs and outputs only.
Mode(pin) ==
  CASE pin.func = "op" -> "output"
    [] pin.func = "ip" -> "input"
    [] OTHER           -> "unknown"

\* pinctrl_get_state: " hi" and " dh" are searched for before " lo" and " dl",
\* so an output that drives high reads 1 whatever its pad carries.
Value(pin) ==
  IF pin.level = "hi" \/ (pin.func = "op" /\ pin.drive = "dh") THEN 1 ELSE 0

=============================================================================
