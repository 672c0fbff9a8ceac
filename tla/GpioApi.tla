------------------------------ MODULE GpioApi ------------------------------
(***************************************************************************)
(* The POST requests of the GPIO API, as router.c reads them from a URI    *)
(* and a JSON body, and what the pin they name is asked to become.         *)
(***************************************************************************)
EXTENDS CInt, Sequences, Pinctrl

CONSTANTS
  Pins,       \* the supported pins, GPIO0 .. GPIO27 in gpio.h
  Held,       \* pins whose pad an outside signal holds at its level
  JsonInts    \* the integers that request bodies carry, of any size

NoPin  == "unsupported"   \* a pin number that gpio_is_supported refuses
Absent == "absent"        \* a field that is missing from the body

ASSUME HeldAssumption  == Held \subseteq Pins
ASSUME JsonAssumption  == JsonInts \subseteq Int
ASSUME NoPinAssumption == NoPin \notin Pins

\* What the handlers read of them.
Ints == {ToInt(n) : n \in JsonInts}

ModeRequests ==
  [op : {"mode"}, pin : Pins \cup {NoPin}, mode : {"input", "other"}] \cup
  [op : {"mode"}, pin : Pins \cup {NoPin}, mode : {"output"}, value : Ints]
ValueRequests ==
  [op : {"value"}, pin : Pins \cup {NoPin}, value : Ints]
AttrsRequests ==
  [op    : {"attrs"},
   pin   : Pins \cup {NoPin},
   pull  : {"up", "down", "off", "bad", Absent},
   drive : Drives \cup {"bad", Absent}]
Requests  == ModeRequests \cup ValueRequests \cup AttrsRequests
NoRequest == [op |-> "none"]

\* handle_gpio_mode: an initial_value that is not 0 or 1 becomes 0.
InitialValue(value) == IF value \in {0, 1} THEN value ELSE 0

\* gpio_set_output, gpio_set_value: 0 drives low, anything else high.
DriveOf(value) == IF value = 0 THEN "dl" ELSE "dh"

\* gpio_set_pull: the words of the API and those of the tool.
PullTokenVerbatim(pull) == pull
PullToken(pull) == CASE pull = "up"   -> "pu"
                     [] pull = "down" -> "pd"
                     [] pull = "off"  -> "pn"

\* The effects a request asks for, in the order they happen.
Effects(r) ==
  CASE r.op = "mode" /\ r.mode = "input"  -> <<[kind |-> "input"]>>
    [] r.op = "mode" /\ r.mode = "output" ->
         <<[kind |-> "output", drive |-> DriveOf(InitialValue(r.value))]>>
    [] r.op = "mode" /\ r.mode = "other"  -> <<>>
    [] r.op = "value" -> IF r.value \in {0, 1}
                         THEN <<[kind |-> "output", drive |-> DriveOf(r.value)]>>
                         ELSE <<>>
    [] r.op = "attrs" ->
         (IF r.pull = Absent THEN <<>> ELSE <<[kind |-> "pull", pull |-> r.pull]>>)
         \o
         (IF r.drive = Absent THEN <<>> ELSE <<[kind |-> "drive", drive |-> r.drive]>>)

\* An output whose pad nobody holds carries the level it drives.
Coherent(pin) == pin.func = "op" => pin.level = DrivenLevel(pin.drive)

\* The pins as the machine left them.
PowerOn == {b \in [Pins -> PinState] : \A p \in Pins \ Held : Coherent(b[p])}

=============================================================================
