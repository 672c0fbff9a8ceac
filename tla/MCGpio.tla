------------------------------- MODULE MCGpio -------------------------------
EXTENDS Gpio

CONSTANTS p1, p2

\* Another process that takes the pin for itself, drives it low, or hands it
\* to a peripheral.
MCForeign == {InputCommand, OutputCommand(0),
              [func |-> "no", drive |-> NoArg, pull |-> "pn"]}

=============================================================================
