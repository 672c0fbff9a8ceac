------------------------------ MODULE PinBoard ------------------------------
(***************************************************************************)
(* What the GPIO API promises a client while no other process sets pins:   *)
(* an accepted request has one or two effects, each of them changes the    *)
(* pin at once and nothing of it but what was asked for, they happen in    *)
(* order, and the reply is 200 exactly when all of them have happened.     *)
(* Gpio implements this with handlers of up to four processes, each of     *)
(* which may fail.                                                         *)
(***************************************************************************)
EXTENDS GpioApi

VARIABLES
  pins,   \* the state of every pin
  req,    \* the request at work
  todo,   \* its effects that have not happened yet
  code    \* its reply, 0 while there is none

vars == <<pins, req, todo, code>>

Errors == {400, 503}

Driven(pin, drive, held) ==
  [pin EXCEPT !.func = "op", !.drive = drive,
              !.level = IF held THEN @ ELSE DrivenLevel(drive)]

\* What an effect may make of a pin. A pull changes alone on inputs and
\* outputs, except that the drive of an output whose pad is held is taken from
\* the pad; a pin in another function becomes an input. A drive is for outputs.
\* A word the API does not know has no outcome.
Outcomes(pin, e, held) ==
  CASE e.kind = "input"  -> {[pin EXCEPT !.func = "ip"]}
    [] e.kind = "output" -> {Driven(pin, e.drive, held)}
    [] e.kind = "pull"   ->
         IF e.pull = "bad" THEN {}
         ELSE IF pin.func # "op"
         THEN {[pin EXCEPT !.func = "ip", !.pull = PullToken(e.pull)]}
         ELSE {[pin EXCEPT !.drive = d, !.pull = PullToken(e.pull)] :
                 d \in {d \in Drives : d = pin.drive \/ held}}
    [] e.kind = "drive"  ->
         IF e.drive = "bad" THEN {}
         ELSE IF pin.func # "op" THEN {pin}
         ELSE {Driven(pin, e.drive, held)}

Init ==
  /\ pins \in PowerOn
  /\ req = NoRequest
  /\ todo = <<>>
  /\ code = 0

\* A request that asks for nothing, or of no pin, is refused on arrival.
Arrive(r) ==
  /\ req = NoRequest
  /\ req' = r
  /\ IF r.pin = NoPin \/ Effects(r) = <<>>
       THEN todo' = <<>> /\ code' \in Errors
       ELSE todo' = Effects(r) /\ code' = 0
  /\ UNCHANGED pins

Apply ==
  /\ todo # <<>>
  /\ \E after \in Outcomes(pins[req.pin], Head(todo), req.pin \in Held) :
       pins' = [pins EXCEPT ![req.pin] = after]
  /\ todo' = Tail(todo)
  /\ code' = IF Tail(todo) = <<>> THEN 200 ELSE 0
  /\ UNCHANGED req

\* What has not happened never will.
Abandon ==
  /\ todo # <<>>
  /\ todo' = <<>>
  /\ code' \in Errors
  /\ UNCHANGED <<pins, req>>

Leave ==
  /\ code # 0
  /\ req' = NoRequest
  /\ code' = 0
  /\ UNCHANGED <<pins, todo>>

PadChanges(p, level) ==
  /\ pins[p].func # "op" \/ p \in Held
  /\ pins' = [pins EXCEPT ![p].level = level]
  /\ UNCHANGED <<req, todo, code>>

Next ==
  \/ \E r \in Requests : Arrive(r)
  \/ Apply
  \/ Abandon
  \/ Leave
  \/ \E p \in Pins, l \in Levels : PadChanges(p, l)

Spec == Init /\ [][Next]_vars

=============================================================================
