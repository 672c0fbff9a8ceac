-------------------------------- MODULE Gpio --------------------------------
(***************************************************************************)
(* The GPIO handlers of router.c and the gpio.c operations they call.      *)
(*                                                                         *)
(* The server is one thread: it takes one request at a time off its event  *)
(* loop and runs the handler to the end. A handler is a sequence of        *)
(* pinctrl processes, each started and waited for, so between two of them  *)
(* another process of the machine may set the same pin (a shell, a         *)
(* driver), and any of them may fail. Each step below is one such process  *)
(* or the code between two of them.                                        *)
(***************************************************************************)
EXTENDS GpioApi

CONSTANT ForeignCommands   \* what other processes run pinctrl with

ASSUME ForeignAssumption == ForeignCommands \subseteq Commands

NoCommand  == [func |-> "ip", drive |-> NoArg, pull |-> NoArg]
NoPinState == [func |-> "no", drive |-> "dl", pull |-> "pn", level |-> "lo"]

VARIABLES
  pins,       \* the state of every pin
  pc,         \* where the handler stands
  req,        \* the request it works on
  cmd,        \* the pinctrl set command it is about to run
  code,       \* the status of the reply
  \* History of the request at work, for the properties only:
  before,     \* the state of its pin when the request arrived
  touched,    \* another process has set its pin since
  sawOutput   \* its pin was an output at some moment before a server step

server  == <<pc, req, cmd, code>>
history == <<before, touched, sawOutput>>
vars    == <<pins, server, history>>

PCs == {"idle", "set", "pull_read", "pull_set", "drive_read", "drive_set",
        "reply"}
Codes == {0, 200, 400, 503}

-----------------------------------------------------------------------------
(* The command lines gpio.c builds. *)

\* gpio_set_input
InputCommand == [func |-> "ip", drive |-> NoArg, pull |-> NoArg]

\* gpio_set_output and gpio_set_value: the same line, whatever the pin is.
OutputCommand(value) ==
  [func |-> "op", drive |-> DriveOf(value), pull |-> NoArg]

\* gpio_set_pull: the line repeats the direction and the level it has read;
\* a pin that is neither an input nor an output is written as an input.
PullCommandDroppingDirection(mode, value, pull) ==
  [func |-> "ip", drive |-> NoArg, pull |-> PullToken(pull)]
PullCommandDroppingLevel(mode, value, pull) ==
  IF mode = "output"
  THEN [func |-> "op", drive |-> "dl", pull |-> PullToken(pull)]
  ELSE [func |-> "ip", drive |-> NoArg, pull |-> PullToken(pull)]
PullCommandSwapped(mode, value, pull) ==
  IF mode = "output"
  THEN [func |-> "op", drive |-> IF value = 1 THEN "dh" ELSE "dl",
        pull |-> IF pull = "up" THEN "pd" ELSE PullToken(pull)]
  ELSE [func |-> "ip", drive |-> NoArg, pull |-> PullToken(pull)]
PullCommand(mode, value, pull) ==
  IF mode = "output"
  THEN [func |-> "op", drive |-> IF value = 1 THEN "dh" ELSE "dl",
        pull |-> PullToken(pull)]
  ELSE [func |-> "ip", drive |-> NoArg, pull |-> PullToken(pull)]

\* gpio_set_drive
DriveCommand(drive) == [func |-> "op", drive |-> drive, pull |-> NoArg]

-----------------------------------------------------------------------------
Init ==
  /\ pins \in PowerOn
  /\ pc = "idle"
  /\ req = NoRequest
  /\ cmd = NoCommand
  /\ code = 0
  /\ before = NoPinState
  /\ touched = FALSE
  /\ sawOutput = FALSE

Goto(next)   == pc' = next /\ UNCHANGED code
Reply(status) == pc' = "reply" /\ code' = status

\* router_handle_request hands request r to its handler.
Take(r) ==
  /\ pc = "idle"
  /\ req' = r
  /\ before' = IF r.pin \in Pins THEN pins[r.pin] ELSE NoPinState
  /\ touched' = FALSE
  /\ sawOutput' = (r.pin \in Pins /\ pins[r.pin].func = "op")
  /\ UNCHANGED pins

\* handle_gpio_mode: an unknown mode is answered like a failed command.
HandleMode(r) ==
  /\ Take(r)
  /\ \/ r.pin = NoPin /\ Reply(400) /\ UNCHANGED cmd
     \/ r.pin # NoPin /\ r.mode = "other" /\ Reply(503) /\ UNCHANGED cmd
     \/ /\ r.pin # NoPin /\ r.mode = "input"
        /\ Goto("set") /\ cmd' = InputCommand
     \/ /\ r.pin # NoPin /\ r.mode = "output"
        /\ Goto("set") /\ cmd' = OutputCommand(InitialValue(r.value))

\* handle_gpio_value, POST.
HandleValue(r) ==
  /\ Take(r)
  /\ IF r.pin = NoPin \/ r.value < 0 \/ r.value > 1
       THEN Reply(400) /\ UNCHANGED cmd
       ELSE Goto("set") /\ cmd' = OutputCommand(r.value)

\* handle_gpio_attrs after the pull.
StartDriveNever == Reply(200)
StartDrive == IF req.drive = Absent THEN Reply(200) ELSE Goto("drive_read")

\* handle_gpio_attrs, POST: the pull first, then the drive.
HandleAttrs(r) ==
  /\ Take(r)
  /\ UNCHANGED cmd
  /\ \/ (r.pin = NoPin \/ (r.pull = Absent /\ r.drive = Absent)) /\ Reply(400)
     \/ r.pin # NoPin /\ r.pull # Absent /\ Goto("pull_read")
     \/ r.pin # NoPin /\ r.pull = Absent /\ r.drive # Absent /\ Goto("drive_read")

-----------------------------------------------------------------------------
Here == pins[req.pin]

\* One `pinctrl set` of the handler succeeds.
Run == pins' = [pins EXCEPT ![req.pin] = Execute(@, cmd, req.pin \in Held)]

\* gpio_set_input, gpio_set_output, gpio_set_value
RunSet ==
  /\ pc = "set"
  /\ Run
  /\ Reply(200)
  /\ UNCHANGED <<req, cmd, history>>

\* gpio_set_pull up to its pinctrl set.
ReadForPull ==
  /\ pc = "pull_read"
  /\ IF req.pull = "bad"
       THEN Reply(400) /\ UNCHANGED cmd
       ELSE /\ Goto("pull_set")
            /\ cmd' = PullCommand(Mode(Here), Value(Here), req.pull)
  /\ UNCHANGED <<pins, req, history>>

RunPull ==
  /\ pc = "pull_set"
  /\ Run
  /\ StartDrive
  /\ UNCHANGED <<req, cmd, history>>

\* gpio_set_drive up to its pinctrl set: a pin that is not an output is
\* skipped, with success.
ReadForDriveUnguarded ==
  /\ pc = "drive_read"
  /\ IF req.drive = "bad"
       THEN Reply(400) /\ UNCHANGED cmd
       ELSE Goto("drive_set") /\ cmd' = DriveCommand(req.drive)
  /\ UNCHANGED <<pins, req, history>>
ReadForDrive ==
  /\ pc = "drive_read"
  /\ \/ req.drive = "bad" /\ Reply(400) /\ UNCHANGED cmd
     \/ /\ req.drive # "bad" /\ Mode(Here) = "output"
        /\ Goto("drive_set") /\ cmd' = DriveCommand(req.drive)
     \/ /\ req.drive # "bad" /\ Mode(Here) # "output"
        /\ Reply(200) /\ UNCHANGED cmd
  /\ UNCHANGED <<pins, req, history>>

RunDrive ==
  /\ pc = "drive_set"
  /\ Run
  /\ Reply(200)
  /\ UNCHANGED <<req, cmd, history>>

\* A pinctrl process that cannot start or ends with an error: it has not
\* touched the pin, and what earlier processes did stays done.
PinctrlFails ==
  /\ pc \in {"set", "pull_read", "pull_set", "drive_read", "drive_set"}
  /\ Reply(IF req.op = "attrs" THEN 400 ELSE 503)
  /\ UNCHANGED <<pins, req, cmd, history>>

\* The event loop goes on to the next request.
Finish ==
  /\ pc = "reply"
  /\ pc' = "idle"
  /\ req' = NoRequest
  /\ cmd' = NoCommand
  /\ code' = 0
  /\ before' = NoPinState
  /\ touched' = FALSE
  /\ sawOutput' = FALSE
  /\ UNCHANGED pins

-----------------------------------------------------------------------------
\* Another process of the machine runs `pinctrl set`.
OtherProcess(p, c) ==
  /\ pins' = [pins EXCEPT ![p] = Execute(@, c, p \in Held)]
  /\ IF pc # "idle" /\ req.pin = p
       THEN /\ touched' = TRUE
            /\ sawOutput' = (sawOutput \/ c.func = "op")
       ELSE UNCHANGED <<touched, sawOutput>>
  /\ UNCHANGED <<server, before>>

\* The signal at a pad changes: seen at once on anything but an output, and
\* on an output whose pad it holds.
PadChanges(p, level) ==
  /\ pins[p].func # "op" \/ p \in Held
  /\ pins' = [pins EXCEPT ![p].level = level]
  /\ UNCHANGED <<server, history>>

Handler ==
  \/ \E r \in ModeRequests : HandleMode(r)
  \/ \E r \in ValueRequests : HandleValue(r)
  \/ \E r \in AttrsRequests : HandleAttrs(r)
  \/ RunSet
  \/ ReadForPull \/ RunPull
  \/ ReadForDrive \/ RunDrive
  \/ PinctrlFails
  \/ Finish

Environment ==
  \/ \E p \in Pins, c \in ForeignCommands : OtherProcess(p, c)
  \/ \E p \in Pins, l \in Levels : PadChanges(p, l)

Next == Handler \/ Environment

Spec == Init /\ [][Next]_vars

-----------------------------------------------------------------------------
\* The effects of the request at work that are still to come.
Todo ==
  CASE pc \in {"set", "pull_read", "pull_set"} -> Effects(req)
    [] pc \in {"drive_read", "drive_set"} -> <<[kind |-> "drive", drive |-> req.drive]>>
    [] pc \in {"idle", "reply"} -> <<>>

Board == INSTANCE PinBoard WITH todo <- Todo

-----------------------------------------------------------------------------
TypeOK ==
  /\ pins \in [Pins -> PinState]
  /\ pc \in PCs
  /\ req \in Requests \cup {NoRequest}
  /\ cmd \in Commands
  /\ code \in Codes
  /\ before \in PinState
  /\ touched \in BOOLEAN
  /\ sawOutput \in BOOLEAN

\* The request at work names a pin, and no other process has set that pin
\* since the request arrived.
Undisturbed == pc # "idle" /\ req.pin \in Pins /\ ~touched

WasInOrOut == before.func \in {"ip", "op"}

\* What an accepted request asked for, of the pin `after`.
Asked(after) ==
  /\ req.op = "mode" => req.mode # "other"
  /\ req.op = "mode" /\ req.mode = "input" => after.func = "ip"
  /\ req.op = "mode" /\ req.mode = "output" =>
       after.func = "op" /\ after.drive = DriveOf(InitialValue(req.value))
  /\ req.op = "value" => after.func = "op" /\ after.drive = DriveOf(req.value)
  /\ req.op = "attrs" =>
       /\ req.pull # Absent => after.pull = PullToken(req.pull)
       /\ req.drive # Absent /\ before.func = "op" => after.drive = req.drive

\* A reply 200 is true when it is sent: the pin is what the request asked for,
\* however many processes the handler needed.
SuccessIsApplied ==
  pc = "reply" /\ code = 200 /\ Undisturbed => Asked(Here)

\* A request that ends in an error has moved neither the direction nor the
\* drive of an input or output. Its pull may have changed: handle_gpio_attrs
\* reports a drive that failed after the pull was written.
ErrorKeepsOutput ==
  pc = "reply" /\ code # 200 /\ Undisturbed /\ WasInOrOut /\ req.pin \notin Held
    => /\ Here.func = before.func
       /\ Here.drive = before.drive
       /\ Here.pull # before.pull => req.op = "attrs" /\ req.drive # Absent

\* At no moment of an attrs request does an input become an output or an
\* output an input: gpio_set_pull has to write the direction it has read.
AttrsKeepDirection ==
  Undisturbed /\ req.op = "attrs" /\ WasInOrOut => Here.func = before.func

\* Setting the pull of an output does not let its level dip: gpio_set_pull
\* rewrites the drive from the level it has read, which is the driven one as
\* long as nothing outside holds the pad.
PullKeepsDrive ==
  Undisturbed /\ req.op = "attrs" /\ req.drive = Absent /\ req.pin \notin Held
    => Here.drive = before.drive

\* Even when other processes set the pin between the read and the write of a
\* handler, an attrs request makes an output only of a pin that was one at
\* some moment of the request: it never starts to drive a pin on its own.
AttrsNeverEnableOutput ==
  pc # "idle" /\ req.op = "attrs" /\ req.pin \in Pins /\ Here.func = "op"
    => sawOutput

\* While no other process sets pins, the handlers implement the board that
\* PinBoard promises: effects one by one, in order, nothing else, and a 200
\* exactly when all of them have happened.
ImplementsBoard == Board!Spec

=============================================================================
