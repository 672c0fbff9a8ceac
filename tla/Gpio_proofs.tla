---------------------------- MODULE Gpio_proofs ----------------------------
(***************************************************************************)
(* Proofs about Gpio for every set of pins, held pads, alternate functions *)
(* and commands of other processes.                                        *)
(***************************************************************************)
EXTENDS Gpio, TLAPS

-----------------------------------------------------------------------------
(* What requests and commands are made of. *)

\* The fields that each kind of request has.
LEMMA RequestFields ==
  ASSUME NEW r \in Requests
  PROVE  /\ r.op \in {"mode", "value", "attrs"}
         /\ r.pin \in Pins \cup {NoPin}
         /\ r.op = "mode" => r.mode \in {"input", "output", "other"}
         /\ r.op = "attrs" => /\ r.pull \in {"up", "down", "off", "bad", Absent}
                              /\ r.drive \in Drives \cup {"bad", Absent}
BY DEF Requests, ModeRequests, ValueRequests, AttrsRequests

\* A pinctrl set command takes a pin state to a pin state, whatever the command
\* line leaves out, and leaves an output nobody holds at the level it drives.
LEMMA ExecuteType ==
  ASSUME NEW pin \in PinState, NEW c \in Commands, NEW held
  PROVE  /\ Execute(pin, c, held) \in PinState
         /\ ~held => Coherent(Execute(pin, c, held))
<1>1. Given(c.drive, pin.drive) \in Drives
  BY DEF Given, Commands, PinState, NoArg, Drives
<1>2. Given(c.pull, pin.pull) \in Pulls
  BY DEF Given, Commands, PinState, NoArg, Pulls
<1>3. DrivenLevel(Given(c.drive, pin.drive)) \in Levels /\ pin.level \in Levels
  BY DEF DrivenLevel, Levels, PinState
<1>4. c.func \in Funcs
  BY DEF Commands
<1>5. QED
  BY <1>1, <1>2, <1>3, <1>4 DEF Execute, PinState, Coherent

\* Every line that gpio.c builds is a command of the tool.
LEMMA CommandTypes ==
  /\ InputCommand \in Commands
  /\ \A v : OutputCommand(v) \in Commands
  /\ \A d \in Drives : DriveCommand(d) \in Commands
  /\ \A m, v : \A u \in {"up", "down", "off"} : PullCommand(m, v, u) \in Commands
BY DEF InputCommand, OutputCommand, DriveCommand, PullCommand, Commands, Funcs,
       Drives, Pulls, NoArg, DriveOf, PullToken

-----------------------------------------------------------------------------
(* Type correctness. *)

Working == {"set", "pull_read", "pull_set", "drive_read", "drive_set"}

\* Where the handler stands says which request it works on, and which command
\* it is about to run.
Control ==
  /\ pc = "idle" => req = NoRequest
  /\ pc # "idle" => req \in Requests
  /\ pc \in Working => req.pin \in Pins
  /\ pc = "set" =>
       \/ req.op = "mode" /\ req.mode = "input" /\ cmd = InputCommand
       \/ req.op = "mode" /\ req.mode = "output"
            /\ cmd = OutputCommand(InitialValue(req.value))
       \/ req.op = "value" /\ cmd = OutputCommand(req.value)
  /\ pc \in {"pull_read", "pull_set"} => req.op = "attrs" /\ req.pull # Absent
  /\ pc = "pull_set" => req.pull # "bad"
  /\ pc \in {"drive_read", "drive_set"} => req.op = "attrs" /\ req.drive # Absent
  /\ pc = "drive_set" => req.drive \in Drives /\ cmd = DriveCommand(req.drive)

TypeInv == TypeOK /\ Control

\* A handler in the middle of an attrs request has a pull or a drive to set.
LEMMA AttrsFields ==
  ASSUME Control
  PROVE  /\ pc = "pull_read" /\ req.pull # "bad" => req.pull \in {"up", "down", "off"}
         /\ pc = "pull_set" => req.pull \in {"up", "down", "off"}
         /\ pc = "drive_read" /\ req.drive # "bad" => req.drive \in Drives
<1>1. pc # "idle" => req \in Requests
  BY DEF Control
<1>2. pc # "idle" /\ req.op = "attrs" =>
        /\ req.pull \in {"up", "down", "off", "bad", Absent}
        /\ req.drive \in Drives \cup {"bad", Absent}
  BY <1>1, RequestFields
<1>3. QED
  BY <1>2 DEF Control

\* Taking a request records it and leaves the pins alone.
LEMMA TakeType ==
  ASSUME TypeOK, NEW r \in Requests, Take(r)
  PROVE  /\ pins' \in [Pins -> PinState] /\ req' \in Requests
         /\ before' \in PinState /\ touched' \in BOOLEAN
         /\ sawOutput' \in BOOLEAN /\ req' = r
<1>1. NoPinState \in PinState
  BY DEF NoPinState, PinState, Funcs, Drives, Pulls, Levels
<1>2. QED
  BY <1>1 DEF Take, TypeOK

\* A pinctrl set command run on any pin keeps the pins well typed.
LEMMA SetType ==
  ASSUME NEW b \in [Pins -> PinState], NEW p \in Pins, NEW c \in Commands
  PROVE  [b EXCEPT ![p] = Execute(@, c, p \in Held)] \in [Pins -> PinState]
<1>1. Execute(b[p], c, p \in Held) \in PinState
  BY ExecuteType
<1>2. QED
  BY <1>1

LEMMA TypeInvInit == Init => TypeInv
<1>1. NoCommand \in Commands
  BY DEF NoCommand, Commands, Funcs
<1>2. NoPinState \in PinState
  BY DEF NoPinState, PinState, Funcs, Drives, Pulls, Levels
<1>3. QED
  BY <1>1, <1>2 DEF Init, PowerOn, TypeInv, TypeOK, Control, PCs, Codes, Working

LEMMA TypeInvNext == TypeInv /\ [Next]_vars => TypeInv'
<1> SUFFICES ASSUME TypeInv, [Next]_vars PROVE TypeInv'
  OBVIOUS
<1> USE DEF TypeInv, PCs, Codes, Working
<1>1. ASSUME NEW r \in ModeRequests, HandleMode(r) PROVE TypeInv'
  <2>1. r \in Requests /\ Take(r) /\ r.op = "mode"
    BY <1>1 DEF HandleMode, Requests, ModeRequests
  <2>2. TypeOK'
    BY <1>1, <2>1, TakeType, CommandTypes DEF HandleMode, Goto, Reply, TypeOK
  <2>3. Control'
    BY <1>1, <2>1, TakeType, RequestFields DEF HandleMode, Goto, Reply, Control
  <2>4. QED
    BY <2>2, <2>3
<1>2. ASSUME NEW r \in ValueRequests, HandleValue(r) PROVE TypeInv'
  <2>1. r \in Requests /\ Take(r) /\ r.op = "value"
    BY <1>2 DEF HandleValue, Requests, ValueRequests
  <2>2. TypeOK'
    BY <1>2, <2>1, TakeType, CommandTypes DEF HandleValue, Goto, Reply, TypeOK
  <2>3. Control'
    BY <1>2, <2>1, TakeType, RequestFields DEF HandleValue, Goto, Reply, Control
  <2>4. QED
    BY <2>2, <2>3
<1>3. ASSUME NEW r \in AttrsRequests, HandleAttrs(r) PROVE TypeInv'
  <2>1. r \in Requests /\ Take(r) /\ r.op = "attrs"
    BY <1>3 DEF HandleAttrs, Requests, AttrsRequests
  <2>2. TypeOK'
    BY <1>3, <2>1, TakeType DEF HandleAttrs, Goto, Reply, TypeOK
  <2>3. Control'
    BY <1>3, <2>1, TakeType, RequestFields DEF HandleAttrs, Goto, Reply, Control
  <2>4. QED
    BY <2>2, <2>3
<1>4. ASSUME Run, req.pin \in Pins PROVE pins' \in [Pins -> PinState]
  BY <1>4, SetType DEF Run, TypeOK
<1>5. CASE RunSet
  <2>1. req.pin \in Pins /\ Run
    BY <1>5 DEF RunSet, Control
  <2>2. QED
    BY <1>4, <1>5, <2>1 DEF RunSet, Reply, TypeOK, Control, history
<1>6. CASE RunPull
  <2>1. req.pin \in Pins /\ Run
    BY <1>6 DEF RunPull, Control
  <2>2. QED
    BY <1>4, <1>6, <2>1 DEF RunPull, StartDrive, Goto, Reply, TypeOK, Control, history
<1>7. CASE RunDrive
  <2>1. req.pin \in Pins /\ Run
    BY <1>7 DEF RunDrive, Control
  <2>2. QED
    BY <1>4, <1>7, <2>1 DEF RunDrive, Reply, TypeOK, Control, history
<1>8. CASE ReadForPull
  <2>1. req.pull # "bad" => cmd' \in Commands
    BY <1>8, AttrsFields, CommandTypes DEF ReadForPull
  <2>2. QED
    BY <1>8, <2>1 DEF ReadForPull, Goto, Reply, TypeOK, Control, history
<1>9. CASE ReadForDrive
  <2>1. req.drive # "bad" => req.drive \in Drives
    BY <1>9, AttrsFields DEF ReadForDrive
  <2>2. cmd' \in Commands
    BY <1>9, <2>1, CommandTypes DEF ReadForDrive, TypeOK
  <2>3. QED
    BY <1>9, <2>1, <2>2 DEF ReadForDrive, Goto, Reply, TypeOK, Control, history
<1>10. CASE PinctrlFails
  BY <1>10 DEF PinctrlFails, Reply, TypeOK, Control, history
<1>11. CASE Finish
  <2>1. NoCommand \in Commands /\ NoPinState \in PinState
    BY DEF NoCommand, Commands, NoPinState, PinState, Funcs, Drives, Pulls, Levels
  <2>2. QED
    BY <1>11, <2>1 DEF Finish, TypeOK, Control
<1>12. ASSUME NEW p \in Pins, NEW c \in ForeignCommands, OtherProcess(p, c)
       PROVE  TypeInv'
  <2>1. pins' \in [Pins -> PinState]
    BY <1>12, SetType, ForeignAssumption DEF OtherProcess, TypeOK
  <2>2. touched' \in BOOLEAN
    BY <1>12 DEF OtherProcess, TypeOK
  <2>3. sawOutput' \in BOOLEAN
    BY <1>12, Zenon DEF OtherProcess, TypeOK
  <2>4. QED
    BY <1>12, <2>1, <2>2, <2>3 DEF OtherProcess, TypeOK, Control, server
<1>13. ASSUME NEW p \in Pins, NEW l \in Levels, PadChanges(p, l) PROVE TypeInv'
  <2>1. pins' \in [Pins -> PinState]
    BY <1>13 DEF PadChanges, TypeOK, PinState
  <2>2. QED
    BY <1>13, <2>1 DEF PadChanges, TypeOK, Control, server, history
<1>14. CASE UNCHANGED vars
  BY <1>14 DEF vars, server, history, TypeOK, Control
<1>15. QED
  BY <1>1, <1>2, <1>3, <1>5, <1>6, <1>7, <1>8, <1>9, <1>10, <1>11, <1>12, <1>13,
     <1>14 DEF Next, Handler, Environment

\* Type correctness: the handlers only ever build well formed commands, and
\* work only on requests of the API and on supported pins.
THEOREM TypeCorrect == Spec => []TypeOK
<1>1. TypeInv => TypeOK
  BY DEF TypeInv
<1>2. QED
  BY <1>1, TypeInvInit, TypeInvNext, PTL DEF Spec

-----------------------------------------------------------------------------
(* The inductive invariant behind the promises of a reply. *)

\* The pin of the request has not changed, but for the level of its pad.
Same == Here.func = before.func /\ Here.drive = before.drive /\ Here.pull = before.pull

PadInv == \A p \in Pins \ Held : Coherent(pins[p])

\* Nothing has been written yet.
BeforeWrite ==
  Undisturbed /\ pc \in {"set", "pull_read", "pull_set"} => Same

\* Between the pull and the drive of an attrs request.
BetweenWrites ==
  Undisturbed /\ pc \in {"drive_read", "drive_set"} =>
    /\ req.pull = Absent => Same
    /\ req.pull # Absent => /\ Here.pull = PullToken(req.pull)
                            /\ Here.func = "op" <=> before.func = "op"
                            /\ WasInOrOut => Here.func = before.func
                            /\ req.pin \notin Held => Here.drive = before.drive

\* The command of gpio_set_pull repeats what its read has seen. If nobody else
\* sets the pin that is what the pin still is.
PullInv ==
  pc = "pull_set" =>
    /\ cmd.pull = PullToken(req.pull)
    /\ \/ cmd.func = "op" /\ cmd.drive \in Drives
       \/ cmd.func = "ip" /\ cmd.drive = NoArg
    /\ cmd.func = "op" => sawOutput
    /\ Undisturbed => /\ cmd.func = "op" <=> Here.func = "op"
                      /\ cmd.func = "op" /\ req.pin \notin Held => cmd.drive = Here.drive

\* gpio_set_drive is about to write an output.
DriveInv ==
  pc = "drive_set" => sawOutput /\ (Undisturbed => Here.func = "op")

SeenInv == AttrsNeverEnableOutput

\* What holds when the reply is sent.
ReplyInv ==
  pc = "reply" /\ Undisturbed =>
    /\ code = 200 => Asked(Here)
    /\ req.op = "attrs" /\ WasInOrOut => Here.func = before.func
    /\ req.op = "attrs" /\ req.drive = Absent /\ req.pin \notin Held
         => Here.drive = before.drive
    /\ code # 200 /\ WasInOrOut /\ req.pin \notin Held
         => /\ Here.func = before.func
            /\ Here.drive = before.drive
            /\ Here.pull # before.pull => req.op = "attrs" /\ req.drive # Absent

Inv ==
  /\ TypeInv /\ PadInv
  /\ BeforeWrite /\ BetweenWrites
  /\ PullInv /\ DriveInv /\ SeenInv /\ ReplyInv

LEMMA InvImplies ==
  Inv => /\ SuccessIsApplied /\ ErrorKeepsOutput /\ AttrsKeepDirection
         /\ PullKeepsDrive /\ AttrsNeverEnableOutput
<1> SUFFICES ASSUME Inv
             PROVE  /\ SuccessIsApplied /\ ErrorKeepsOutput /\ AttrsKeepDirection
                    /\ PullKeepsDrive /\ AttrsNeverEnableOutput
  OBVIOUS
<1>1. pc \in PCs
  BY DEF Inv, TypeInv, TypeOK
<1>2. SuccessIsApplied
  BY DEF Inv, ReplyInv, SuccessIsApplied
<1>3. ErrorKeepsOutput
  BY DEF Inv, ReplyInv, ErrorKeepsOutput
<1>4. AttrsKeepDirection
  BY <1>1 DEF Inv, TypeInv, Control, BeforeWrite, BetweenWrites, ReplyInv, Same,
     AttrsKeepDirection, Undisturbed, PCs
<1>5. PullKeepsDrive
  BY <1>1 DEF Inv, TypeInv, Control, BeforeWrite, BetweenWrites, ReplyInv, Same,
     PullKeepsDrive, Undisturbed, PCs
<1>6. AttrsNeverEnableOutput
  BY DEF Inv, SeenInv
<1>7. QED
  BY <1>2, <1>3, <1>4, <1>5, <1>6

LEMMA InvInit == Init => Inv
<1> SUFFICES ASSUME Init PROVE Inv
  OBVIOUS
<1>1. TypeInv
  BY TypeInvInit
<1>2. PadInv
  BY DEF Init, PowerOn, PadInv
<1>3. QED
  BY <1>1, <1>2 DEF Init, Inv, BeforeWrite, BetweenWrites, PullInv, DriveInv, SeenInv,
     ReplyInv, Undisturbed, AttrsNeverEnableOutput

\* Setting a pin keeps every pad nobody holds at the level its output drives.
LEMMA SetPad ==
  ASSUME TypeOK, PadInv, NEW p \in Pins, NEW c \in Commands,
         pins' = [pins EXCEPT ![p] = Execute(@, c, p \in Held)]
  PROVE  PadInv' /\ pins'[p] = Execute(pins[p], c, p \in Held)
<1>1. pins'[p] = Execute(pins[p], c, p \in Held)
  BY DEF TypeOK
<1>2. p \notin Held => Coherent(pins'[p])
  BY <1>1, ExecuteType DEF TypeOK
<1>3. \A q \in Pins \ {p} : pins'[q] = pins[q]
  BY DEF TypeOK
<1>4. QED
  BY <1>1, <1>2, <1>3 DEF PadInv

\* A request that has just been taken finds its pin as it is.
LEMMA TakeInv ==
  ASSUME Inv, NEW r \in Requests, Take(r), pc' # "idle"
  PROVE  /\ PadInv' /\ (r.pin \in Pins => Same') /\ SeenInv'
         /\ req' = r
<1>1. req' = r /\ UNCHANGED pins
  BY DEF Take
<1>2. r.pin \in Pins => before' = pins[r.pin] /\ sawOutput' = (pins[r.pin].func = "op")
  BY DEF Take
<1>3. QED
  BY <1>1, <1>2 DEF Inv, PadInv, Same, Here, SeenInv, AttrsNeverEnableOutput

\* A pinctrl set command of the handler.
LEMMA RunInv ==
  ASSUME Inv, Run, pc \in Working, UNCHANGED <<req, cmd, history>>
  PROVE  /\ PadInv' /\ Here' = Execute(Here, cmd, req.pin \in Held)
         /\ req.pin \in Pins /\ before' = before
<1>1. req.pin \in Pins /\ cmd \in Commands /\ TypeOK /\ PadInv
  BY DEF Inv, TypeInv, TypeOK, Control
<1>2. QED
  BY <1>1, SetPad DEF Run, Here, history

LEMMA InvNext == Inv /\ [Next]_vars => Inv'
<1> SUFFICES ASSUME Inv, [Next]_vars PROVE Inv'
  OBVIOUS
<1>0. TypeInv'
  BY TypeInvNext DEF Inv
<1> USE <1>0
<1>1. ASSUME NEW r \in ModeRequests, HandleMode(r) PROVE Inv'
  <2>1. r \in Requests /\ Take(r) /\ r.op = "mode"
    BY <1>1 DEF HandleMode, Requests, ModeRequests
  <2>2. pc' \in {"set", "reply"} /\ (pc' = "reply" => code' # 200)
    BY <1>1 DEF HandleMode, Goto, Reply
  <2>3. PadInv' /\ (r.pin \in Pins => Same') /\ SeenInv' /\ req' = r
    BY <2>1, <2>2, TakeInv
  <2>4. QED
    BY <2>1, <2>2, <2>3 DEF Inv, Same, Undisturbed, BeforeWrite, BetweenWrites, PullInv,
       DriveInv, ReplyInv
<1>2. ASSUME NEW r \in ValueRequests, HandleValue(r) PROVE Inv'
  <2>1. r \in Requests /\ Take(r) /\ r.op = "value"
    BY <1>2 DEF HandleValue, Requests, ValueRequests
  <2>2. pc' \in {"set", "reply"} /\ (pc' = "reply" => code' # 200)
    BY <1>2 DEF HandleValue, Goto, Reply
  <2>3. PadInv' /\ (r.pin \in Pins => Same') /\ SeenInv' /\ req' = r
    BY <2>1, <2>2, TakeInv
  <2>4. QED
    BY <2>1, <2>2, <2>3 DEF Inv, Same, Undisturbed, BeforeWrite, BetweenWrites, PullInv,
       DriveInv, ReplyInv
<1>3. ASSUME NEW r \in AttrsRequests, HandleAttrs(r) PROVE Inv'
  <2>1. r \in Requests /\ Take(r) /\ r.op = "attrs"
    BY <1>3 DEF HandleAttrs, Requests, AttrsRequests
  <2>2. /\ pc' \in {"pull_read", "drive_read", "reply"} /\ (pc' = "reply" => code' # 200)
        /\ pc' = "drive_read" => r.pull = Absent
    BY <1>3 DEF HandleAttrs, Goto, Reply
  <2>3. PadInv' /\ (r.pin \in Pins => Same') /\ SeenInv' /\ req' = r
    BY <2>1, <2>2, TakeInv
  <2>4. QED
    BY <2>1, <2>2, <2>3 DEF Inv, Same, Undisturbed, BeforeWrite, BetweenWrites, PullInv,
       DriveInv, ReplyInv
<1>4. CASE RunSet
  <2>1. /\ PadInv' /\ Here' = Execute(Here, cmd, req.pin \in Held)
        /\ req.pin \in Pins /\ before' = before
    BY <1>4, RunInv DEF RunSet, Working
  <2>2. Here'.func = cmd.func /\ (cmd.drive # NoArg => Here'.drive = cmd.drive)
    BY <2>1 DEF Execute, Given
  <2>3. \A v : DriveOf(v) # NoArg
    BY DEF DriveOf, NoArg
  <2>4. req' = req /\ before' = before
    BY <1>4 DEF RunSet, history
  <2>5. \/ req.op = "mode" /\ req.mode = "input" /\ Here'.func = "ip"
        \/ /\ req.op = "mode" /\ req.mode = "output"
           /\ Here'.func = "op" /\ Here'.drive = DriveOf(InitialValue(req.value))
        \/ req.op = "value" /\ Here'.func = "op" /\ Here'.drive = DriveOf(req.value)
    BY <1>4, <2>2, <2>3 DEF RunSet, Inv, TypeInv, Control, InputCommand, OutputCommand
  <2>6. Asked(Here)'
    BY <2>4, <2>5 DEF Asked
  <2>7. QED
    BY <1>4, <2>1, <2>4, <2>6 DEF RunSet, Reply, history, Inv, TypeInv, Control, BeforeWrite,
       BetweenWrites, PullInv, DriveInv, SeenInv, AttrsNeverEnableOutput, ReplyInv
<1>5. CASE RunPull
  <2>1. /\ PadInv' /\ Here' = Execute(Here, cmd, req.pin \in Held)
        /\ req.pin \in Pins /\ before' = before
    BY <1>5, RunInv DEF RunPull, Working
  <2>2. /\ req.op = "attrs" /\ req.pull # Absent /\ cmd.pull = PullToken(req.pull)
        /\ req.pull \in {"up", "down", "off"}
    BY <1>5, AttrsFields DEF RunPull, Inv, TypeInv, Control, PullInv
  <2>3. /\ Here'.func = cmd.func /\ Here'.pull = PullToken(req.pull)
        /\ cmd.func = "op" => sawOutput
        /\ cmd.func = "ip" => Here'.drive = Here.drive
        /\ cmd.func = "op" => Here'.drive = cmd.drive
        /\ cmd.func \in {"ip", "op"}
    BY <1>5, <2>1, <2>2 DEF RunPull, Inv, PullInv, Execute, Given, NoArg, PullToken, Drives
  <2>4. ASSUME Undisturbed
        PROVE  /\ Here'.func = "op" <=> before.func = "op"
               /\ WasInOrOut => Here'.func = before.func
               /\ req.pin \notin Held => Here'.drive = before.drive
    <3>1. Same
      BY <1>5, <2>4 DEF RunPull, Inv, BeforeWrite
    <3>2. /\ cmd.func = "op" <=> Here.func = "op"
          /\ cmd.func = "op" /\ req.pin \notin Held => cmd.drive = Here.drive
      BY <1>5, <2>4 DEF RunPull, Inv, PullInv
    <3>3. QED
      BY <2>3, <3>1, <3>2 DEF Same, WasInOrOut
  <2>5. \/ pc' = "reply" /\ code' = 200 /\ req.drive = Absent
        \/ pc' = "drive_read" /\ req.drive # Absent
    BY <1>5 DEF RunPull, StartDrive, Reply, Goto
  <2>6. UNCHANGED <<req, before, touched, sawOutput>>
    BY <1>5 DEF RunPull, history
  <2>7. SeenInv'
    BY <2>3, <2>6 DEF SeenInv, AttrsNeverEnableOutput
  <2>8. BetweenWrites'
    BY <1>5, <2>2, <2>3, <2>4, <2>6 DEF RunPull, BetweenWrites, Undisturbed, WasInOrOut
  <2>9. ReplyInv'
    BY <1>5, <2>2, <2>3, <2>4, <2>5, <2>6 DEF RunPull, ReplyInv, Undisturbed, WasInOrOut,
       Asked
  <2>10. QED
    BY <2>1, <2>5, <2>7, <2>8, <2>9 DEF Inv, BeforeWrite, PullInv, DriveInv
<1>6. CASE RunDrive
  <2>1. /\ PadInv' /\ Here' = Execute(Here, cmd, req.pin \in Held)
        /\ req.pin \in Pins /\ before' = before
    BY <1>6, RunInv DEF RunDrive, Working
  <2>2. /\ req.op = "attrs" /\ req.drive # Absent /\ req.drive \in Drives
        /\ cmd = DriveCommand(req.drive) /\ sawOutput
    BY <1>6 DEF RunDrive, Inv, TypeInv, Control, DriveInv
  <2>3. Here'.func = "op" /\ Here'.drive = req.drive /\ Here'.pull = Here.pull
    BY <2>1, <2>2 DEF Execute, Given, DriveCommand, NoArg, Drives
  <2>4. UNCHANGED <<req, before, touched, sawOutput>> /\ pc' = "reply" /\ code' = 200
    BY <1>6 DEF RunDrive, history, Reply
  <2>5. Undisturbed => (WasInOrOut => Here'.func = before.func)
    BY <1>6, <2>3 DEF RunDrive, Inv, BetweenWrites, DriveInv, WasInOrOut, Same
  <2>6. Undisturbed => (req.pull # Absent => Here'.pull = PullToken(req.pull))
    BY <1>6, <2>3 DEF RunDrive, Inv, BetweenWrites
  <2>7. ReplyInv'
    BY <1>6, <2>2, <2>3, <2>4, <2>5, <2>6 DEF RunDrive, ReplyInv, Undisturbed, WasInOrOut,
       Asked
  <2>8. SeenInv'
    BY <2>2, <2>4 DEF SeenInv, AttrsNeverEnableOutput
  <2>9. QED
    BY <2>1, <2>4, <2>7, <2>8 DEF Inv, BeforeWrite, BetweenWrites, PullInv, DriveInv
<1>7. CASE ReadForPull
  <2>1. UNCHANGED <<pins, req, before, touched, sawOutput>> /\ pc = "pull_read"
    BY <1>7 DEF ReadForPull, history
  <2>2. PadInv' /\ SeenInv'
    BY <2>1 DEF Inv, TypeInv, Control, PadInv, SeenInv, AttrsNeverEnableOutput, Here
  <2>3. Undisturbed => Same
    BY <2>1 DEF Inv, BeforeWrite
  <2>4. Here' = Here
    BY <2>1 DEF Here
  <2>5. req.pin \in Pins /\ req.op = "attrs" /\ Here \in PinState
    BY <2>1 DEF Inv, TypeInv, TypeOK, Control, Working, Here
  <2>6. CASE req.pull = "bad"
    <3>1. pc' = "reply" /\ code' = 400
      BY <1>7, <2>6 DEF ReadForPull, Reply
    <3>2. QED
      BY <2>1, <2>2, <2>3, <2>4, <2>5, <3>1 DEF Inv, BeforeWrite, BetweenWrites,
         PullInv, DriveInv, ReplyInv, Undisturbed, Same, WasInOrOut
  <2>7. CASE req.pull # "bad"
    <3>1. pc' = "pull_set" /\ cmd' = PullCommand(Mode(Here), Value(Here), req.pull)
      BY <1>7, <2>7 DEF ReadForPull, Goto
    <3>2. /\ cmd'.pull = PullToken(req.pull)
          /\ \/ cmd'.func = "op" /\ cmd'.drive \in Drives /\ Here.func = "op"
             \/ cmd'.func = "ip" /\ cmd'.drive = NoArg /\ Here.func # "op"
          /\ cmd'.func = "op" => cmd'.drive = IF Value(Here) = 1 THEN "dh" ELSE "dl"
      BY <3>1 DEF PullCommand, Mode, Drives
    <3>3. ASSUME req.pin \notin Held, Here.func = "op"
          PROVE  Here.drive = IF Value(Here) = 1 THEN "dh" ELSE "dl"
      <4>1. Coherent(Here)
        BY <2>5, <3>3 DEF Inv, PadInv, Here
      <4>2. QED
        BY <2>5, <3>3, <4>1 DEF Coherent, DrivenLevel, Value, PinState, Drives
    <3>4. Here.func = "op" => sawOutput
      BY <2>1, <2>5 DEF Inv, SeenInv, AttrsNeverEnableOutput
    <3>5. PullInv'
      BY <2>1, <2>4, <3>2, <3>3, <3>4 DEF PullInv
    <3>6. QED
      BY <2>1, <2>2, <2>3, <2>4, <3>1, <3>5 DEF Inv, BeforeWrite, BetweenWrites,
         DriveInv, ReplyInv, Undisturbed, Same
  <2>8. QED
    BY <2>6, <2>7
<1>8. CASE ReadForDrive
  <2>1. UNCHANGED <<pins, req, before, touched, sawOutput>> /\ pc = "drive_read"
    BY <1>8 DEF ReadForDrive, history
  <2>2. PadInv' /\ SeenInv'
    BY <2>1 DEF Inv, TypeInv, Control, PadInv, SeenInv, AttrsNeverEnableOutput, Here
  <2>3. Here' = Here
    BY <2>1 DEF Here
  <2>4. /\ req.pin \in Pins /\ req.op = "attrs" /\ req.drive # Absent
        /\ Here.func = "op" => sawOutput
    BY <2>1 DEF Inv, TypeInv, Control, Working, SeenInv, AttrsNeverEnableOutput
  <2>5. ASSUME Undisturbed
        PROVE  /\ WasInOrOut => Here.func = before.func
               /\ req.pin \notin Held => Here.drive = before.drive
               /\ Here.func = "op" <=> before.func = "op"
               /\ req.pull # Absent => Here.pull = PullToken(req.pull)
    BY <2>1, <2>5 DEF Inv, BetweenWrites, Same
  <2>6. CASE pc' = "drive_set"
    <3>1. Here.func = "op"
      BY <1>8, <2>6 DEF ReadForDrive, Reply, Mode
    <3>2. QED
      BY <2>1, <2>2, <2>3, <2>4, <2>6, <3>1 DEF Inv, BeforeWrite, BetweenWrites, PullInv,
         DriveInv, ReplyInv, Undisturbed, Same, WasInOrOut
  <2>7. CASE pc' = "reply"
    <3>1. code' = 200 => Here.func # "op"
      BY <1>8, <2>7 DEF ReadForDrive, Goto, Reply, Mode
    <3>2. ReplyInv'
      BY <2>1, <2>3, <2>4, <2>5, <3>1 DEF ReplyInv, Undisturbed, WasInOrOut, Asked
    <3>3. QED
      BY <2>1, <2>2, <2>7, <3>2 DEF Inv, BeforeWrite, BetweenWrites, PullInv, DriveInv
  <2>8. QED
    BY <1>8, <2>6, <2>7 DEF ReadForDrive, Goto, Reply
<1>9. CASE PinctrlFails
  <2>1. /\ UNCHANGED <<pins, req, before, touched, sawOutput>>
        /\ pc \in Working /\ pc' = "reply" /\ code' # 200
    BY <1>9 DEF PinctrlFails, Reply, history, Working
  <2>2. PadInv' /\ SeenInv' /\ Here' = Here
    BY <2>1 DEF Inv, PadInv, SeenInv, AttrsNeverEnableOutput, Here, Working
  <2>3. ReplyInv'
    <3>1. Undisturbed /\ pc \in {"set", "pull_read", "pull_set"} => Same
      BY DEF Inv, BeforeWrite
    <3>2. Undisturbed /\ pc \in {"drive_read", "drive_set"} =>
            /\ WasInOrOut => Here.func = before.func
            /\ req.pin \notin Held => Here.drive = before.drive
            /\ req.op = "attrs" /\ req.drive # Absent
      BY DEF Inv, TypeInv, Control, BetweenWrites, Same
    <3>3. QED
      BY <2>1, <2>2, <3>1, <3>2 DEF ReplyInv, Undisturbed, WasInOrOut, Working, Same
  <2>4. QED
    BY <2>1, <2>2, <2>3 DEF Inv, BeforeWrite, BetweenWrites, PullInv, DriveInv
<1>10. CASE Finish
  BY <1>10 DEF Finish, Inv, PadInv, BeforeWrite, BetweenWrites, PullInv, DriveInv, SeenInv,
     AttrsNeverEnableOutput, ReplyInv, Undisturbed
<1>11. ASSUME NEW p \in Pins, NEW c \in ForeignCommands, OtherProcess(p, c)
       PROVE  Inv'
  <2>1. c \in Commands /\ pins' = [pins EXCEPT ![p] = Execute(@, c, p \in Held)]
    BY <1>11, ForeignAssumption DEF OtherProcess
  <2>2. PadInv' /\ pins'[p] = Execute(pins[p], c, p \in Held)
    BY <2>1, SetPad DEF Inv, TypeInv
  <2>3. UNCHANGED <<server, before>> /\ UNCHANGED <<pc, req, cmd, code>>
    BY <1>11 DEF OtherProcess, server
  <2>4. CASE pc # "idle" /\ req.pin = p
    <3>1. touched' /\ (sawOutput => sawOutput') /\ (c.func = "op" => sawOutput')
      BY <1>11, <2>4 DEF OtherProcess
    <3>2. SeenInv'
      BY <2>2, <2>3, <2>4, <3>1 DEF SeenInv, AttrsNeverEnableOutput, Here, Execute
    <3>3. QED
      BY <2>2, <2>3, <3>1, <3>2 DEF Inv, BeforeWrite, BetweenWrites, PullInv, DriveInv,
         ReplyInv, Undisturbed
  <2>5. CASE ~(pc # "idle" /\ req.pin = p)
    <3>1. UNCHANGED <<touched, sawOutput>>
      BY <1>11, <2>5 DEF OtherProcess
    <3>2. pc # "idle" /\ req.pin \in Pins => Here' = Here
      BY <2>1, <2>3, <2>5 DEF Inv, TypeInv, TypeOK, Here
    <3>3. QED
      BY <2>2, <2>3, <2>5, <3>1, <3>2 DEF Inv, BeforeWrite, BetweenWrites, PullInv,
         DriveInv, SeenInv, AttrsNeverEnableOutput, ReplyInv, Undisturbed, Same,
         WasInOrOut, Asked, TypeInv, Control, Working
  <2>6. QED
    BY <2>4, <2>5
<1>12. ASSUME NEW p \in Pins, NEW l \in Levels, PadChanges(p, l) PROVE Inv'
  <2>1. UNCHANGED <<pc, req, cmd, code, before, touched, sawOutput>>
    BY <1>12 DEF PadChanges, server, history
  <2>2. PadInv'
    BY <1>12 DEF PadChanges, Inv, TypeInv, TypeOK, PadInv, Coherent, PinState
  <2>3. \A q \in Pins : /\ pins'[q].func = pins[q].func
                        /\ pins'[q].drive = pins[q].drive
                        /\ pins'[q].pull = pins[q].pull
    BY <1>12 DEF PadChanges, Inv, TypeInv, TypeOK, PinState
  <2>4. req.pin \in Pins => /\ Here'.func = Here.func
                            /\ Here'.drive = Here.drive
                            /\ Here'.pull = Here.pull
    BY <2>1, <2>3 DEF Here
  <2>5. QED
    BY <2>1, <2>2, <2>4 DEF Inv, BeforeWrite, BetweenWrites, PullInv,
       DriveInv, SeenInv, AttrsNeverEnableOutput, ReplyInv, Undisturbed, Same,
       WasInOrOut, Asked, TypeInv, Control, Working
<1>13. CASE UNCHANGED vars
  BY <1>13 DEF vars, server, history, Inv, PadInv, BeforeWrite, BetweenWrites, PullInv,
     DriveInv, SeenInv, AttrsNeverEnableOutput, ReplyInv, Undisturbed, Same, WasInOrOut,
     Asked, Here
<1>14. QED
  BY <1>1, <1>2, <1>3, <1>4, <1>5, <1>6, <1>7, <1>8, <1>9, <1>10, <1>11, <1>12, <1>13
     DEF Next, Handler, Environment

-----------------------------------------------------------------------------
(* The promises of the API, for any set of pins and any other processes. *)

\* A reply 200 is true when it is sent, however many pinctrl processes the
\* handler needed, unless another process set the pin meanwhile.
THEOREM RepliesAreTrue == Spec => []SuccessIsApplied
<1>1. Inv => SuccessIsApplied
  BY InvImplies
<1>2. QED
  BY <1>1, InvInit, InvNext, PTL DEF Spec

\* A request that fails half way leaves the direction and the drive of an
\* input or output as they were.
THEOREM ErrorsAreHarmless == Spec => []ErrorKeepsOutput
<1>1. Inv => ErrorKeepsOutput
  BY InvImplies
<1>2. QED
  BY <1>1, InvInit, InvNext, PTL DEF Spec

\* gpio_set_pull and gpio_set_drive never turn an input into an output or an
\* output into an input.
THEOREM DirectionIsKept == Spec => []AttrsKeepDirection
<1>1. Inv => AttrsKeepDirection
  BY InvImplies
<1>2. QED
  BY <1>1, InvInit, InvNext, PTL DEF Spec

\* Setting the pull of an output repeats the level it drives.
THEOREM DriveIsKept == Spec => []PullKeepsDrive
<1>1. Inv => PullKeepsDrive
  BY InvImplies
<1>2. QED
  BY <1>1, InvInit, InvNext, PTL DEF Spec

\* Whatever other processes do between the read and the write of a handler, an
\* attrs request starts to drive no pin that was not an output during it.
THEOREM NeverDrivesOnItsOwn == Spec => []AttrsNeverEnableOutput
<1>1. Inv => AttrsNeverEnableOutput
  BY InvImplies
<1>2. QED
  BY <1>1, InvInit, InvNext, PTL DEF Spec

=============================================================================
