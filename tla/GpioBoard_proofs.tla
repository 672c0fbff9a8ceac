-------------------------- MODULE GpioBoard_proofs --------------------------
(***************************************************************************)
(* Gpio implements PinBoard for every set of pins and held pads, while no  *)
(* other process sets pins.                                                *)
(***************************************************************************)
EXTENDS Gpio_proofs, SequenceTheorems

\* What a handler reads is an integer.
LEMMA IntsType == Ints \subseteq Int
BY JsonAssumption, IntHalfAssumption DEF Ints, ToInt

-----------------------------------------------------------------------------
(* The instance of PinBoard speaks of the same requests, pins and effects. *)

LEMMA SameOperators ==
  /\ Board!Requests = Requests /\ Board!NoRequest = NoRequest
  /\ Board!NoPin = NoPin /\ Board!PowerOn = PowerOn
  /\ Board!Levels = Levels /\ Board!Drives = Drives
BY DEF Board!Requests, Requests, Board!ModeRequests, ModeRequests,
       Board!ValueRequests, ValueRequests, Board!Ints, Ints, Board!ToInt, ToInt,
       Board!AttrsRequests, AttrsRequests,
       Board!NoRequest, NoRequest, Board!NoPin, NoPin, Board!Absent, Absent,
       Board!PowerOn, PowerOn, Board!Coherent, Coherent, Board!DrivenLevel, DrivenLevel,
       Board!PinState, PinState, Board!Funcs, Funcs, Board!Drives, Drives,
       Board!Pulls, Pulls, Board!Levels, Levels

LEMMA SameEffects == \A r : Board!Effects(r) = Effects(r)
BY DEF Board!Effects, Effects, Board!DriveOf, DriveOf, Board!InitialValue, InitialValue,
       Board!Absent, Absent

-----------------------------------------------------------------------------
(* The effects of each kind of request. *)

LEMMA Pairs ==
  ASSUME NEW a, NEW b
  PROVE  <<a>> \o <<b>> = <<a, b>>
<1> DEFINE S == {a, b}
<1>1. <<a>> \in Seq(S) /\ <<b>> \in Seq(S) /\ <<a, b>> \in Seq(S)
  OBVIOUS
<1>2. <<a>> \o <<b>> \in Seq(S) /\ Len(<<a>> \o <<b>>) = 2 /\ Len(<<a, b>>) = 2
  BY <1>1
<1>3. (<<a>> \o <<b>>)[1] = a /\ (<<a>> \o <<b>>)[2] = b
  BY <1>1
<1>4. \A i \in 1 .. 2 : (<<a>> \o <<b>>)[i] = <<a, b>>[i]
  <2>1. \A i \in 1 .. 2 : i = 1 \/ i = 2
    OBVIOUS
  <2>2. QED
    BY <1>3, <2>1
<1>5. QED
  BY <1>1, <1>2, <1>4, SeqEqual

LEMMA ShortSequences ==
  ASSUME NEW a, NEW b
  PROVE  /\ <<a>> # <<>> /\ Head(<<a>>) = a /\ Tail(<<a>>) = <<>>
         /\ <<a, b>> # <<>> /\ Head(<<a, b>>) = a /\ Tail(<<a, b>>) = <<b>>
         /\ <<>> \o <<a>> = <<a>> /\ <<a>> \o <<>> = <<a>>
         /\ <<a>> \o <<b>> = <<a, b>>
<1>1. /\ <<a>> # <<>> /\ Head(<<a>>) = a
      /\ <<a, b>> # <<>> /\ Head(<<a, b>>) = a
  OBVIOUS
<1>2. Tail(<<a>>) = <<>>
  OBVIOUS
<1>3. Tail(<<a, b>>) = <<b>>
  OBVIOUS
<1>4. <<>> \o <<a>> = <<a>> /\ <<a>> \o <<>> = <<a>>
  OBVIOUS
<1>5. QED
  BY <1>1, <1>2, <1>3, <1>4, Pairs

PullEffect(r)  == [kind |-> "pull", pull |-> r.pull]
DriveEffect(r) == [kind |-> "drive", drive |-> r.drive]

LEMMA ModeEffects ==
  ASSUME NEW r, r.op = "mode"
  PROVE  /\ r.mode = "input" => Effects(r) = <<[kind |-> "input"]>>
         /\ r.mode = "output" =>
              Effects(r) = <<[kind |-> "output", drive |-> DriveOf(InitialValue(r.value))]>>
         /\ r.mode = "other" => Effects(r) = <<>>
BY DEF Effects

LEMMA ValueEffects ==
  ASSUME NEW r, r.op = "value"
  PROVE  Effects(r) = IF r.value \in {0, 1}
                      THEN <<[kind |-> "output", drive |-> DriveOf(r.value)]>> ELSE <<>>
BY DEF Effects

LEMMA AttrsEffects ==
  ASSUME NEW r, r.op = "attrs"
  PROVE  /\ r.pull = Absent /\ r.drive = Absent => Effects(r) = <<>>
         /\ r.pull # Absent /\ r.drive = Absent => Effects(r) = <<PullEffect(r)>>
         /\ r.pull = Absent /\ r.drive # Absent => Effects(r) = <<DriveEffect(r)>>
         /\ r.pull # Absent /\ r.drive # Absent =>
              Effects(r) = <<PullEffect(r), DriveEffect(r)>>
<1>1. Effects(r) = (IF r.pull = Absent THEN <<>> ELSE <<PullEffect(r)>>)
                   \o (IF r.drive = Absent THEN <<>> ELSE <<DriveEffect(r)>>)
  BY DEF Effects, PullEffect, DriveEffect
<1>2. /\ <<>> \o <<>> = <<>>
      /\ <<>> \o <<DriveEffect(r)>> = <<DriveEffect(r)>>
      /\ <<PullEffect(r)>> \o <<>> = <<PullEffect(r)>>
      /\ <<PullEffect(r)>> \o <<DriveEffect(r)>> = <<PullEffect(r), DriveEffect(r)>>
  BY ShortSequences
<1>3. QED
  BY <1>1, <1>2

-----------------------------------------------------------------------------
(* The inductive invariant of a machine where only the server sets pins. *)

\* A request is answered when it has a reply, and not before.
CodeInv == pc # "reply" <=> code = 0

\* handle_gpio_value lets only 0 and 1 through.
LevelInv == pc = "set" /\ req.op = "value" => req.value \in {0, 1}

AloneInv == Inv /\ CodeInv /\ LevelInv /\ ~touched

LEMMA AloneInit == Init => AloneInv
BY InvInit DEF Init, AloneInv, CodeInv, LevelInv

LEMMA AloneNext ==
  ASSUME ForeignCommands = {}
  PROVE  AloneInv /\ [Next]_vars => AloneInv'
<1> SUFFICES ASSUME AloneInv, [Next]_vars PROVE AloneInv'
  OBVIOUS
<1>1. Inv'
  BY InvNext DEF AloneInv
<1>2. CodeInv'
  BY DEF AloneInv, CodeInv, Next, Handler, Environment, HandleMode, HandleValue, HandleAttrs,
     Take, Goto, Reply, RunSet, ReadForPull, RunPull, StartDrive, ReadForDrive, RunDrive,
     PinctrlFails, Finish, OtherProcess, PadChanges, server, vars
<1>3. ~touched'
  BY DEF AloneInv, Next, Handler, Environment, HandleMode, HandleValue, HandleAttrs,
     Take, RunSet, ReadForPull, RunPull, ReadForDrive, RunDrive,
     PinctrlFails, Finish, PadChanges, history, vars
<1>4. LevelInv'
  <2>1. ASSUME NEW r \in ModeRequests, HandleMode(r) PROVE LevelInv'
    BY <2>1 DEF HandleMode, Take, ModeRequests, LevelInv
  <2>2. ASSUME NEW r \in ValueRequests, HandleValue(r) PROVE LevelInv'
    <3>1. r.value \in Int /\ req' = r
      BY <2>2, IntsType DEF HandleValue, Take, ValueRequests
    <3>2. pc' = "set" => ~(r.value < 0 \/ r.value > 1)
      BY <2>2 DEF HandleValue, Reply
    <3>3. QED
      BY <3>1, <3>2 DEF LevelInv
  <2>3. ASSUME NEW r \in AttrsRequests, HandleAttrs(r) PROVE LevelInv'
    BY <2>3 DEF HandleAttrs, Take, AttrsRequests, LevelInv
  <2>4. QED
    BY <2>1, <2>2, <2>3
       DEF AloneInv, LevelInv, Next, Handler, Environment, Goto, Reply, RunSet, ReadForPull,
           RunPull, StartDrive, ReadForDrive, RunDrive, PinctrlFails, Finish, OtherProcess,
           PadChanges, server, vars
<1>5. QED
  BY <1>1, <1>2, <1>3, <1>4 DEF AloneInv

-----------------------------------------------------------------------------
(* What is still to come, by where the handler stands. *)

LEMMA TodoWhere ==
  /\ pc \in {"set", "pull_read", "pull_set"} => Todo = Effects(req)
  /\ pc \in {"drive_read", "drive_set"} => Todo = <<DriveEffect(req)>>
  /\ pc \in {"idle", "reply"} => Todo = <<>>
BY DEF Todo, DriveEffect

\* While the handler works there is something to come.
LEMMA TodoNotEmpty ==
  ASSUME AloneInv, pc \in Working
  PROVE  Todo # <<>>
<1>1. Control /\ LevelInv
  BY DEF AloneInv, Inv, TypeInv
<1>2. CASE pc = "set" /\ req.op = "mode"
  BY <1>1, <1>2, TodoWhere, ModeEffects, ShortSequences DEF Control
<1>3. CASE pc = "set" /\ req.op = "value"
  BY <1>1, <1>3, TodoWhere, ValueEffects, ShortSequences DEF LevelInv
<1>4. CASE pc \in {"pull_read", "pull_set"}
  BY <1>1, <1>4, TodoWhere, AttrsEffects, ShortSequences DEF Control
<1>5. CASE pc \in {"drive_read", "drive_set"}
  BY <1>5, TodoWhere, ShortSequences
<1>6. QED
  BY <1>1, <1>2, <1>3, <1>4, <1>5 DEF Control, Working

-----------------------------------------------------------------------------
(* Steps of the handlers are steps of the board. *)

LEMMA ModeArrives ==
  ASSUME AloneInv, NEW r \in ModeRequests, HandleMode(r)
  PROVE  Board!Arrive(r)
<1>1. r \in Requests /\ r.op = "mode" /\ pc = "idle" /\ req = NoRequest /\ code = 0
  BY DEF HandleMode, Take, Requests, ModeRequests, AloneInv, Inv, TypeInv, Control, CodeInv
<1>2. req' = r /\ UNCHANGED pins
  BY DEF HandleMode, Take
<1>3. CASE pc' = "reply"
  <2>1. code' \in {400, 503} /\ (r.pin = NoPin \/ r.mode = "other")
    BY <1>3 DEF HandleMode, Reply, Goto
  <2>2. Todo' = <<>>
    BY <1>3 DEF Todo
  <2>3. QED
    BY <1>1, <1>2, <2>1, <2>2, SameOperators, SameEffects, ModeEffects
       DEF Board!Arrive, Board!Errors
<1>4. CASE pc' = "set"
  <2>1. r.pin # NoPin /\ r.mode \in {"input", "output"} /\ code' = 0
    BY <1>1, <1>4 DEF HandleMode, Reply, Goto
  <2>2. Todo' = Effects(r)
    BY <1>2, <1>4 DEF Todo
  <2>3. Effects(r) # <<>>
    BY <1>1, <2>1, ModeEffects, ShortSequences
  <2>4. QED
    BY <1>1, <1>2, <2>1, <2>2, <2>3, SameOperators, SameEffects DEF Board!Arrive
<1>5. QED
  BY <1>3, <1>4 DEF HandleMode, Reply, Goto

LEMMA ValueArrives ==
  ASSUME AloneInv, NEW r \in ValueRequests, HandleValue(r)
  PROVE  Board!Arrive(r)
<1>1. /\ r \in Requests /\ r.op = "value" /\ r.value \in Int
      /\ pc = "idle" /\ req = NoRequest /\ code = 0
  BY IntsType
     DEF HandleValue, Take, Requests, ValueRequests, AloneInv, Inv, TypeInv, Control, CodeInv
<1>2. req' = r /\ UNCHANGED pins
  BY DEF HandleValue, Take
<1>3. CASE r.pin = NoPin \/ r.value < 0 \/ r.value > 1
  <2>1. code' = 400 /\ Todo' = <<>> /\ (r.pin = NoPin \/ Effects(r) = <<>>)
    BY <1>1, <1>3, ValueEffects DEF HandleValue, Reply, Todo
  <2>2. QED
    BY <1>1, <1>2, <2>1, SameOperators, SameEffects DEF Board!Arrive, Board!Errors
<1>4. CASE ~(r.pin = NoPin \/ r.value < 0 \/ r.value > 1)
  <2>1. code' = 0 /\ pc' = "set" /\ r.pin # NoPin /\ r.value \in {0, 1}
    BY <1>1, <1>4 DEF HandleValue, Goto
  <2>2. Todo' = Effects(r)
    BY <1>2, <2>1 DEF Todo
  <2>3. Effects(r) # <<>>
    BY <1>1, <2>1, ValueEffects, ShortSequences
  <2>4. QED
    BY <1>1, <1>2, <2>1, <2>2, <2>3, SameOperators, SameEffects DEF Board!Arrive
<1>5. QED
  BY <1>3, <1>4

LEMMA AttrsArrives ==
  ASSUME AloneInv, NEW r \in AttrsRequests, HandleAttrs(r)
  PROVE  Board!Arrive(r)
<1>1. r \in Requests /\ r.op = "attrs" /\ pc = "idle" /\ req = NoRequest /\ code = 0
  BY DEF HandleAttrs, Take, Requests, AttrsRequests, AloneInv, Inv, TypeInv, Control, CodeInv
<1>2. req' = r /\ UNCHANGED pins
  BY DEF HandleAttrs, Take
<1>3. CASE r.pin = NoPin \/ (r.pull = Absent /\ r.drive = Absent)
  <2>1. pc' = "reply" /\ code' = 400
    BY <1>3 DEF HandleAttrs, Reply
  <2>2. Todo' = <<>> /\ (r.pin = NoPin \/ Effects(r) = <<>>)
    BY <1>1, <1>3, <2>1, AttrsEffects DEF Todo
  <2>3. QED
    BY <1>1, <1>2, <2>1, <2>2, SameOperators, SameEffects DEF Board!Arrive, Board!Errors
<1>4. CASE r.pin # NoPin /\ r.pull # Absent
  <2>1. pc' = "pull_read" /\ code' = 0
    BY <1>1, <1>4 DEF HandleAttrs, Goto
  <2>2. Todo' = Effects(r) /\ Effects(r) # <<>>
    BY <1>1, <1>2, <1>4, <2>1, AttrsEffects, ShortSequences DEF Todo
  <2>3. QED
    BY <1>1, <1>2, <1>4, <2>1, <2>2, SameOperators, SameEffects DEF Board!Arrive
<1>5. CASE r.pin # NoPin /\ r.pull = Absent /\ r.drive # Absent
  <2>1. pc' = "drive_read" /\ code' = 0
    BY <1>1, <1>5 DEF HandleAttrs, Goto
  <2>2. Todo' = <<DriveEffect(r)>>
    BY <1>2, <2>1 DEF Todo, DriveEffect
  <2>3. Effects(r) = <<DriveEffect(r)>> /\ Effects(r) # <<>>
    BY <1>1, <1>5, AttrsEffects, ShortSequences
  <2>4. QED
    BY <1>1, <1>2, <1>5, <2>1, <2>2, <2>3, SameOperators, SameEffects DEF Board!Arrive
<1>6. QED
  BY <1>3, <1>4, <1>5

\* A pin with two or three of its parts replaced.
PinDriven(pin, d, l) == [pin EXCEPT !.func = "op", !.drive = d, !.level = l]
PinInput(pin, u)     == [pin EXCEPT !.func = "ip", !.pull = u]
PinPulled(pin, d, u) == [pin EXCEPT !.drive = d, !.pull = u]

\* What the effects may make of a pin, one kind at a time.
LEMMA InputOutcomes ==
  ASSUME NEW pin, NEW e, NEW held, e.kind = "input"
  PROVE  Board!Outcomes(pin, e, held) = {[pin EXCEPT !.func = "ip"]}
BY DEF Board!Outcomes

LEMMA OutputOutcomes ==
  ASSUME NEW pin, NEW e, NEW held, e.kind = "output"
  PROVE  Board!Outcomes(pin, e, held) = {Board!Driven(pin, e.drive, held)}
BY DEF Board!Outcomes

LEMMA PullOutcomes ==
  ASSUME NEW pin, NEW e, NEW held, e.kind = "pull", e.pull # "bad"
  PROVE  /\ pin.func # "op" =>
              PinInput(pin, Board!PullToken(e.pull)) \in Board!Outcomes(pin, e, held)
         /\ pin.func = "op" =>
              \A d \in Drives : d = pin.drive \/ held =>
                PinPulled(pin, d, Board!PullToken(e.pull)) \in Board!Outcomes(pin, e, held)
<1>1. ASSUME pin.func # "op"
      PROVE  Board!Outcomes(pin, e, held)
               = {PinInput(pin, Board!PullToken(e.pull))}
  BY <1>1 DEF Board!Outcomes, PinInput
<1>2. ASSUME pin.func = "op"
      PROVE  Board!Outcomes(pin, e, held)
               = {PinPulled(pin, d, Board!PullToken(e.pull)) :
                    d \in {d \in Board!Drives : d = pin.drive \/ held}}
  BY <1>2 DEF Board!Outcomes, PinPulled
<1>3. QED
  BY <1>1, <1>2, SameOperators

LEMMA DriveOutcomes ==
  ASSUME NEW pin, NEW e, NEW held, e.kind = "drive", e.drive # "bad"
  PROVE  /\ pin.func # "op" => Board!Outcomes(pin, e, held) = {pin}
         /\ pin.func = "op" =>
              Board!Outcomes(pin, e, held) = {Board!Driven(pin, e.drive, held)}
<1>1. pin.func # "op" => Board!Outcomes(pin, e, held) = {pin}
  BY DEF Board!Outcomes
<1>2. pin.func = "op" =>
        Board!Outcomes(pin, e, held) = {Board!Driven(pin, e.drive, held)}
  BY DEF Board!Outcomes
<1>3. QED
  BY <1>1, <1>2

\* Such a pin, part by part.
LEMMA DrivenParts ==
  ASSUME NEW pin \in PinState, NEW d, NEW l
  PROVE  PinDriven(pin, d, l)
           = [func |-> "op", drive |-> d, pull |-> pin.pull, level |-> l]
<1> DEFINE q == [pin EXCEPT !.func = "op", !.drive = d, !.level = l]
<1>1. DOMAIN pin = {"func", "drive", "pull", "level"} /\ q = [i \in DOMAIN pin |-> q[i]]
  BY DEF PinState
<1>2. q.func = "op" /\ q.drive = d /\ q.pull = pin.pull /\ q.level = l
  BY DEF PinState
<1> HIDE DEF q
<1>3. q = [func |-> "op", drive |-> d, pull |-> pin.pull, level |-> l]
  BY <1>1, <1>2
<1>4. QED
  BY <1>3 DEF q, PinDriven

LEMMA InputParts ==
  ASSUME NEW pin \in PinState, NEW u
  PROVE  PinInput(pin, u)
           = [func |-> "ip", drive |-> pin.drive, pull |-> u, level |-> pin.level]
<1> DEFINE q == [pin EXCEPT !.func = "ip", !.pull = u]
<1>1. DOMAIN pin = {"func", "drive", "pull", "level"} /\ q = [i \in DOMAIN pin |-> q[i]]
  BY DEF PinState
<1>2. q.func = "ip" /\ q.drive = pin.drive /\ q.pull = u /\ q.level = pin.level
  BY DEF PinState
<1> HIDE DEF q
<1>3. q = [func |-> "ip", drive |-> pin.drive, pull |-> u, level |-> pin.level]
  BY <1>1, <1>2
<1>4. QED
  BY <1>3 DEF q, PinInput

LEMMA PulledParts ==
  ASSUME NEW pin \in PinState, NEW d, NEW u
  PROVE  PinPulled(pin, d, u)
           = [func |-> pin.func, drive |-> d, pull |-> u, level |-> pin.level]
<1> DEFINE q == [pin EXCEPT !.drive = d, !.pull = u]
<1>1. DOMAIN pin = {"func", "drive", "pull", "level"} /\ q = [i \in DOMAIN pin |-> q[i]]
  BY DEF PinState
<1>2. q.func = pin.func /\ q.drive = d /\ q.pull = u /\ q.level = pin.level
  BY DEF PinState
<1> HIDE DEF q
<1>3. q = [func |-> pin.func, drive |-> d, pull |-> u, level |-> pin.level]
  BY <1>1, <1>2
<1>4. QED
  BY <1>3 DEF q, PinPulled

\* A line that drives the pin and leaves its pull is what PinBoard calls driven.
LEMMA ExecuteDrives ==
  ASSUME NEW pin \in PinState, NEW d \in Drives, NEW p
  PROVE  Execute(pin, DriveCommand(d), p \in Held) = Board!Driven(pin, d, p \in Held)
<1> DEFINE level == IF p \in Held THEN pin.level ELSE DrivenLevel(d)
           driven == [func |-> "op", drive |-> d, pull |-> pin.pull, level |-> level]
<1>1. Execute(pin, DriveCommand(d), p \in Held) = driven
  BY DEF Execute, DriveCommand, Given, NoArg, Drives
<1>2. Board!DrivenLevel(d) = DrivenLevel(d)
  BY DEF Board!DrivenLevel, DrivenLevel
<1>3. Board!Driven(pin, d, p \in Held)
        = PinDriven(pin, d, level)
  BY <1>2 DEF Board!Driven, PinDriven
<1> HIDE DEF level
<1>4. PinDriven(pin, d, level) = driven
  BY DrivenParts
<1> HIDE DEF driven
<1>5. QED
  BY <1>1, <1>3, <1>4, Zenon

\* Writing the pull of a pin that is no output, and of an output with the drive
\* it has or takes from its pad.
LEMMA ExecutePullsInput ==
  ASSUME NEW pin \in PinState, NEW c, NEW u \in Pulls, NEW p,
         c.func = "ip", c.drive = NoArg, c.pull = u
  PROVE  Execute(pin, c, p \in Held) = PinInput(pin, u)
<1> DEFINE after == [func |-> "ip", drive |-> pin.drive, pull |-> u, level |-> pin.level]
<1>1. Execute(pin, c, p \in Held) = after
  BY DEF Execute, Given, NoArg, Pulls
<1>2. PinInput(pin, u) = after
  BY InputParts
<1> HIDE DEF after
<1>3. QED
  BY <1>1, <1>2, Zenon

LEMMA ExecutePullsOutput ==
  ASSUME NEW pin \in PinState, NEW c, NEW d \in Drives, NEW u \in Pulls, NEW p,
         c.func = "op", c.drive = d, c.pull = u, pin.func = "op",
         p \notin Held => pin.level = DrivenLevel(d)
  PROVE  Execute(pin, c, p \in Held) = PinPulled(pin, d, u)
<1> DEFINE after == [func |-> pin.func, drive |-> d, pull |-> u, level |-> pin.level]
<1>1. Given(c.drive, pin.drive) = d /\ Given(c.pull, pin.pull) = u
  BY DEF Given, NoArg, Pulls, Drives
<1>2. Execute(pin, c, p \in Held) = after
  BY <1>1 DEF Execute
<1>3. PinPulled(pin, d, u) = after
  BY PulledParts
<1> HIDE DEF after
<1>4. QED
  BY <1>2, <1>3, Zenon

\* The last effect of a request, and the first of two.
LEMMA LastApplies ==
  ASSUME UNCHANGED req, NEW e, NEW after,
         Todo = <<e>>, Todo' = <<>>, code' = 200,
         after \in Board!Outcomes(Here, e, req.pin \in Held),
         pins' = [pins EXCEPT ![req.pin] = after]
  PROVE  Board!Apply
<1>1. Todo # <<>> /\ Head(Todo) = e /\ Tail(Todo) = <<>>
  BY ShortSequences
<1>2. \E x \in Board!Outcomes(pins[req.pin], Head(Todo), req.pin \in Held) :
        pins' = [pins EXCEPT ![req.pin] = x]
  BY <1>1 DEF Here
<1>3. QED
  BY <1>1, <1>2 DEF Board!Apply

LEMMA FirstApplies ==
  ASSUME UNCHANGED req, NEW e, NEW f, NEW after,
         Todo = <<e, f>>, Todo' = <<f>>, code' = 0,
         after \in Board!Outcomes(Here, e, req.pin \in Held),
         pins' = [pins EXCEPT ![req.pin] = after]
  PROVE  Board!Apply
<1>1. Todo # <<>> /\ Head(Todo) = e /\ Tail(Todo) = <<f>> /\ <<f>> # <<>>
  BY ShortSequences
<1>2. \E x \in Board!Outcomes(pins[req.pin], Head(Todo), req.pin \in Held) :
        pins' = [pins EXCEPT ![req.pin] = x]
  BY <1>1 DEF Here
<1>3. QED
  BY <1>1, <1>2 DEF Board!Apply

LEMMA SetApplies ==
  ASSUME AloneInv, RunSet
  PROVE  Board!Apply
<1>1. /\ Control /\ LevelInv /\ pc = "set" /\ UNCHANGED req
      /\ code' = 200 /\ Todo = Effects(req) /\ Todo' = <<>>
      /\ Here \in PinState
  BY TodoWhere DEF AloneInv, Inv, TypeInv, TypeOK, Control, Working, RunSet, Reply, Todo, Here
<1>2. pins' = [pins EXCEPT ![req.pin] = Execute(Here, cmd, req.pin \in Held)]
  BY DEF RunSet, Run, Here
<1>3. CASE req.op = "mode" /\ req.mode = "input" /\ cmd = InputCommand
  <2> DEFINE e == [kind |-> "input"]
  <2>1. Todo = <<e>>
    BY <1>1, <1>3, ModeEffects
  <2> e.kind = "input"
    OBVIOUS
  <2>2. Execute(Here, cmd, req.pin \in Held) = [Here EXCEPT !.func = "ip"]
    BY <1>1, <1>3 DEF Execute, Given, InputCommand, PinState, NoArg
  <2> HIDE DEF e
  <2>3. [Here EXCEPT !.func = "ip"] \in Board!Outcomes(Here, e, req.pin \in Held)
    BY InputOutcomes
  <2>4. QED
    BY <1>1, <1>2, <2>1, <2>2, <2>3, LastApplies
<1>4. ASSUME NEW v, Todo = <<[kind |-> "output", drive |-> DriveOf(v)]>>,
             cmd = OutputCommand(v)
      PROVE  Board!Apply
  <2> DEFINE e == [kind |-> "output", drive |-> DriveOf(v)]
  <2> e.kind = "output" /\ e.drive = DriveOf(v)
    OBVIOUS
  <2>0. Todo = <<e>>
    BY <1>4
  <2> HIDE DEF e
  <2>1. Execute(Here, cmd, req.pin \in Held) = Board!Driven(Here, DriveOf(v), req.pin \in Held)
    <3>1. cmd = DriveCommand(DriveOf(v)) /\ DriveOf(v) \in Drives
      BY <1>4 DEF OutputCommand, DriveCommand, DriveOf, Drives
    <3>2. QED
      BY <1>1, <3>1, ExecuteDrives
  <2>2. Board!Driven(Here, DriveOf(v), req.pin \in Held)
          \in Board!Outcomes(Here, e, req.pin \in Held)
    BY OutputOutcomes
  <2>3. QED
    BY <1>1, <1>2, <2>0, <2>1, <2>2, LastApplies
<1>5. CASE req.op = "mode" /\ req.mode = "output" /\ cmd = OutputCommand(InitialValue(req.value))
  BY <1>1, <1>4, <1>5, ModeEffects
<1>6. CASE req.op = "value" /\ cmd = OutputCommand(req.value)
  BY <1>1, <1>4, <1>6, ValueEffects DEF LevelInv
<1>7. QED
  BY <1>1, <1>3, <1>5, <1>6 DEF Control

LEMMA PullApplies ==
  ASSUME AloneInv, RunPull
  PROVE  Board!Apply
<1>1. /\ Inv /\ Control /\ Undisturbed /\ pc = "pull_set" /\ UNCHANGED req
      /\ req.op = "attrs" /\ req.pull \in {"up", "down", "off"} /\ Here \in PinState
      /\ req.pin \in Pins
  BY AttrsFields
     DEF AloneInv, Inv, TypeInv, TypeOK, Control, Working, RunPull, Undisturbed, Here
<1>2. pins' = [pins EXCEPT ![req.pin] = Execute(Here, cmd, req.pin \in Held)]
  BY DEF RunPull, Run, Here
<1>3. /\ cmd.pull = PullToken(req.pull)
      /\ \/ cmd.func = "op" /\ cmd.drive \in Drives
         \/ cmd.func = "ip" /\ cmd.drive = NoArg
      /\ cmd.func = "op" <=> Here.func = "op"
      /\ cmd.func = "op" /\ req.pin \notin Held => cmd.drive = Here.drive
  BY <1>1 DEF Inv, PullInv
<1>4. /\ PullToken(req.pull) = Board!PullToken(req.pull)
      /\ PullToken(req.pull) \in Pulls /\ cmd \in Commands
  BY <1>1 DEF PullToken, Board!PullToken, Pulls, Inv, TypeInv, TypeOK
<1>5. Execute(Here, cmd, req.pin \in Held)
        \in Board!Outcomes(Here, PullEffect(req), req.pin \in Held)
  <2> DEFINE e == PullEffect(req)
             u == PullToken(req.pull)
  <2>1. e.kind = "pull" /\ e.pull # "bad" /\ u = Board!PullToken(e.pull)
    BY <1>1, <1>4 DEF PullEffect
  <2>2. Here \in PinState /\ u \in Pulls /\ cmd.pull = u
    BY <1>1, <1>3, <1>4
  <2> HIDE DEF e, u
  <2>3. CASE Here.func # "op"
    <3>1. cmd.func = "ip" /\ cmd.drive = NoArg
      BY <1>3, <2>3
    <3>2. Execute(Here, cmd, req.pin \in Held) = PinInput(Here, u)
      BY <2>2, <3>1, ExecutePullsInput
    <3>3. PinInput(Here, u) \in Board!Outcomes(Here, e, req.pin \in Held)
      BY <2>1, <2>3, PullOutcomes
    <3>4. QED
      BY <3>2, <3>3, Zenon DEF e
  <2>4. CASE Here.func = "op"
    <3>1. cmd.func = "op" /\ cmd.drive \in Drives
      BY <1>3, <2>4
    <3>2. req.pin \notin Held => cmd.drive = Here.drive /\ Here.level = DrivenLevel(cmd.drive)
      BY <1>1, <1>3, <2>4 DEF Inv, PadInv, Coherent, Here
    <3>3. Execute(Here, cmd, req.pin \in Held) = PinPulled(Here, cmd.drive, u)
      BY <2>2, <2>4, <3>1, <3>2, ExecutePullsOutput
    <3>4. PinPulled(Here, cmd.drive, u) \in Board!Outcomes(Here, e, req.pin \in Held)
      BY <2>1, <2>4, <3>1, <3>2, PullOutcomes
    <3>5. QED
      BY <3>3, <3>4, Zenon DEF e
  <2>5. QED
    BY <2>3, <2>4
<1>6. CASE req.drive = Absent
  <2>1. Todo = <<PullEffect(req)>>
    BY <1>1, <1>6, TodoWhere, AttrsEffects DEF Control
  <2>2. Todo' = <<>> /\ code' = 200
    BY <1>6 DEF RunPull, StartDrive, Reply, Todo
  <2>3. QED
    BY <1>1, <1>2, <1>5, <2>1, <2>2, LastApplies
<1>7. CASE req.drive # Absent
  <2>1. Todo = <<PullEffect(req), DriveEffect(req)>>
    BY <1>1, <1>7, TodoWhere, AttrsEffects DEF Control
  <2>2. Todo' = <<DriveEffect(req)>> /\ code' = 0
    BY <1>1, <1>7 DEF RunPull, StartDrive, Goto, Todo, DriveEffect, AloneInv, CodeInv
  <2>3. QED
    BY <1>1, <1>2, <1>5, <2>1, <2>2, FirstApplies
<1>8. QED
  BY <1>6, <1>7

LEMMA DriveApplies ==
  ASSUME AloneInv, RunDrive
  PROVE  Board!Apply
<1>1. /\ Inv /\ Undisturbed /\ pc = "drive_set" /\ UNCHANGED req /\ Here \in PinState
      /\ req.drive \in Drives /\ cmd = DriveCommand(req.drive)
      /\ Todo = <<DriveEffect(req)>> /\ Todo' = <<>> /\ code' = 200
  BY TodoWhere
     DEF AloneInv, Inv, TypeInv, TypeOK, Control, Working, RunDrive, Reply, Undisturbed,
         Here, Todo
<1>2. pins' = [pins EXCEPT ![req.pin] = Execute(Here, cmd, req.pin \in Held)]
  BY DEF RunDrive, Run, Here
<1>3. Here.func = "op"
  BY <1>1 DEF Inv, DriveInv
<1>4. Execute(Here, cmd, req.pin \in Held) = Board!Driven(Here, req.drive, req.pin \in Held)
  BY <1>1, ExecuteDrives
<1>5. Board!Driven(Here, req.drive, req.pin \in Held)
        \in Board!Outcomes(Here, DriveEffect(req), req.pin \in Held)
  <2>1. DriveEffect(req).kind = "drive" /\ DriveEffect(req).drive = req.drive
    BY DEF DriveEffect
  <2>2. req.drive # "bad"
    BY <1>1 DEF Drives
  <2>3. QED
    BY <1>3, <2>1, <2>2, DriveOutcomes
<1>6. QED
  BY <1>1, <1>2, <1>4, <1>5, LastApplies

\* gpio_set_drive reports success for a pin that is not an output.
LEMMA SkippedDriveApplies ==
  ASSUME AloneInv, ReadForDrive, req.drive # "bad", Here.func # "op"
  PROVE  Board!Apply
<1>1. /\ pc = "drive_read" /\ UNCHANGED <<req, pins>> /\ req.pin \in Pins
      /\ code' = 200 /\ pc' = "reply" /\ pins \in [Pins -> PinState]
  BY DEF AloneInv, Inv, TypeInv, TypeOK, Control, Working, ReadForDrive, Reply, Mode
<1>2. Todo = <<DriveEffect(req)>> /\ Todo' = <<>>
  BY <1>1, TodoWhere DEF Todo
<1>3. pins' = [pins EXCEPT ![req.pin] = Here]
  BY <1>1 DEF Here
<1>4. Here \in Board!Outcomes(Here, DriveEffect(req), req.pin \in Held)
  <2>1. DriveEffect(req).kind = "drive" /\ DriveEffect(req).drive = req.drive
    BY DEF DriveEffect
  <2>2. QED
    BY <2>1, DriveOutcomes
<1>5. QED
  BY <1>1, <1>2, <1>3, <1>4, LastApplies

LEMMA ErrorAbandons ==
  ASSUME AloneInv, pc \in Working, pc' = "reply", code' \in {400, 503},
         UNCHANGED <<pins, req>>
  PROVE  Board!Abandon
<1>1. Todo # <<>>
  BY TodoNotEmpty
<1>2. Todo' = <<>>
  BY DEF Todo
<1>3. QED
  BY <1>1, <1>2 DEF Board!Abandon, Board!Errors

-----------------------------------------------------------------------------
(* The refinement. *)

LEMMA BoardInit == Init => Board!Init
BY SameOperators DEF Init, Board!Init, Todo

LEMMA BoardNext ==
  ASSUME ForeignCommands = {}, AloneInv, [Next]_vars
  PROVE  [Board!Next]_Board!vars
<1>1. ASSUME NEW r \in ModeRequests, HandleMode(r) PROVE Board!Next
  BY <1>1, ModeArrives, SameOperators DEF Board!Next, Requests
<1>2. ASSUME NEW r \in ValueRequests, HandleValue(r) PROVE Board!Next
  BY <1>2, ValueArrives, SameOperators DEF Board!Next, Requests
<1>3. ASSUME NEW r \in AttrsRequests, HandleAttrs(r) PROVE Board!Next
  BY <1>3, AttrsArrives, SameOperators DEF Board!Next, Requests
<1>4. CASE RunSet
  BY <1>4, SetApplies DEF Board!Next
<1>5. CASE RunPull
  BY <1>5, PullApplies DEF Board!Next
<1>6. CASE RunDrive
  BY <1>6, DriveApplies DEF Board!Next
<1>7. CASE ReadForPull
  <2>1. CASE req.pull = "bad"
    BY <1>7, <2>1, ErrorAbandons DEF ReadForPull, Reply, Working, Board!Next
  <2>2. CASE req.pull # "bad"
    BY <1>7, <2>2 DEF ReadForPull, Goto, Todo, Board!vars
  <2>3. QED
    BY <2>1, <2>2
<1>8. CASE ReadForDrive
  <2>1. CASE req.drive = "bad"
    BY <1>8, <2>1, ErrorAbandons DEF ReadForDrive, Reply, Working, Board!Next
  <2>2. CASE req.drive # "bad" /\ Here.func # "op"
    BY <1>8, <2>2, SkippedDriveApplies DEF Board!Next
  <2>3. CASE req.drive # "bad" /\ Here.func = "op"
    BY <1>8, <2>3 DEF ReadForDrive, Goto, Mode, Todo, Board!vars
  <2>4. QED
    BY <2>1, <2>2, <2>3
<1>9. CASE PinctrlFails
  BY <1>9, ErrorAbandons DEF PinctrlFails, Reply, Working, Board!Next
<1>10. CASE Finish
  BY <1>10, SameOperators DEF Finish, AloneInv, CodeInv, Todo, Board!Leave, Board!Next
<1>11. ASSUME NEW p \in Pins, NEW l \in Levels, PadChanges(p, l) PROVE Board!Next
  <2>1. Todo' = Todo
    BY <1>11 DEF PadChanges, server, Todo
  <2>2. Board!PadChanges(p, l)
    BY <1>11, <2>1 DEF PadChanges, server, Board!PadChanges
  <2>3. QED
    BY <2>2, SameOperators DEF Board!Next
<1>12. CASE UNCHANGED vars
  BY <1>12 DEF vars, server, Todo, Board!vars
<1>13. QED
  BY <1>1, <1>2, <1>3, <1>4, <1>5, <1>6, <1>7, <1>8, <1>9, <1>10, <1>11, <1>12
     DEF Next, Handler, Environment

\* While no other process sets pins, the handlers of the GPIO API, one pinctrl
\* process at a time and any of them failing, do what PinBoard promises: the
\* effects of a request one by one and in order, and a 200 exactly when all of
\* them have happened.
THEOREM HandlersImplementBoard ==
  ASSUME ForeignCommands = {}
  PROVE  Spec => ImplementsBoard
<1>1. AloneInv /\ [Next]_vars => AloneInv'
  BY AloneNext
<1>2. AloneInv /\ [Next]_vars => [Board!Next]_Board!vars
  BY BoardNext
<1>3. QED
  BY <1>1, <1>2, AloneInit, BoardInit, PTL DEF Spec, ImplementsBoard, Board!Spec

=============================================================================
