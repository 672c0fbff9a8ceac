----------------------------- MODULE PwmService -----------------------------
(***************************************************************************)
(* What the PWM API promises its clients. A request happens at once when   *)
(* it is answered. A config that succeeds is on its channel and has left   *)
(* the switch alone; one that fails, or that the server does not survive,  *)
(* has happened as far as one of its writes, and may have left the output  *)
(* off. Where the switch ends is anybody's guess if another process used   *)
(* it meanwhile. Pwm implements this write by write, and the server of     *)
(* PwmPage is one channel of it.                                           *)
(***************************************************************************)
EXTENDS PwmSysfs

CONSTANTS Channels, ConfigRequests, EnableRequests, StatusRequest, NoRequest, Nothing

VARIABLES
  outputs,   \* what each channel puts out
  req,       \* the request at work or answered
  code,      \* the status of the reply, 0 while the request is at work
  shown,     \* what a status shows
  disturbed  \* another process has used the switch of the config at work

vars == <<outputs, req, code, shown, disturbed>>

Here == outputs[req.channel]

Init ==
  /\ outputs = [c \in Channels |-> Output(Unexported)]
  /\ req = NoRequest /\ code = 0 /\ shown = Nothing /\ disturbed = FALSE

Valid(r) ==
  \/ r.op = "status"
  \/ r.op = "enable" /\ r.channel \in Channels /\ r.enable \in {0, 1}
  \/ /\ r.op = "config" /\ r.channel \in Channels /\ ValidFrequency(r.frequency)
     /\ r.duty \in Percents /\ r.polarity \in Polarities

\* The board may have no PWM.
Arrive(r) ==
  /\ req = NoRequest
  /\ req' = r
  /\ \/ code' = IF Valid(r) THEN 0 ELSE 400
     \/ r.op = "status" /\ code' = 503
  /\ UNCHANGED <<outputs, shown, disturbed>>

Working == req # NoRequest /\ code = 0

\* Output o after the first n writes of config r.
Written(o, r, n) ==
  LET period == PeriodNs(r.frequency) IN
  [enable   |-> o.enable,
   period   |-> IF n >= 1 THEN period ELSE o.period,
   duty     |-> IF n >= 2 THEN DutyNs(period, r.duty) ELSE o.duty,
   polarity |-> IF n = 3 THEN r.polarity ELSE o.polarity]

Switched(o, enable) == [o EXCEPT !.enable = enable]

\* The config has happened up to its write n, and the switch ends as enable.
ConfigEnds(n, enable) ==
  /\ enable \in (IF disturbed THEN {0, 1} ELSE {0, Here.enable})
  /\ outputs' = [outputs EXCEPT ![req.channel] = Switched(Written(@, req, n), enable)]

ConfigDone ==
  /\ Working /\ req.op = "config"
  /\ \E enable \in {0, 1} :
       /\ disturbed \/ enable = Here.enable
       /\ ConfigEnds(3, enable)
  /\ code' = 200 /\ disturbed' = FALSE
  /\ UNCHANGED <<req, shown>>

EnableDone ==
  /\ Working /\ req.op = "enable"
  /\ outputs' = [outputs EXCEPT ![req.channel] = Switched(@, req.enable)]
  /\ code' = 200
  /\ UNCHANGED <<req, shown, disturbed>>

StatusDone ==
  /\ Working /\ req.op = "status"
  /\ \E failed \in [Channels -> SUBSET {"enable", "period", "duty"}] :
       shown' = [c \in Channels |-> Look(outputs[c], failed[c])]
  /\ code' = 200
  /\ UNCHANGED <<outputs, req, disturbed>>

EndsInPart ==
  IF req.op = "config" THEN \E n \in 0 .. 3, enable \in {0, 1} : ConfigEnds(n, enable)
                       ELSE UNCHANGED outputs

Fail ==
  /\ Working /\ EndsInPart
  /\ code' = 503 /\ disturbed' = FALSE
  /\ UNCHANGED <<req, shown>>

Forget == req' = NoRequest /\ code' = 0 /\ shown' = Nothing /\ disturbed' = FALSE
Crash  == Working /\ EndsInPart /\ Forget
Leave  == code # 0 /\ Forget /\ UNCHANGED outputs

\* Of a config at work the outcome shows when it ends.
OtherProcess(c, enable) ==
  /\ IF Working /\ req.op = "config" /\ req.channel = c
       THEN disturbed' = TRUE /\ UNCHANGED outputs
       ELSE /\ outputs' = [outputs EXCEPT ![c] = Switched(@, enable)]
            /\ UNCHANGED disturbed
  /\ UNCHANGED <<req, code, shown>>

Next ==
  \/ \E r \in ConfigRequests \cup EnableRequests \cup {StatusRequest} : Arrive(r)
  \/ ConfigDone \/ EnableDone \/ StatusDone
  \/ Fail \/ Crash \/ Leave
  \/ \E c \in Channels, enable \in {0, 1} : OtherProcess(c, enable)

Spec == Init /\ [][Next]_vars

=============================================================================
