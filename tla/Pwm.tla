-------------------------------- MODULE Pwm --------------------------------
(***************************************************************************)
(* The PWM handlers of router.c and the pwm.c operations they call: a      *)
(* request is a sequence of writes to sysfs files. A write may fail, the   *)
(* kernel may refuse it, the server may be killed between two of them, and *)
(* another process of the machine may switch the channel meanwhile. What   *)
(* was written stays written; the server itself remembers nothing.         *)
(***************************************************************************)
EXTENDS PwmSysfs

CONSTANTS
  NumChannels,     \* PWM_CHANNEL_COUNT: channels are 0 .. NumChannels - 1
  Frequencies, DutyInts, EnableInts   \* the integers that bodies carry, of any size

Channels   == 0 .. NumChannels - 1
BadChannel == NumChannels   \* stands for any number the URI check refuses

ASSUME ChannelsAssumption == NumChannels \in Nat \ {0}
ASSUME IntsAssumption ==
  Frequencies \subseteq Int /\ DutyInts \subseteq Int /\ EnableInts \subseteq Int

\* A request holds its integers as the handlers read them.
ConfigRequests == [op : {"config"}, channel : Channels \cup {BadChannel},
                   frequency : {ToInt(n) : n \in Frequencies},
                   duty : {ToInt(n) : n \in DutyInts},
                   polarity : Polarities \cup {"bad"}]
EnableRequests == [op : {"enable"}, channel : Channels \cup {BadChannel},
                   enable : {ToInt(n) : n \in EnableInts}]
StatusRequest  == [op |-> "status"]
NoRequest      == [op |-> "none"]
Requests       == ConfigRequests \cup EnableRequests \cup {StatusRequest}

\* One channel of the reply to GET /api/pwm/channels.
Shown   == [frequency : Nat, duty : 0 .. 100, enabled : {0, 1}]
Nothing == [c \in Channels |-> [frequency |-> 0, duty |-> 0, enabled |-> 0]]
NoConfig == [frequency |-> 0, duty |-> 0]

Files == {"export", "enable_read", "enable", "period", "duty", "polarity",
          "status_read"}

VARIABLES
  hw,        \* the channels
  pc,        \* where the handler stands
  req,       \* the request it works on
  target,    \* the channel it works on
  original,  \* original_enable of pwm_apply_config
  shown,     \* the status it has gathered
  code,      \* the status of the reply
  \* History, for the properties only:
  before,    \* the target when the request arrived
  faults,    \* files that failed during the request at work
  touched,   \* another process has switched the target since
  wasOn,     \* the target was enabled at some moment of the request
  applied    \* what each channel was last configured to, if that was a success

server  == <<pc, req, target, original, shown, code>>
request == <<before, faults, touched, wasOn>>
vars    == <<hw, server, request, applied>>

PCs == {"idle", "export", "read_enable", "disable", "period", "duty",
        "polarity", "restore", "recover", "enable", "status", "reply"}

-----------------------------------------------------------------------------
Idle ==
  /\ pc = "idle" /\ req = NoRequest /\ target = 0 /\ original = 0
  /\ shown = Nothing /\ code = 0
  /\ before = Unexported /\ faults = {} /\ touched = FALSE /\ wasOn = FALSE

Init ==
  /\ hw = [c \in Channels |-> Unexported]
  /\ applied = [c \in Channels |-> NoConfig]
  /\ Idle

Goto(next)    == pc' = next /\ UNCHANGED code
Reply(status) == pc' = "reply" /\ code' = status

\* router_handle_request hands request r to its handler, for channel c.
Take(r, c) ==
  /\ pc = "idle"
  /\ req' = r
  /\ target' = c
  /\ before' = hw[c]
  /\ wasOn' = (hw[c].enable = 1)
  /\ UNCHANGED <<hw, original, shown, faults, touched, applied>>

\* handle_pwm_config up to pwm_apply_config.
ValidConfig(r) == /\ r.channel \in Channels
                  /\ ValidFrequency(r.frequency)
                  /\ r.duty \in Percents
                  /\ r.polarity \in Polarities
HandleConfig(r) ==
  /\ Take(r, IF r.channel \in Channels THEN r.channel ELSE 0)
  /\ IF ValidConfig(r) THEN Goto("export") ELSE Reply(400)

\* handle_pwm_enable up to pwm_set_enable.
HandleEnable(r) ==
  /\ Take(r, IF r.channel \in Channels THEN r.channel ELSE 0)
  /\ IF r.channel \in Channels /\ r.enable \in {0, 1} THEN Goto("export")
                                                      ELSE Reply(400)

\* handle_pwm_channels: the device tree first.
HandleStatus ==
  /\ Take(StatusRequest, 0)
  /\ Reply(503) \/ Goto("export")

-----------------------------------------------------------------------------
(* ensure_exported, for every operation, and for every channel on a GET. *)

AfterExportUnbounded ==
  /\ code' = code
  /\ \/ req.op = "config" /\ pc' = "read_enable" /\ target' = target
     \/ req.op = "enable" /\ pc' = "enable" /\ target' = target
     \/ req.op = "status" /\ pc' = "export" /\ target' = target + 1
AfterExport ==
  /\ code' = code
  /\ \/ req.op = "config" /\ pc' = "read_enable" /\ target' = target
     \/ req.op = "enable" /\ pc' = "enable" /\ target' = target
     \/ /\ req.op = "status" /\ target + 1 \in Channels
        /\ pc' = "export" /\ target' = target + 1
     \/ /\ req.op = "status" /\ target + 1 \notin Channels
        /\ pc' = "status" /\ target' = target

AlreadyExported ==
  /\ pc = "export" /\ hw[target].node = "present"
  /\ AfterExport
  /\ UNCHANGED <<hw, req, original, shown, request, applied>>

\* The directory appears within the 200 ms of the loop.
Export ==
  /\ pc = "export" /\ hw[target].node = "absent"
  /\ hw' = [hw EXCEPT ![target].node = "present"]
  /\ AfterExport
  /\ UNCHANGED <<req, original, shown, request, applied>>

\* The write fails, also because the channel is exported already, or the
\* directory does not appear in time.
ExportFails ==
  /\ pc = "export" /\ hw[target].node # "present"
  /\ \/ UNCHANGED hw
     \/ hw' = [hw EXCEPT ![target].node = "pending"]
  /\ faults' = faults \cup {"export"}
  /\ Reply(503)
  /\ UNCHANGED <<req, target, original, shown, before, touched, wasOn, applied>>

-----------------------------------------------------------------------------
(* One write to a file of the target: Writes(field, value) if the kernel     *)
(* accepts it. Refused says why it does not: a fault, or the kernel's rule.  *)

Written(field, value) == [hw[target] EXCEPT ![field] = value]

Writes(field, value) ==
  /\ Drivable(Written(field, value))
  /\ hw' = [hw EXCEPT ![target] = Written(field, value)]
  /\ UNCHANGED faults

Refused(field, value) ==
  /\ UNCHANGED hw
  /\ \/ faults' = faults \cup {field}
     \/ ~Drivable(Written(field, value)) /\ UNCHANGED faults

\* pwm_apply_config: an enable file that cannot be read counts as 0.
ReadEnableOnly ==
  /\ pc = "read_enable"
  /\ \/ original' = hw[target].enable /\ UNCHANGED faults
     \/ original' = 0 /\ faults' = faults \cup {"enable_read"}
  /\ Goto("period")
  /\ UNCHANGED <<hw, req, target, shown, before, touched, wasOn, applied>>
ReadEnable ==
  /\ pc = "read_enable"
  /\ \/ original' = hw[target].enable /\ UNCHANGED faults
     \/ original' = 0 /\ faults' = faults \cup {"enable_read"}
  /\ Goto(IF original' = 1 THEN "disable" ELSE "period")
  /\ UNCHANGED <<hw, req, target, shown, before, touched, wasOn, applied>>

\* What a step of pwm_apply_config leaves alone.
Kept == UNCHANGED <<req, target, original, shown, before, touched, wasOn>>

Disable ==
  /\ pc = "disable"
  /\ \/ Writes("enable", 0) /\ Goto("period")
     \/ Refused("enable", 0) /\ Reply(503)
  /\ Kept /\ UNCHANGED applied

\* A failed write of a parameter: enable is written back if it was on.
GiveUpAtOnce ==
  /\ Reply(503)
  /\ applied' = [applied EXCEPT ![target] = NoConfig]
GiveUpTurningOn ==
  /\ Goto("recover")
  /\ applied' = [applied EXCEPT ![target] = NoConfig]
GiveUp ==
  /\ IF original = 1 THEN Goto("recover") ELSE Reply(503)
  /\ applied' = [applied EXCEPT ![target] = NoConfig]

WritePeriod ==
  /\ pc = "period"
  /\ LET period == PeriodNs(req.frequency) IN
       \/ Writes("period", period) /\ Goto("duty") /\ UNCHANGED applied
       \/ Refused("period", period) /\ GiveUp
  /\ Kept

WriteDutyUnchecked ==
  /\ pc = "duty"
  /\ LET duty == DutyNs(PeriodNs(req.frequency), req.duty) IN
       Writes("duty", duty) \/ Refused("duty", duty)
  /\ Goto("polarity")
  /\ UNCHANGED applied
  /\ Kept
WriteDuty ==
  /\ pc = "duty"
  /\ LET duty == DutyNs(PeriodNs(req.frequency), req.duty) IN
       \/ Writes("duty", duty) /\ Goto("polarity") /\ UNCHANGED applied
       \/ Refused("duty", duty) /\ GiveUp
  /\ Kept

Configured == applied' = [applied EXCEPT ![target] =
                [frequency |-> req.frequency, duty |-> req.duty]]

WritePolarityLeavingOff ==
  /\ pc = "polarity"
  /\ \/ Writes("polarity", req.polarity) /\ Reply(200) /\ Configured
     \/ Refused("polarity", req.polarity) /\ GiveUp
  /\ Kept
WritePolarity ==
  /\ pc = "polarity"
  /\ \/ /\ Writes("polarity", req.polarity)
        /\ IF original = 1 THEN Goto("restore") ELSE Reply(200)
        /\ Configured
     \/ Refused("polarity", req.polarity) /\ GiveUp
  /\ Kept

Restore ==
  /\ pc = "restore"
  /\ \/ Writes("enable", 1) /\ Reply(200)
     \/ Refused("enable", 1) /\ Reply(503)
  /\ Kept /\ UNCHANGED applied

\* The outcome of this write is ignored.
Recover ==
  /\ pc = "recover"
  /\ Writes("enable", 1) \/ Refused("enable", 1)
  /\ Reply(503)
  /\ Kept /\ UNCHANGED applied

\* pwm_set_enable
WriteEnable ==
  /\ pc = "enable"
  /\ \/ Writes("enable", req.enable) /\ Reply(200)
     \/ Refused("enable", req.enable) /\ Reply(503)
  /\ Kept /\ UNCHANGED applied

\* pwm_get_channels_status
ReadStatus ==
  /\ pc = "status"
  /\ \E failed \in [Channels -> SUBSET {"enable", "period", "duty"}] :
       /\ shown' = [c \in Channels |-> Look(hw[c], failed[c])]
       /\ faults' = IF \A c \in Channels : failed[c] = {} THEN faults
                    ELSE faults \cup {"status_read"}
  /\ Reply(200)
  /\ UNCHANGED <<hw, req, target, original, before, touched, wasOn, applied>>

\* The event loop goes on, or the server is killed and started again: between
\* any two writes, and with nothing to pick up from.
Forget ==
  /\ pc' = "idle" /\ req' = NoRequest /\ target' = 0 /\ original' = 0
  /\ shown' = Nothing /\ code' = 0
  /\ before' = Unexported /\ faults' = {} /\ touched' = FALSE /\ wasOn' = FALSE
  /\ UNCHANGED hw

Finish == pc = "reply" /\ Forget /\ UNCHANGED applied

Crash ==
  /\ pc \notin {"idle", "reply"}
  /\ Forget
  /\ applied' = [applied EXCEPT ![target] =
       IF req.op = "config" THEN NoConfig ELSE @]

-----------------------------------------------------------------------------
\* A channel that was exported late.
NodeAppears(c) ==
  /\ hw[c].node = "pending"
  /\ hw' = [hw EXCEPT ![c].node = "present"]
  /\ UNCHANGED <<server, request, applied>>

\* Another process switches a channel.
OtherProcess(c, enable) ==
  LET switched == [hw[c] EXCEPT !.enable = enable] IN
  /\ hw[c].node = "present" /\ hw[c].enable # enable /\ Drivable(switched)
  /\ hw' = [hw EXCEPT ![c] = switched]
  /\ IF pc # "idle" /\ target = c
       THEN touched' = TRUE /\ wasOn' = (wasOn \/ enable = 1)
       ELSE UNCHANGED <<touched, wasOn>>
  /\ UNCHANGED <<server, before, faults, applied>>

Next ==
  \/ \E r \in ConfigRequests : HandleConfig(r)
  \/ \E r \in EnableRequests : HandleEnable(r)
  \/ HandleStatus
  \/ AlreadyExported \/ Export \/ ExportFails
  \/ ReadEnable \/ Disable
  \/ WritePeriod \/ WriteDuty \/ WritePolarity
  \/ Restore \/ Recover
  \/ WriteEnable
  \/ ReadStatus
  \/ Finish \/ Crash
  \/ \E c \in Channels : NodeAppears(c)
  \/ \E c \in Channels, enable \in {0, 1} : OtherProcess(c, enable)

Spec == Init /\ [][Next]_vars

-----------------------------------------------------------------------------
\* For other clients a config happens when it ends.
AtWork  == req.op = "config" /\ pc \notin {"idle", "reply"}
Outputs == [c \in Channels |-> Output(IF AtWork /\ c = target THEN before ELSE hw[c])]

Service == INSTANCE PwmService WITH outputs <- Outputs, disturbed <- touched /\ AtWork

-----------------------------------------------------------------------------
TypeOK ==
  /\ hw \in [Channels -> Channel]
  /\ pc \in PCs
  /\ req \in Requests \cup {NoRequest}
  /\ target \in Channels
  /\ original \in {0, 1}
  /\ shown \in [Channels -> Shown]
  /\ code \in {0, 200, 400, 503}
  /\ before \in Channel
  /\ faults \subseteq Files
  /\ touched \in BOOLEAN /\ wasOn \in BOOLEAN
  /\ applied \in [Channels -> [frequency : Int, duty : Int]]

Here == hw[target]

\* A reply 200 is true when it is sent: every parameter is on the channel, and
\* a config has left the switch where it found it, through up to six writes.
SuccessIsApplied ==
  pc = "reply" /\ code = 200 /\ ~touched =>
    /\ req.op = "enable" => Here.enable = req.enable
    /\ req.op = "config" =>
         /\ Here.period = PeriodNs(req.frequency)
         /\ Here.duty = DutyNs(Here.period, req.duty)
         /\ Here.polarity = req.polarity
         /\ Here.enable = before.enable

\* Whatever fails on the way, a config that is answered has left the switch
\* where it found it, unless the enable file itself could not be written: the
\* kernel never refuses the write that turns a channel back on.
SwitchIsKept ==
  pc = "reply" /\ req.op = "config" /\ ~touched /\ "enable" \notin faults
    => Here.enable = before.enable

\* A config that fails half way has applied a prefix of the parameters, in the
\* order period, duty, polarity.
ErrorAppliesPrefix ==
  pc = "reply" /\ code # 200 /\ req.op = "config" =>
    /\ Here.duty # before.duty => Here.period = PeriodNs(req.frequency)
    /\ Here.polarity # before.polarity =>
         Here.duty = DutyNs(Here.period, req.duty)

\* The parameters of a channel change only while its output is off, unless the
\* server could not read that it is on or another process turned it on.
ChangedWhileOff ==
  [][\A c \in Channels :
       /\ [hw[c] EXCEPT !.enable = 0, !.node = "present"] #
            [hw'[c] EXCEPT !.enable = 0, !.node = "present"]
       => hw[c].enable = 0 \/ touched \/ "enable_read" \in faults]_vars

\* Even when other processes switch the channel while a config is at work, and
\* whatever fails, the config ends with the output on only if it was on at some
\* moment since the request arrived.
ConfigNeverTurnsOn ==
  pc # "idle" /\ req.op = "config" /\ Here.enable = 1 => wasOn

\* What a status shows of a channel whose last config succeeded is what that
\* config asked for, up to rounding: a frequency that, applied again, is the
\* same period, and a duty cycle at most one percent lower.
StatusShowsConfig ==
  pc = "reply" /\ code = 200 /\ req.op = "status" /\ "status_read" \notin faults =>
    \A c \in Channels : applied[c] # NoConfig =>
      /\ shown[c].frequency >= applied[c].frequency
      /\ PeriodNs(shown[c].frequency) = hw[c].period
      /\ shown[c].duty \in {applied[c].duty - 1, applied[c].duty}

\* The output is switched off before the period and the duty cycle are written
\* so that the kernel does not refuse them: a valid config of an exported
\* channel is accepted when nothing fails.
ValidConfigAccepted ==
  pc = "reply" /\ req.op = "config" /\ ValidConfig(req) /\ faults = {} /\ ~touched
    => code = 200

\* The handlers, write by write, with anything failing, crashes and other processes
\* in between, implement the service that PwmService promises: a config happens as
\* a whole when it is answered 200 and otherwise as far as one of its writes, and
\* what a status shows is what there is.
ImplementsService == Service!Spec

=============================================================================
