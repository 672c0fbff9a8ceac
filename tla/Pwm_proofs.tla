----------------------------- MODULE Pwm_proofs -----------------------------
(***************************************************************************)
(* Proofs about Pwm for any number of channels, any integers in requests,  *)
(* which count as what the handlers read of them (ToInt), and any rates,   *)
(* as long as a period is at least a hundred nanoseconds.                  *)
(***************************************************************************)
EXTENDS Pwm, TLAPS

(* Division. *)

LEMMA Division ==
  ASSUME NEW a \in Nat, NEW b \in Nat \ {0}
  PROVE  /\ a \div b \in Nat
         /\ b * (a \div b) <= a
         /\ a < b * (a \div b) + b
  OBVIOUS

LEMMA QuotientIs ==
  ASSUME NEW a \in Nat, NEW b \in Nat \ {0}, NEW q \in Nat, b * q <= a, a < b * q + b
  PROVE  a \div b = q
  OBVIOUS

LEMMA QuotientAtLeast ==
  ASSUME NEW a \in Nat, NEW b \in Nat \ {0}, NEW q \in Nat, b * q <= a
  PROVE  a \div b >= q
  OBVIOUS

LEMMA QuotientBelow ==
  ASSUME NEW a \in Nat, NEW b \in Nat \ {0}, NEW q \in Nat, a < b * q
  PROVE  a \div b < q
  OBVIOUS

LEMMA ProductType ==
  ASSUME NEW a \in Nat, NEW b \in Nat
  PROVE  a * b \in Nat
  OBVIOUS

LEMMA ProductMonotonic ==
  ASSUME NEW a \in Nat, NEW b \in Nat, NEW c \in Nat, a <= b
  PROVE  a * c <= b * c
  OBVIOUS

-----------------------------------------------------------------------------
(* The arithmetic of pwm.c. *)

\* Every valid frequency has a period of at least a hundred nanoseconds.
LEMMA PeriodType ==
  ASSUME NEW f \in Int, ValidFrequency(f)
  PROVE  PeriodNs(f) \in Nat /\ PeriodNs(f) >= 100
<1>1. f \in Nat \ {0} /\ NsPerSec \in Nat /\ f * 100 <= NsPerSec
  BY FrequencyAssumption DEF ValidFrequency
<1>2. QED
  BY <1>1, Division, QuotientAtLeast DEF PeriodNs

LEMMA DutyType ==
  ASSUME NEW period \in Nat, NEW d \in Percents
  PROVE  DutyNs(period, d) \in Nat
<1>1. period * d \in Nat
  BY ProductType DEF Percents
<1>2. QED
  BY <1>1, Division DEF DutyNs

LEMMA ShownType ==
  ASSUME NEW period \in Nat, NEW duty \in Nat
  PROVE  ShownFrequency(period) \in Nat /\ ShownDuty(duty, period) \in 0 .. 100
<1>1. ShownFrequency(period) \in Nat
  BY FrequencyAssumption, Division DEF ShownFrequency
<1>2. ShownDuty(duty, period) \in 0 .. 100
  <2>1. CASE period <= 0 \/ duty <= 0 \/ duty >= period
    BY <2>1 DEF ShownDuty
  <2>2. CASE period > 0 /\ duty > 0 /\ duty < period
    <3>1. duty * 100 \in Nat /\ duty * 100 < period * 101
      BY <2>2
    <3>2. (duty * 100) \div period \in Nat /\ (duty * 100) \div period < 101
      BY <2>2, <3>1, Division, QuotientBelow
    <3>3. QED
      BY <2>2, <3>2 DEF ShownDuty
  <2>3. QED
    BY <2>1, <2>2
<1>3. QED
  BY <1>1, <1>2

\* A frequency is shown at least as high as it was configured, and applying what
\* is shown gives the same period.
LEMMA FrequencyRounding ==
  ASSUME NEW f \in Int, ValidFrequency(f)
  PROVE  /\ ShownFrequency(PeriodNs(f)) >= f
         /\ PeriodNs(ShownFrequency(PeriodNs(f))) = PeriodNs(f)
<1> DEFINE p == PeriodNs(f)
           s == ShownFrequency(p)
<1>1. f \in Nat \ {0} /\ NsPerSec \in Nat
  BY FrequencyAssumption DEF ValidFrequency
<1>2. p \in Nat \ {0}
  BY PeriodType
<1>3. f * p <= NsPerSec /\ NsPerSec < f * p + f
  BY <1>1, Division DEF PeriodNs
<1> HIDE DEF p
<1>4. s = NsPerSec \div p
  BY <1>2 DEF ShownFrequency
<1>5. s \in Nat /\ p * s <= NsPerSec
  BY <1>1, <1>2, <1>4, Division
<1>6. s >= f
  BY <1>1, <1>2, <1>3, <1>4, QuotientAtLeast
<1> HIDE DEF s
<1>7. s * p <= NsPerSec
  BY <1>2, <1>5
<1>8. NsPerSec < s * p + s
  <2>1. f * p <= s * p
    BY <1>1, <1>2, <1>5, <1>6, ProductMonotonic
  <2>2. f * p \in Nat /\ s * p \in Nat
    BY <1>1, <1>2, <1>5, ProductType
  <2>3. QED
    BY <1>1, <1>3, <1>5, <1>6, <2>1, <2>2
<1>9. NsPerSec \div s = p
  BY <1>1, <1>2, <1>5, <1>6, <1>7, <1>8, QuotientIs
<1>10. QED
  BY <1>6, <1>9 DEF p, s, PeriodNs

\* A duty cycle is shown as it was configured, or one percent lower.
LEMMA DutyRounding ==
  ASSUME NEW period \in Nat, period >= 100, NEW d \in Percents
  PROVE  ShownDuty(DutyNs(period, d), period) \in {d - 1, d}
<1> DEFINE q == DutyNs(period, d)
           shows == (q * 100) \div period
<1>1. d \in Nat /\ d >= 1 /\ d <= 99
  BY DEF Percents
<1>2. period * d \in Nat /\ period * d >= 100 /\ period * d <= period * 99
  BY <1>1
<1>3. q \in Nat /\ 100 * q <= period * d /\ period * d < 100 * q + 100
  BY <1>2, Division DEF DutyNs
<1> HIDE DEF q
<1>4. q >= 1 /\ q < period
  BY <1>2, <1>3
<1>5. shows < d + 1
  <2>1. q * 100 < period * (d + 1)
    BY <1>1, <1>2, <1>3
  <2>2. QED
    BY <1>1, <1>3, <2>1, QuotientBelow
<1>6. shows >= d - 1
  <2>1. period * (d - 1) <= q * 100
    BY <1>1, <1>2, <1>3
  <2>2. d - 1 \in Nat /\ q * 100 \in Nat
    BY <1>1, <1>3
  <2>3. QED
    BY <2>1, <2>2, QuotientAtLeast
<1>7. shows \in Nat
  BY <1>3, Division
<1>8. ShownDuty(q, period) = shows
  BY <1>3, <1>4 DEF ShownDuty
<1>9. QED
  <2> HIDE DEF shows
  <2>1. shows \in {d - 1, d}
    BY <1>1, <1>5, <1>6, <1>7
  <2>2. QED
    BY <1>8, <2>1 DEF q

-----------------------------------------------------------------------------
(* The inductive invariant. *)

Working == {"disable", "period", "duty", "polarity", "restore", "recover"}
Configuring == {"period", "duty", "polarity", "restore", "recover"}

\* Which request is at work in each place, and that it has passed the checks.
Control ==
  /\ pc = "idle" => req = NoRequest
  /\ pc = "export" =>
       /\ req.op \in {"config", "enable", "status"}
       /\ req.op = "config" => ValidConfig(req)
       /\ req.op = "enable" => req.enable \in {0, 1}
  /\ pc \in {"read_enable"} \cup Working => req.op = "config" /\ ValidConfig(req)
  /\ pc = "enable" => req.op = "enable" /\ req.enable \in {0, 1}
  /\ pc = "status" => req.op = "status"
  /\ pc \in {"disable", "restore", "recover"} => original = 1
  /\ pc = "reply" /\ code = 200 /\ req.op = "config" => ValidConfig(req)

PeriodSet    == Here.period = PeriodNs(req.frequency)
DutySet      == Here.duty = DutyNs(PeriodNs(req.frequency), req.duty)
PolaritySet  == Here.polarity = req.polarity
DutyKept     == Here.duty = before.duty
PolarityKept == Here.polarity = before.polarity

\* How far the parameters have got.
Prefix ==
  req.op = "config" =>
    /\ pc = "duty" => PeriodSet /\ DutyKept /\ PolarityKept
    /\ pc = "polarity" => PeriodSet /\ DutySet /\ PolarityKept
    /\ pc = "restore" => PeriodSet /\ DutySet /\ PolaritySet
    /\ pc = "recover" => PolarityKept /\ (DutyKept \/ PeriodSet)
    /\ pc = "reply" /\ code = 200 => PeriodSet /\ DutySet /\ PolaritySet
    /\ pc = "reply" => /\ DutyKept \/ PeriodSet
                       /\ PolarityKept \/ (PeriodSet /\ DutySet)
    /\ pc \in {"export", "read_enable", "disable", "period"} => DutyKept /\ PolarityKept

\* Where the switch is, as long as no other process has touched it.
Switch ==
  req.op = "config" /\ ~touched =>
    /\ pc \in {"export", "read_enable", "disable"} => Here.enable = before.enable
    /\ pc \in {"disable", "restore", "recover"} => before.enable = 1
    /\ pc \in {"period", "duty", "polarity"} =>
         IF original = 1 THEN before.enable = 1 /\ Here.enable = 0
                         ELSE Here.enable = before.enable
    /\ pc \in Configuring /\ "enable_read" \notin faults => Here.enable = 0
    /\ pc = "reply" /\ (code = 200 \/ "enable" \notin faults) =>
         Here.enable = before.enable

SwitchDone ==
  pc = "reply" /\ code = 200 /\ req.op = "enable" /\ ~touched =>
    Here.enable = req.enable

\* A channel that was switched off by the request can be switched on again.
CanTurnOn == pc \in Configuring /\ original = 1 => Drivable(Here)

NeverOn ==
  /\ ConfigNeverTurnsOn
  /\ pc \in Working /\ original = 1 => wasOn

\* What a channel was last configured to is there, except between the first write
\* of a new config and its end.
AsApplied(c) ==
  /\ applied[c].frequency \in Int /\ ValidFrequency(applied[c].frequency)
  /\ applied[c].duty \in Percents
  /\ hw[c].period = PeriodNs(applied[c].frequency)
  /\ hw[c].duty = DutyNs(hw[c].period, applied[c].duty)
Applied ==
  \A c \in Channels :
    applied[c] = NoConfig \/ AsApplied(c) \/ (c = target /\ pc \in {"duty", "polarity"})

StatusInv ==
  pc = "reply" /\ code = 200 /\ req.op = "status" /\ "status_read" \notin faults =>
    \A c \in Channels :
      /\ shown[c].frequency = ShownFrequency(hw[c].period)
      /\ shown[c].duty = ShownDuty(hw[c].duty, hw[c].period)

Rest == Prefix /\ Switch /\ SwitchDone /\ CanTurnOn /\ NeverOn /\ Applied /\ StatusInv
Inv == TypeOK /\ Control /\ Rest

LEMMA UnexportedType == Unexported \in Channel
  BY DEF Unexported, Channel, Nodes, Polarities

LEMMA ZeroIsChannel == 0 \in Channels
  BY ChannelsAssumption DEF Channels

LEMMA ToIntType ==
  ASSUME NEW n \in Int
  PROVE  ToInt(n) \in Int
BY IntHalfAssumption DEF ToInt

\* The integers of a request that has passed the checks.
LEMMA ConfigType ==
  ASSUME TypeOK, req.op = "config", ValidConfig(req)
  PROVE  /\ req.frequency \in Int /\ ValidFrequency(req.frequency)
         /\ req.duty \in Percents /\ req.polarity \in Polarities
         /\ PeriodNs(req.frequency) \in Nat
         /\ DutyNs(PeriodNs(req.frequency), req.duty) \in Nat
<1>1. req \in ConfigRequests
  BY DEF TypeOK, Requests, EnableRequests, StatusRequest, NoRequest
<1>2. req.frequency \in Int
  BY <1>1, IntsAssumption, ToIntType DEF ConfigRequests
<1>3. /\ ValidFrequency(req.frequency)
      /\ req.duty \in Percents /\ req.polarity \in Polarities
  BY DEF ValidConfig
<1>4. QED
  BY <1>2, <1>3, PeriodType, DutyType

LEMMA InvInit == Init => Inv
<1> SUFFICES ASSUME Init PROVE Inv
  OBVIOUS
<1> USE UnexportedType, ZeroIsChannel DEF Init, Idle
<1>1. TypeOK
  <2>1. hw \in [Channels -> Channel]
    OBVIOUS
  <2>2. shown \in [Channels -> Shown]
    BY DEF Nothing, Shown
  <2>3. applied \in [Channels -> [frequency : Int, duty : Int]]
    BY DEF NoConfig
  <2>4. QED
    BY <2>1, <2>2, <2>3 DEF TypeOK, PCs
<1>2. Control
  BY DEF Control, Working
<1>3. req.op = "none"
  BY DEF NoRequest
<1>4. Rest
  BY <1>3 DEF Rest, Prefix, Switch, SwitchDone, CanTurnOn, Configuring, NeverOn, Working,
              ConfigNeverTurnsOn, Applied, StatusInv
<1>5. QED
  BY <1>1, <1>2, <1>4 DEF Inv

-----------------------------------------------------------------------------
(* What a write does to the target. *)

LEMMA EnableWritten ==
  ASSUME TypeOK, NEW v \in {0, 1}, Writes("enable", v)
  PROVE  /\ hw' \in [Channels -> Channel]
         /\ \A c \in Channels \ {target} : hw'[c] = hw[c]
         /\ hw'[target].enable = v
         /\ hw'[target].period = Here.period /\ hw'[target].duty = Here.duty
         /\ hw'[target].polarity = Here.polarity
         /\ Drivable(Here) /\ Drivable(hw'[target])
         /\ faults' = faults
  BY DEF TypeOK, Writes, Written, Here, Channel, Drivable

LEMMA PeriodWritten ==
  ASSUME TypeOK, NEW v \in Nat, Writes("period", v)
  PROVE  /\ hw' \in [Channels -> Channel]
         /\ \A c \in Channels \ {target} : hw'[c] = hw[c]
         /\ hw'[target].period = v
         /\ hw'[target].enable = Here.enable /\ hw'[target].duty = Here.duty
         /\ hw'[target].polarity = Here.polarity
         /\ Drivable(hw'[target])
         /\ faults' = faults
  BY DEF TypeOK, Writes, Written, Here, Channel, Drivable

LEMMA DutyWritten ==
  ASSUME TypeOK, NEW v \in Nat, Writes("duty", v)
  PROVE  /\ hw' \in [Channels -> Channel]
         /\ \A c \in Channels \ {target} : hw'[c] = hw[c]
         /\ hw'[target].duty = v
         /\ hw'[target].enable = Here.enable /\ hw'[target].period = Here.period
         /\ hw'[target].polarity = Here.polarity
         /\ Drivable(hw'[target])
         /\ faults' = faults
<1> DEFINE new == Written("duty", v)
<1>0. hw[target] \in Channel
  BY DEF TypeOK
<1>1. new \in Channel /\ new.duty = v
  BY <1>0 DEF Written, Channel
<1>2. new.enable = Here.enable /\ new.period = Here.period /\ new.polarity = Here.polarity
  BY DEF TypeOK, Written, Here, Channel
<1>3. hw' = [hw EXCEPT ![target] = new] /\ Drivable(new) /\ faults' = faults
  BY DEF Writes
<1> HIDE DEF new
<1>4. QED
  BY <1>1, <1>2, <1>3 DEF TypeOK

LEMMA PolarityWritten ==
  ASSUME TypeOK, NEW v \in Polarities, Writes("polarity", v)
  PROVE  /\ hw' \in [Channels -> Channel]
         /\ \A c \in Channels \ {target} : hw'[c] = hw[c]
         /\ hw'[target].polarity = v
         /\ hw'[target].enable = Here.enable /\ hw'[target].period = Here.period
         /\ hw'[target].duty = Here.duty
         /\ Drivable(hw'[target])
         /\ faults' = faults
  BY DEF TypeOK, Writes, Written, Here, Channel, Drivable

LEMMA WriteRefused ==
  ASSUME TypeOK, NEW field \in {"enable", "period", "duty", "polarity"}, NEW v,
         Refused(field, v)
  PROVE  /\ hw' = hw
         /\ faults' \subseteq Files /\ faults \subseteq faults'
         /\ field = "enable" /\ Drivable(Here) => "enable" \in faults'
<1>1. hw' = hw /\ faults' \in {faults, faults \cup {field}}
  BY DEF Refused
<1>2. CASE field = "enable"
  <2>1. Drivable(Here) => Drivable(Written("enable", v))
    BY DEF TypeOK, Channel, Here, Written, Drivable
  <2>2. QED
    BY <1>1, <1>2, <2>1 DEF Refused, TypeOK, Files
<1>3. QED
  BY <1>1, <1>2 DEF TypeOK, Files

-----------------------------------------------------------------------------
(* A request comes in. *)

LEMMA TakeInv ==
  ASSUME Inv, NEW r \in Requests, NEW c \in Channels, Take(r, c),
         \/ Reply(400) \/ Reply(503)
         \/ /\ Goto("export")
            /\ r.op = "config" => ValidConfig(r)
            /\ r.op = "enable" => r.enable \in {0, 1}
  PROVE  Inv'
<1> USE DEF Inv
<1>1. /\ hw' = hw /\ req' = r /\ target' = c /\ before' = hw[c] /\ original' = original
      /\ shown' = shown /\ faults' = faults /\ touched' = touched /\ applied' = applied
      /\ wasOn' = (hw[c].enable = 1)
      /\ pc = "idle" /\ pc' \in {"reply", "export"} /\ code' \in {400, 503, code}
      /\ pc' = "reply" => code' \in {400, 503}
  BY DEF Take, Goto, Reply
<1>2. TypeOK'
  <2>1. before' \in Channel
    BY <1>1 DEF TypeOK
  <2>2. wasOn' \in BOOLEAN
    BY <1>1
  <2>3. QED
    BY <1>1, <2>1, <2>2 DEF TypeOK, PCs
<1>3. r.op \in {"config", "enable", "status"}
  BY DEF Requests, ConfigRequests, EnableRequests, StatusRequest
<1>4. pc' = "export" => /\ r.op = "config" => ValidConfig(r)
                        /\ r.op = "enable" => r.enable \in {0, 1}
  BY DEF Goto, Reply
<1>5. Control'
  BY <1>1, <1>3, <1>4 DEF Control, Working, ValidConfig
<1>6. Here' = hw[c]
  BY <1>1 DEF Here
<1>7. Prefix' /\ Switch' /\ SwitchDone' /\ CanTurnOn'
  BY <1>1, <1>6 DEF Prefix, Switch, SwitchDone, CanTurnOn, Configuring, DutyKept,
                    PolarityKept
<1>8. NeverOn' /\ StatusInv'
  <2>1. wasOn' <=> hw[c].enable = 1
    BY <1>1
  <2>2. ConfigNeverTurnsOn'
    BY <1>6, <2>1 DEF ConfigNeverTurnsOn
  <2>3. pc' \notin Working /\ StatusInv'
    BY <1>1 DEF Working, StatusInv
  <2>4. QED
    BY <2>2, <2>3 DEF NeverOn
<1>9. Applied'
  BY <1>1 DEF Rest, Applied, AsApplied
<1>10. QED
  BY <1>2, <1>5, <1>7, <1>8, <1>9 DEF Rest

LEMMA HandlersInv ==
  ASSUME Inv,
         \/ \E r \in ConfigRequests : HandleConfig(r)
         \/ \E r \in EnableRequests : HandleEnable(r)
         \/ HandleStatus
  PROVE  Inv'
<1>1. ASSUME NEW r \in ConfigRequests, HandleConfig(r) PROVE Inv'
  <2>1. r \in Requests /\ r.op = "config"
    BY DEF Requests, ConfigRequests
  <2>2. /\ Take(r, IF r.channel \in Channels THEN r.channel ELSE 0)
        /\ (Goto("export") /\ ValidConfig(r)) \/ Reply(400)
    BY <1>1 DEF HandleConfig
  <2>3. QED
    BY <2>1, <2>2, TakeInv, ZeroIsChannel
<1>2. ASSUME NEW r \in EnableRequests, HandleEnable(r) PROVE Inv'
  <2>1. r \in Requests /\ r.op = "enable"
    BY DEF Requests, EnableRequests
  <2>2. /\ Take(r, IF r.channel \in Channels THEN r.channel ELSE 0)
        /\ (Goto("export") /\ r.enable \in {0, 1}) \/ Reply(400)
    BY <1>2 DEF HandleEnable
  <2>3. QED
    BY <2>1, <2>2, TakeInv, ZeroIsChannel
<1>3. ASSUME HandleStatus PROVE Inv'
  <2>1. StatusRequest \in Requests /\ StatusRequest.op = "status"
    BY DEF Requests, StatusRequest
  <2>2. Take(StatusRequest, 0) /\ (Reply(503) \/ Goto("export"))
    BY <1>3 DEF HandleStatus
  <2>3. QED
    BY <2>1, <2>2, TakeInv, ZeroIsChannel
<1>4. QED
  BY <1>1, <1>2, <1>3

-----------------------------------------------------------------------------
(* Steps that change the node of a channel at most. *)

SameOutput ==
  /\ hw' \in [Channels -> Channel]
  /\ \A c \in Channels : /\ hw'[c].enable = hw[c].enable /\ hw'[c].period = hw[c].period
                         /\ hw'[c].duty = hw[c].duty /\ hw'[c].polarity = hw[c].polarity

LEMMA NodeSet ==
  ASSUME TypeOK, NEW c \in Channels, NEW n \in Nodes, hw' = [hw EXCEPT ![c].node = n]
  PROVE  SameOutput
<1>1. hw[c] \in Channel
  BY DEF TypeOK
<1>2. [hw[c] EXCEPT !.node = n] \in Channel
  BY <1>1 DEF Channel
<1>3. QED
  BY <1>2 DEF TypeOK, SameOutput

LEMMA ExportInv == Inv /\ (AlreadyExported \/ Export) => Inv'
<1> SUFFICES ASSUME Inv, AlreadyExported \/ Export PROVE Inv'
  OBVIOUS
<1> USE DEF Inv
<1>1. SameOutput
  <2>1. CASE AlreadyExported
    BY <2>1 DEF AlreadyExported, SameOutput, TypeOK
  <2>2. CASE Export
    BY <2>2, NodeSet DEF Export, TypeOK, Nodes
  <2>3. QED
    BY <2>1, <2>2
<1>2. /\ pc = "export" /\ AfterExport
      /\ UNCHANGED <<req, original, shown, before, faults, touched, wasOn, applied>>
  BY DEF AlreadyExported, Export, request
<1>3. /\ code' = code
      /\ \/ req.op = "config" /\ pc' = "read_enable" /\ target' = target
         \/ req.op = "enable" /\ pc' = "enable" /\ target' = target
         \/ req.op = "status" /\ pc' \in {"export", "status"} /\ target' \in Channels
  BY <1>2 DEF AfterExport, TypeOK
<1>4. TypeOK'
  BY <1>1, <1>2, <1>3 DEF TypeOK, SameOutput, PCs
<1>5. Control'
  BY <1>2, <1>3 DEF Control, Working, ValidConfig
<1>6. target' = target => /\ Here'.enable = Here.enable /\ Here'.duty = Here.duty
                          /\ Here'.polarity = Here.polarity
  BY <1>1 DEF TypeOK, Here, SameOutput
<1>7. Prefix' /\ Switch' /\ SwitchDone' /\ CanTurnOn'
  BY <1>2, <1>3, <1>6 DEF Rest, Prefix, Switch, SwitchDone, CanTurnOn, Configuring,
                          DutyKept, PolarityKept
<1>8. NeverOn' /\ StatusInv'
  BY <1>2, <1>3, <1>6 DEF Rest, NeverOn, ConfigNeverTurnsOn, Working, StatusInv
<1>9. Applied'
  BY <1>1, <1>2 DEF Rest, Applied, AsApplied, SameOutput
<1>10. QED
  BY <1>4, <1>5, <1>7, <1>8, <1>9 DEF Rest

LEMMA ExportFailsInv == Inv /\ ExportFails => Inv'
<1> SUFFICES ASSUME Inv, ExportFails PROVE Inv'
  OBVIOUS
<1> USE DEF Inv
<1>1. SameOutput
  BY NodeSet DEF ExportFails, SameOutput, TypeOK, Nodes
<1>2. /\ pc = "export" /\ pc' = "reply" /\ code' = 503
      /\ faults' = faults \cup {"export"}
      /\ UNCHANGED <<req, target, original, shown, before, touched, wasOn, applied>>
  BY DEF ExportFails, Reply
<1>3. TypeOK'
  BY <1>1, <1>2 DEF TypeOK, SameOutput, PCs, Files
<1>4. Control'
  BY <1>2 DEF Control, Working
<1>5. /\ Here'.enable = Here.enable /\ Here'.duty = Here.duty
      /\ Here'.polarity = Here.polarity
  BY <1>1, <1>2 DEF TypeOK, Here, SameOutput
<1>6. Prefix' /\ Switch' /\ SwitchDone' /\ CanTurnOn'
  BY <1>2, <1>5 DEF Rest, Prefix, Switch, SwitchDone, CanTurnOn, Configuring,
                    DutyKept, PolarityKept
<1>7. NeverOn' /\ StatusInv'
  BY <1>2, <1>5 DEF Rest, NeverOn, ConfigNeverTurnsOn, Working, StatusInv
<1>8. Applied'
  BY <1>1, <1>2 DEF Rest, Applied, AsApplied, SameOutput
<1>9. QED
  BY <1>3, <1>4, <1>6, <1>7, <1>8 DEF Rest

LEMMA NodeAppearsInv ==
  ASSUME Inv, NEW c \in Channels, NodeAppears(c)
  PROVE  Inv'
<1> USE DEF Inv
<1>1. SameOutput
  BY NodeSet DEF NodeAppears, Nodes
<1>2. UNCHANGED <<pc, req, target, original, shown, code, before, faults, touched,
                  wasOn, applied>>
  BY DEF NodeAppears, server, request
<1>3. TypeOK'
  BY <1>1, <1>2 DEF TypeOK, SameOutput
<1>4. Control'
  BY <1>2 DEF Control, ValidConfig
<1>5. /\ Here'.enable = Here.enable /\ Here'.duty = Here.duty
      /\ Here'.polarity = Here.polarity /\ Here'.period = Here.period
  BY <1>1, <1>2 DEF TypeOK, Here, SameOutput
<1>6. Prefix'
  BY <1>2, <1>5 DEF Rest, Prefix, PeriodSet, DutySet, PolaritySet, DutyKept, PolarityKept
<1>7. Switch' /\ SwitchDone' /\ CanTurnOn'
  BY <1>2, <1>5 DEF Rest, Switch, SwitchDone, CanTurnOn, Drivable
<1>8. NeverOn'
  BY <1>2, <1>5 DEF Rest, NeverOn, ConfigNeverTurnsOn
<1>9. StatusInv' /\ Applied'
  BY <1>1, <1>2 DEF Rest, StatusInv, Applied, AsApplied, SameOutput
<1>10. QED
  BY <1>3, <1>4, <1>6, <1>7, <1>8, <1>9 DEF Rest

-----------------------------------------------------------------------------
(* Steps of pwm_apply_config. *)

LEMMA ReadEnableInv == Inv /\ ReadEnable => Inv'
<1> SUFFICES ASSUME Inv, ReadEnable PROVE Inv'
  OBVIOUS
<1> USE DEF Inv
<1>1. /\ pc = "read_enable" /\ code' = code
      /\ pc' = IF original' = 1 THEN "disable" ELSE "period"
      /\ UNCHANGED <<hw, req, target, shown, before, touched, wasOn, applied>>
      /\ \/ original' = Here.enable /\ faults' = faults
         \/ original' = 0 /\ faults' = faults \cup {"enable_read"}
  BY DEF ReadEnable, Goto, Here
<1>2. Here \in Channel /\ Here' = Here
  BY <1>1 DEF TypeOK, Here
<1>3. TypeOK'
  <2>1. original' \in {0, 1} /\ faults' \subseteq Files
    BY <1>1, <1>2 DEF TypeOK, Files, Channel
  <2>2. QED
    BY <1>1, <2>1 DEF TypeOK, PCs
<1>4. Control'
  BY <1>1 DEF Control, Working, ValidConfig
<1>5. req.op = "config"
  BY <1>1 DEF Control
<1>6. Prefix'
  BY <1>1, <1>2, <1>5 DEF Rest, Prefix, DutyKept, PolarityKept
<1>7. Switch'
  <2>1. Here.enable \in {0, 1}
    BY <1>2 DEF Channel
  <2>2. QED
    BY <1>1, <1>2, <1>5, <2>1 DEF Rest, Switch, Configuring
<1>8. SwitchDone' /\ CanTurnOn' /\ StatusInv'
  BY <1>1 DEF SwitchDone, CanTurnOn, Configuring, StatusInv
<1>9. NeverOn'
  BY <1>1, <1>2, <1>5 DEF Rest, NeverOn, ConfigNeverTurnsOn, Working
<1>10. Applied'
  BY <1>1 DEF Rest, Applied, AsApplied
<1>11. QED
  BY <1>3, <1>4, <1>6, <1>7, <1>8, <1>9, <1>10 DEF Rest

LEMMA DisableInv == Inv /\ Disable => Inv'
<1> SUFFICES ASSUME Inv, Disable PROVE Inv'
  OBVIOUS
<1> USE DEF Inv
<1>1. /\ pc = "disable" /\ req.op = "config" /\ ValidConfig(req) /\ original = 1
      /\ UNCHANGED <<req, target, original, shown, before, touched, wasOn, applied>>
  BY DEF Disable, Kept, Control, Working
<1>2. CASE Writes("enable", 0) /\ Goto("period")
  <2>1. /\ hw' \in [Channels -> Channel]
        /\ \A c \in Channels \ {target} : hw'[c] = hw[c]
        /\ Here'.enable = 0 /\ Here'.period = Here.period /\ Here'.duty = Here.duty
        /\ Here'.polarity = Here.polarity
        /\ Drivable(Here') /\ faults' = faults /\ pc' = "period" /\ code' = code
    BY <1>1, <1>2, EnableWritten DEF Here, Goto
  <2>2. TypeOK'
    BY <1>1, <2>1 DEF TypeOK, PCs
  <2>3. Control'
    BY <1>1, <2>1 DEF Control, Working, ValidConfig
  <2>4. Prefix' /\ Switch' /\ SwitchDone' /\ CanTurnOn'
    BY <1>1, <2>1 DEF Rest, Prefix, Switch, SwitchDone, CanTurnOn, Configuring,
                      DutyKept, PolarityKept
  <2>5. NeverOn' /\ StatusInv'
    BY <1>1, <2>1 DEF Rest, NeverOn, ConfigNeverTurnsOn, Working, StatusInv
  <2>6. Applied'
    BY <1>1, <2>1 DEF Rest, Applied, AsApplied, Here
  <2>7. QED
    BY <2>2, <2>3, <2>4, <2>5, <2>6 DEF Rest
<1>3. CASE Refused("enable", 0) /\ Reply(503)
  <2>1. hw' = hw /\ faults' \subseteq Files /\ pc' = "reply" /\ code' = 503
    BY <1>3, WriteRefused DEF Reply
  <2>2. Here' = Here
    BY <1>1, <2>1 DEF Here
  <2>3. TypeOK'
    BY <1>1, <2>1 DEF TypeOK, PCs
  <2>4. Control'
    BY <1>1, <2>1 DEF Control, Working
  <2>5. Prefix' /\ Switch' /\ SwitchDone' /\ CanTurnOn'
    BY <1>1, <2>1, <2>2 DEF Rest, Prefix, Switch, SwitchDone, CanTurnOn, Configuring,
                            DutyKept, PolarityKept
  <2>6. NeverOn' /\ StatusInv'
    BY <1>1, <2>1, <2>2 DEF Rest, NeverOn, ConfigNeverTurnsOn, Working, StatusInv
  <2>7. Applied'
    BY <1>1, <2>1 DEF Rest, Applied, AsApplied
  <2>8. QED
    BY <2>3, <2>4, <2>5, <2>6, <2>7 DEF Rest
<1>4. QED
  BY <1>2, <1>3 DEF Disable

\* A parameter that was not written, in each of the three places.
LEMMA GiveUpInv ==
  ASSUME Inv, pc \in {"period", "duty", "polarity"}, Kept, GiveUp,
         NEW field \in {"period", "duty", "polarity"}, NEW v, Refused(field, v)
  PROVE  Inv'
<1> USE DEF Inv
<1>1. /\ req.op = "config" /\ ValidConfig(req)
      /\ UNCHANGED <<req, target, original, shown, before, touched, wasOn>>
      /\ applied' = [applied EXCEPT ![target] = NoConfig]
  BY DEF Kept, GiveUp, Control, Working
<1>2. hw' = hw /\ faults' \subseteq Files /\ faults \subseteq faults'
  BY WriteRefused
<1>3. \/ original = 1 /\ pc' = "recover" /\ code' = code
      \/ original = 0 /\ pc' = "reply" /\ code' = 503
  BY DEF GiveUp, Goto, Reply, TypeOK
<1>4. Here' = Here
  BY <1>1, <1>2 DEF Here
<1>5. TypeOK'
  <2>1. applied' \in [Channels -> [frequency : Int, duty : Int]]
    BY <1>1 DEF TypeOK, NoConfig
  <2>2. QED
    BY <1>1, <1>2, <1>3, <2>1 DEF TypeOK, PCs
<1>6. Control'
  BY <1>1, <1>3 DEF Control, Working, ValidConfig
<1>7. Prefix'
  BY <1>1, <1>3, <1>4 DEF Rest, Prefix, PeriodSet, DutySet, DutyKept, PolarityKept
<1>8. Switch' /\ SwitchDone' /\ CanTurnOn'
  BY <1>1, <1>2, <1>3, <1>4 DEF Rest, Switch, SwitchDone, CanTurnOn, Configuring
<1>9. NeverOn' /\ StatusInv'
  BY <1>1, <1>3, <1>4 DEF Rest, NeverOn, ConfigNeverTurnsOn, Working, StatusInv
<1>10. Applied'
  BY <1>1, <1>2 DEF Rest, Applied, AsApplied, TypeOK
<1>11. QED
  BY <1>5, <1>6, <1>7, <1>8, <1>9, <1>10 DEF Rest

LEMMA PeriodInv == Inv /\ WritePeriod => Inv'
<1> SUFFICES ASSUME Inv, WritePeriod PROVE Inv'
  OBVIOUS
<1> DEFINE period == PeriodNs(req.frequency)
<1> USE DEF Inv
<1>1. /\ pc = "period" /\ req.op = "config" /\ ValidConfig(req) /\ Kept
      /\ UNCHANGED <<req, target, original, shown, before, touched, wasOn>>
  BY DEF WritePeriod, Kept, Control, Working
<1>2. CASE Writes("period", period) /\ Goto("duty") /\ UNCHANGED applied
  <2>1. period \in Nat
    BY <1>1, ConfigType
  <2>2. /\ hw' \in [Channels -> Channel]
        /\ \A c \in Channels \ {target} : hw'[c] = hw[c]
        /\ Here'.period = period /\ Here'.enable = Here.enable
        /\ Here'.duty = Here.duty /\ Here'.polarity = Here.polarity
        /\ Drivable(Here') /\ faults' = faults /\ pc' = "duty" /\ code' = code
        /\ applied' = applied
    BY <1>1, <1>2, <2>1, PeriodWritten DEF Here, Goto
  <2>3. TypeOK'
    BY <1>1, <2>2 DEF TypeOK, PCs
  <2>4. Control'
    BY <1>1, <2>2 DEF Control, Working, ValidConfig
  <2>5. Prefix'
    BY <1>1, <2>2 DEF Rest, Prefix, PeriodSet, DutyKept, PolarityKept
  <2>6. Switch' /\ SwitchDone' /\ CanTurnOn'
    BY <1>1, <2>2 DEF Rest, Switch, SwitchDone, CanTurnOn, Configuring
  <2>7. NeverOn' /\ StatusInv'
    BY <1>1, <2>2 DEF Rest, NeverOn, ConfigNeverTurnsOn, Working, StatusInv
  <2>8. Applied'
    BY <1>1, <2>2 DEF Rest, Applied, AsApplied
  <2>9. QED
    BY <2>3, <2>4, <2>5, <2>6, <2>7, <2>8 DEF Rest
<1>3. CASE Refused("period", period) /\ GiveUp
  BY <1>1, <1>3, GiveUpInv
<1>4. QED
  BY <1>2, <1>3 DEF WritePeriod

LEMMA DutyInv == Inv /\ WriteDuty => Inv'
<1> SUFFICES ASSUME Inv, WriteDuty PROVE Inv'
  OBVIOUS
<1> DEFINE duty == DutyNs(PeriodNs(req.frequency), req.duty)
<1> USE DEF Inv
<1>1. /\ pc = "duty" /\ req.op = "config" /\ ValidConfig(req) /\ Kept
      /\ UNCHANGED <<req, target, original, shown, before, touched, wasOn>>
  BY DEF WriteDuty, Kept, Control, Working
<1>2. CASE Writes("duty", duty) /\ Goto("polarity") /\ UNCHANGED applied
  <2>1. duty \in Nat
    BY <1>1, ConfigType
  <2>2. /\ hw' \in [Channels -> Channel]
        /\ \A c \in Channels \ {target} : hw'[c] = hw[c]
        /\ Here'.duty = duty /\ Here'.enable = Here.enable
        /\ Here'.period = Here.period /\ Here'.polarity = Here.polarity
        /\ Drivable(Here') /\ faults' = faults /\ pc' = "polarity" /\ code' = code
        /\ applied' = applied
    BY <1>1, <1>2, <2>1, DutyWritten DEF Here, Goto
  <2>3. TypeOK'
    BY <1>1, <2>2 DEF TypeOK, PCs
  <2>4. Control'
    BY <1>1, <2>2 DEF Control, Working, ValidConfig
  <2>5. Prefix'
    BY <1>1, <2>2 DEF Rest, Prefix, PeriodSet, DutySet, PolarityKept
  <2>6. Switch' /\ SwitchDone' /\ CanTurnOn'
    BY <1>1, <2>2 DEF Rest, Switch, SwitchDone, CanTurnOn, Configuring
  <2>7. NeverOn' /\ StatusInv'
    BY <1>1, <2>2 DEF Rest, NeverOn, ConfigNeverTurnsOn, Working, StatusInv
  <2>8. Applied'
    BY <1>1, <2>2 DEF Rest, Applied, AsApplied
  <2>9. QED
    BY <2>3, <2>4, <2>5, <2>6, <2>7, <2>8 DEF Rest
<1>3. CASE Refused("duty", duty) /\ GiveUp
  BY <1>1, <1>3, GiveUpInv
<1>4. QED
  BY <1>2, <1>3 DEF WriteDuty

LEMMA PolarityInv == Inv /\ WritePolarity => Inv'
<1> SUFFICES ASSUME Inv, WritePolarity PROVE Inv'
  OBVIOUS
<1> USE DEF Inv
<1>1. /\ pc = "polarity" /\ req.op = "config" /\ ValidConfig(req) /\ Kept
      /\ UNCHANGED <<req, target, original, shown, before, touched, wasOn>>
  BY DEF WritePolarity, Kept, Control, Working
<1>2. CASE /\ Writes("polarity", req.polarity)
           /\ IF original = 1 THEN Goto("restore") ELSE Reply(200)
           /\ Configured
  <2>1. /\ req.frequency \in Int /\ ValidFrequency(req.frequency)
        /\ req.duty \in Percents /\ req.polarity \in Polarities
    BY <1>1, ConfigType
  <2>2. /\ hw' \in [Channels -> Channel]
        /\ \A c \in Channels \ {target} : hw'[c] = hw[c]
        /\ Here'.polarity = req.polarity /\ Here'.enable = Here.enable
        /\ Here'.period = Here.period /\ Here'.duty = Here.duty
        /\ Drivable(Here') /\ faults' = faults
        /\ applied' = [applied EXCEPT ![target] =
                         [frequency |-> req.frequency, duty |-> req.duty]]
    BY <1>1, <1>2, <2>1, PolarityWritten DEF Here, Configured
  <2>3. \/ original = 1 /\ pc' = "restore" /\ code' = code
        \/ original = 0 /\ pc' = "reply" /\ code' = 200
    BY <1>2 DEF Goto, Reply, TypeOK
  <2>4. TypeOK'
    <3>1. applied' \in [Channels -> [frequency : Int, duty : Int]]
      BY <2>1, <2>2 DEF TypeOK, Percents
    <3>2. QED
      BY <1>1, <2>2, <2>3, <3>1 DEF TypeOK, PCs
  <2>5. Control'
    BY <1>1, <2>3 DEF Control, Working, ValidConfig
  <2>6. Prefix'
    BY <1>1, <2>2, <2>3 DEF Rest, Prefix, PeriodSet, DutySet, PolaritySet
  <2>7. Switch' /\ SwitchDone' /\ CanTurnOn'
    BY <1>1, <2>2, <2>3 DEF Rest, Switch, SwitchDone, CanTurnOn, Configuring
  <2>8. NeverOn' /\ StatusInv'
    BY <1>1, <2>2, <2>3 DEF Rest, NeverOn, ConfigNeverTurnsOn, Working, StatusInv
  <2>9. Applied'
    <3>1. ASSUME NEW c \in Channels
          PROVE  applied'[c] = NoConfig \/ AsApplied(c)'
      <4>1. CASE c = target
        <5>1. applied'[c] = [frequency |-> req.frequency, duty |-> req.duty]
          BY <2>2, <4>1 DEF TypeOK
        <5>2. /\ hw'[c].period = PeriodNs(req.frequency)
              /\ hw'[c].duty = DutyNs(PeriodNs(req.frequency), req.duty)
          BY <1>1, <2>2, <4>1 DEF Rest, Prefix, PeriodSet, DutySet, Here
        <5>3. QED
          BY <2>1, <5>1, <5>2 DEF AsApplied
      <4>2. CASE c # target
        BY <2>2, <4>2 DEF Rest, Applied, AsApplied, TypeOK
      <4>3. QED
        BY <4>1, <4>2
    <3>2. QED
      BY <3>1 DEF Applied
  <2>10. QED
    BY <2>4, <2>5, <2>6, <2>7, <2>8, <2>9 DEF Rest
<1>3. CASE Refused("polarity", req.polarity) /\ GiveUp
  BY <1>1, <1>3, GiveUpInv
<1>4. QED
  BY <1>2, <1>3 DEF WritePolarity

LEMMA TurnOnInv == Inv /\ (Restore \/ Recover) => Inv'
<1> SUFFICES ASSUME Inv, Restore \/ Recover PROVE Inv'
  OBVIOUS
<1> USE DEF Inv
<1>1. /\ pc \in {"restore", "recover"} /\ original = 1
      /\ req.op = "config" /\ ValidConfig(req)
      /\ pc' = "reply"
      /\ UNCHANGED <<req, target, original, shown, before, touched, wasOn, applied>>
  BY DEF Restore, Recover, Reply, Kept, Control, Working
<1>2. /\ code' \in {200, 503} /\ (code' = 200 => pc = "restore" /\ Writes("enable", 1))
      /\ Writes("enable", 1) \/ Refused("enable", 1)
  BY DEF Restore, Recover, Reply
<1>3. /\ hw' \in [Channels -> Channel]
      /\ \A c \in Channels \ {target} : hw'[c] = hw[c]
      /\ Here'.period = Here.period /\ Here'.duty = Here.duty
      /\ Here'.polarity = Here.polarity
      /\ faults' \subseteq Files
      /\ Here'.enable = 1 \/ (Here'.enable = Here.enable /\ "enable" \in faults')
      /\ Writes("enable", 1) => Here'.enable = 1
  <2>1. CASE Writes("enable", 1)
    BY <1>1, <2>1, EnableWritten DEF Here, TypeOK
  <2>2. CASE Refused("enable", 1)
    <3>1. Drivable(Here)
      BY <1>1 DEF Rest, CanTurnOn, Configuring
    <3>2. hw' = hw /\ faults' \subseteq Files /\ "enable" \in faults'
      BY <2>2, <3>1, WriteRefused
    <3>3. hw'[target].enable = 1 \/ ~Writes("enable", 1)
      BY EnableWritten
    <3>4. QED
      BY <1>1, <3>2, <3>3 DEF Here, TypeOK
  <2>3. QED
    BY <1>2, <2>1, <2>2
<1>4. TypeOK'
  BY <1>1, <1>2, <1>3 DEF TypeOK, PCs
<1>5. Control'
  BY <1>1 DEF Control, Working, ValidConfig
<1>6. Prefix'
  BY <1>1, <1>2, <1>3 DEF Rest, Prefix, PeriodSet, DutySet, PolaritySet, DutyKept,
                          PolarityKept
<1>7. Switch' /\ SwitchDone' /\ CanTurnOn'
  BY <1>1, <1>2, <1>3 DEF Rest, Switch, SwitchDone, CanTurnOn, Configuring
<1>8. NeverOn' /\ StatusInv'
  BY <1>1, <1>3 DEF Rest, NeverOn, ConfigNeverTurnsOn, Working, StatusInv
<1>9. Applied'
  BY <1>1, <1>3 DEF Rest, Applied, AsApplied, Here
<1>10. QED
  BY <1>4, <1>5, <1>6, <1>7, <1>8, <1>9 DEF Rest

-----------------------------------------------------------------------------
(* The other handlers, the end of a request, and other processes. *)

LEMMA WriteEnableInv == Inv /\ WriteEnable => Inv'
<1> SUFFICES ASSUME Inv, WriteEnable PROVE Inv'
  OBVIOUS
<1> USE DEF Inv
<1>1. /\ pc = "enable" /\ req.op = "enable" /\ req.enable \in {0, 1}
      /\ pc' = "reply"
      /\ UNCHANGED <<req, target, original, shown, before, touched, wasOn, applied>>
  BY DEF WriteEnable, Reply, Kept, Control
<1>2. \/ Writes("enable", req.enable) /\ code' = 200
      \/ Refused("enable", req.enable) /\ code' = 503
  BY DEF WriteEnable, Reply
<1>3. /\ hw' \in [Channels -> Channel]
      /\ \A c \in Channels : hw'[c].period = hw[c].period /\ hw'[c].duty = hw[c].duty
      /\ faults' \subseteq Files
      /\ code' = 200 => Here'.enable = req.enable
  <2>1. CASE Writes("enable", req.enable)
    BY <1>1, <2>1, EnableWritten DEF Here, TypeOK
  <2>2. CASE Refused("enable", req.enable) /\ code' = 503
    BY <2>2, WriteRefused DEF TypeOK
  <2>3. QED
    BY <1>2, <2>1, <2>2
<1>4. TypeOK'
  BY <1>1, <1>2, <1>3 DEF TypeOK, PCs
<1>5. Control'
  BY <1>1 DEF Control, Working
<1>6. Prefix' /\ Switch' /\ SwitchDone' /\ CanTurnOn'
  BY <1>1, <1>3 DEF Prefix, Switch, SwitchDone, CanTurnOn, Configuring
<1>7. NeverOn' /\ StatusInv'
  BY <1>1 DEF NeverOn, ConfigNeverTurnsOn, Working, StatusInv
<1>8. Applied'
  BY <1>1, <1>3 DEF Rest, Applied, AsApplied
<1>9. QED
  BY <1>4, <1>5, <1>6, <1>7, <1>8 DEF Rest

LEMMA LookType ==
  ASSUME NEW ch \in Channel, NEW failed
  PROVE  /\ Look(ch, failed) \in Shown
         /\ failed = {} =>
              /\ Look(ch, failed).frequency = ShownFrequency(ch.period)
              /\ Look(ch, failed).duty = ShownDuty(ch.duty, ch.period)
<1> DEFINE period == IF "period" \in failed THEN 0 ELSE ch.period
           duty   == IF "duty" \in failed THEN 0 ELSE ch.duty
           enable == IF "enable" \in failed THEN 0 ELSE ch.enable
<1>1. period \in Nat /\ duty \in Nat /\ enable \in {0, 1}
  BY DEF Channel
<1>2. failed = {} => period = ch.period /\ duty = ch.duty
  OBVIOUS
<1>3. Look(ch, failed) = [frequency |-> ShownFrequency(period),
                          duty |-> ShownDuty(duty, period), enabled |-> enable]
  BY DEF Look
<1> HIDE DEF period, duty, enable
<1>4. ShownFrequency(period) \in Nat /\ ShownDuty(duty, period) \in 0 .. 100
  BY <1>1, ShownType
<1>5. QED
  BY <1>1, <1>2, <1>3, <1>4 DEF Shown

LEMMA ReadStatusInv == Inv /\ ReadStatus => Inv'
<1> SUFFICES ASSUME Inv, ReadStatus PROVE Inv'
  OBVIOUS
<1> USE DEF Inv
<1>1. /\ pc = "status" /\ req.op = "status" /\ pc' = "reply" /\ code' = 200
      /\ UNCHANGED <<hw, req, target, original, before, touched, wasOn, applied>>
  BY DEF ReadStatus, Reply, Control
<1>2. PICK failed \in [Channels -> SUBSET {"enable", "period", "duty"}] :
        /\ shown' = [c \in Channels |-> Look(hw[c], failed[c])]
        /\ faults' = IF \A c \in Channels : failed[c] = {} THEN faults
                     ELSE faults \cup {"status_read"}
  BY DEF ReadStatus
<1>3. ASSUME NEW c \in Channels
      PROVE  /\ shown'[c] \in Shown
             /\ "status_read" \notin faults' =>
                  /\ shown'[c].frequency = ShownFrequency(hw[c].period)
                  /\ shown'[c].duty = ShownDuty(hw[c].duty, hw[c].period)
  <2>1. hw[c] \in Channel /\ shown'[c] = Look(hw[c], failed[c])
    BY <1>2 DEF TypeOK
  <2>2. "status_read" \notin faults' => failed[c] = {}
    BY <1>2
  <2>3. QED
    BY <2>1, <2>2, LookType
<1>4. TypeOK'
  <2>1. shown' \in [Channels -> Shown] /\ faults' \subseteq Files
    BY <1>2, <1>3 DEF TypeOK, Files
  <2>2. QED
    BY <1>1, <2>1 DEF TypeOK, PCs
<1>5. Control'
  BY <1>1 DEF Control, Working
<1>6. Prefix' /\ Switch' /\ SwitchDone' /\ CanTurnOn'
  BY <1>1 DEF Prefix, Switch, SwitchDone, CanTurnOn, Configuring
<1>7. NeverOn' /\ StatusInv'
  BY <1>1, <1>3 DEF NeverOn, ConfigNeverTurnsOn, Working, StatusInv
<1>8. Applied'
  BY <1>1 DEF Rest, Applied, AsApplied
<1>9. QED
  BY <1>4, <1>5, <1>6, <1>7, <1>8 DEF Rest

LEMMA ForgetInv == Inv /\ (Finish \/ Crash) => Inv'
<1> SUFFICES ASSUME Inv, Finish \/ Crash PROVE Inv'
  OBVIOUS
<1> USE DEF Inv
<1>1. Forget
  BY DEF Finish, Crash
<1>2. hw' = hw /\ pc' = "idle" /\ req' = NoRequest
  BY <1>1 DEF Forget
<1>3. \/ applied' = applied /\ pc \notin {"duty", "polarity"}
      \/ applied' = [applied EXCEPT ![target] = NoConfig]
  <2>1. CASE Finish
    BY <2>1 DEF Finish
  <2>2. CASE Crash /\ req.op = "config"
    BY <2>2 DEF Crash
  <2>3. CASE Crash /\ req.op # "config"
    <3>1. applied' = [applied EXCEPT ![target] = applied[target]]
      BY <2>3 DEF Crash
    <3>2. applied' = applied
      BY <3>1 DEF TypeOK
    <3>3. pc \notin {"duty", "polarity"}
      BY <2>3 DEF Control, Working
    <3>4. QED
      BY <3>2, <3>3
  <2>4. QED
    BY <2>1, <2>2, <2>3
<1>4. TypeOK'
  <2>1. shown' \in [Channels -> Shown]
    BY <1>1 DEF Forget, Nothing, Shown
  <2>2. applied' \in [Channels -> [frequency : Int, duty : Int]]
    BY <1>3 DEF TypeOK, NoConfig
  <2>3. QED
    BY <1>1, <2>1, <2>2, UnexportedType, ZeroIsChannel DEF Forget, TypeOK, PCs
<1>5. Control'
  BY <1>2 DEF Control, Working
<1>6. Prefix' /\ Switch' /\ SwitchDone' /\ CanTurnOn' /\ NeverOn' /\ StatusInv'
  BY <1>2 DEF Prefix, Switch, SwitchDone, CanTurnOn, Configuring, NeverOn,
              ConfigNeverTurnsOn, Working, StatusInv, NoRequest
<1>7. Applied'
  <2>1. \A c \in Channels : applied'[c] = NoConfig \/ (applied'[c] = applied[c] /\ AsApplied(c))
    BY <1>3 DEF Rest, Applied, TypeOK
  <2>2. QED
    BY <1>2, <2>1 DEF Applied, AsApplied
<1>8. QED
  BY <1>4, <1>5, <1>6, <1>7 DEF Rest

LEMMA OtherProcessInv ==
  ASSUME Inv, NEW c \in Channels, NEW enable \in {0, 1}, OtherProcess(c, enable)
  PROVE  Inv'
<1> USE DEF Inv
<1>1. UNCHANGED <<pc, req, target, original, shown, code, before, faults, applied>>
  BY DEF OtherProcess, server
<1>2. /\ hw' \in [Channels -> Channel]
      /\ \A d \in Channels \ {c} : hw'[d] = hw[d]
      /\ hw'[c].enable = enable
      /\ \A d \in Channels : /\ hw'[d].period = hw[d].period /\ hw'[d].duty = hw[d].duty
                             /\ hw'[d].polarity = hw[d].polarity
  <2>1. hw' = [hw EXCEPT ![c] = [hw[c] EXCEPT !.enable = enable]]
    BY DEF OtherProcess
  <2>2. QED
    BY <2>1 DEF TypeOK, Channel
<1>3. \/ pc # "idle" /\ target = c /\ touched' = TRUE /\ (wasOn \/ enable = 1 <=> wasOn')
      \/ (pc = "idle" \/ target # c) /\ touched' = touched /\ wasOn' = wasOn
  BY DEF OtherProcess
<1>4. TypeOK'
  <2>1. touched' \in BOOLEAN /\ wasOn' \in BOOLEAN
    BY DEF OtherProcess, TypeOK
  <2>2. QED
    BY <1>1, <1>2, <2>1 DEF TypeOK
<1>5. Control'
  BY <1>1 DEF Control, ValidConfig
<1>6. /\ Here'.period = Here.period /\ Here'.duty = Here.duty
      /\ Here'.polarity = Here.polarity
      /\ target # c => Here'.enable = Here.enable
      /\ target = c => Here'.enable = enable
  BY <1>1, <1>2 DEF Here, TypeOK
<1>7. Prefix'
  BY <1>1, <1>6 DEF Rest, Prefix, PeriodSet, DutySet, PolaritySet, DutyKept, PolarityKept
<1>8. Switch' /\ SwitchDone' /\ CanTurnOn'
  <2>1. CASE pc = "idle"
    BY <1>1, <2>1 DEF Switch, SwitchDone, CanTurnOn, Configuring, Control, NoRequest
  <2>2. CASE pc # "idle" /\ target = c
    BY <1>1, <1>3, <1>6, <2>2 DEF Rest, Switch, SwitchDone, CanTurnOn, Drivable
  <2>3. CASE target # c
    BY <1>1, <1>3, <1>6, <2>3 DEF Rest, Switch, SwitchDone, CanTurnOn, Drivable
  <2>4. QED
    BY <2>1, <2>2, <2>3
<1>9. NeverOn'
  BY <1>1, <1>3, <1>6 DEF Rest, NeverOn, ConfigNeverTurnsOn, Working
<1>10. StatusInv' /\ Applied'
  BY <1>1, <1>2 DEF Rest, StatusInv, Applied, AsApplied
<1>11. QED
  BY <1>4, <1>5, <1>7, <1>8, <1>9, <1>10 DEF Rest

-----------------------------------------------------------------------------
LEMMA StutterInv == Inv /\ UNCHANGED vars => Inv'
<1> SUFFICES ASSUME Inv, UNCHANGED vars PROVE Inv'
  OBVIOUS
<1> USE DEF Inv, vars, server, request
<1>1. TypeOK' /\ Control'
  BY DEF TypeOK, Control, ValidConfig
<1>2. Prefix' /\ Switch' /\ SwitchDone' /\ CanTurnOn'
  BY DEF Rest, Prefix, Switch, SwitchDone, CanTurnOn, Here, PeriodSet, DutySet,
         PolaritySet, DutyKept, PolarityKept
<1>3. NeverOn' /\ StatusInv' /\ Applied'
  BY DEF Rest, NeverOn, ConfigNeverTurnsOn, Here, StatusInv, Applied, AsApplied
<1>4. QED
  BY <1>1, <1>2, <1>3 DEF Rest

LEMMA InvNext == Inv /\ [Next]_vars => Inv'
<1> SUFFICES ASSUME Inv, [Next]_vars PROVE Inv'
  OBVIOUS
<1>1. CASE \/ \E r \in ConfigRequests : HandleConfig(r)
           \/ \E r \in EnableRequests : HandleEnable(r)
           \/ HandleStatus
  BY <1>1, HandlersInv
<1>2. CASE AlreadyExported \/ Export \/ ExportFails
  BY <1>2, ExportInv, ExportFailsInv
<1>3. CASE ReadEnable \/ Disable \/ WritePeriod \/ WriteDuty \/ WritePolarity \/ Restore
           \/ Recover
  BY <1>3, ReadEnableInv, DisableInv, PeriodInv, DutyInv, PolarityInv, TurnOnInv
<1>4. CASE WriteEnable \/ ReadStatus \/ Finish \/ Crash
  BY <1>4, WriteEnableInv, ReadStatusInv, ForgetInv
<1>5. CASE \/ \E c \in Channels : NodeAppears(c)
           \/ \E c \in Channels, enable \in {0, 1} : OtherProcess(c, enable)
  BY <1>5, NodeAppearsInv, OtherProcessInv
<1>6. CASE UNCHANGED vars
  BY <1>6, StutterInv
<1>7. QED
  BY <1>1, <1>2, <1>3, <1>4, <1>5, <1>6 DEF Next

LEMMA InvAlways == Spec => []Inv
  BY InvInit, InvNext, PTL DEF Spec

\* The handlers stay on the channels there are, write into them only what a channel
\* can hold, and show values in range.
THEOREM TypeCorrect == Spec => []TypeOK
<1>1. Inv => TypeOK
  BY DEF Inv
<1>2. QED
  BY <1>1, InvAlways, PTL

\* A reply 200 of handle_pwm_config or handle_pwm_enable is true when it is sent,
\* unless another process switched the channel meanwhile.
THEOREM RepliesAreTrue == Spec => []SuccessIsApplied
<1>1. Inv => SuccessIsApplied
  BY DEF Inv, Rest, Prefix, PeriodSet, DutySet, PolaritySet, Switch, SwitchDone,
         SuccessIsApplied
<1>2. QED
  BY <1>1, InvAlways, PTL

\* pwm_apply_config puts the switch back, whatever fails, as long as the enable file
\* can be written.
THEOREM SwitchIsPutBack == Spec => []SwitchIsKept
<1>1. Inv => SwitchIsKept
  BY DEF Inv, Rest, Switch, SwitchIsKept
<1>2. QED
  BY <1>1, InvAlways, PTL

\* A config that fails has applied its parameters in the order of the writes.
THEOREM ErrorsKeepTheOrder == Spec => []ErrorAppliesPrefix
<1>1. Inv => ErrorAppliesPrefix
  BY DEF Inv, Rest, Prefix, PeriodSet, DutySet, DutyKept, PolarityKept,
         ErrorAppliesPrefix
<1>2. QED
  BY <1>1, InvAlways, PTL

\* A config never turns on what was off during all of it, even when other processes
\* switch the channel between its steps.
THEOREM NeverTurnsOn == Spec => []ConfigNeverTurnsOn
<1>1. Inv => ConfigNeverTurnsOn
  BY DEF Inv, Rest, NeverOn
<1>2. QED
  BY <1>1, InvAlways, PTL

\* What GET shows after a config that succeeded is the config, up to the rounding of
\* pwm.c: the same period when applied again, and at most one percent less duty.
THEOREM StatusAgrees == Spec => []StatusShowsConfig
<1>1. Inv => StatusShowsConfig
  <2> SUFFICES ASSUME Inv,
                      pc = "reply", code = 200, req.op = "status",
                      "status_read" \notin faults,
                      NEW c \in Channels, applied[c] # NoConfig
               PROVE  /\ shown[c].frequency >= applied[c].frequency
                      /\ PeriodNs(shown[c].frequency) = hw[c].period
                      /\ shown[c].duty \in {applied[c].duty - 1, applied[c].duty}
    BY DEF StatusShowsConfig
  <2>1. AsApplied(c)
    BY DEF Inv, Rest, Applied
  <2>2. /\ shown[c].frequency = ShownFrequency(hw[c].period)
        /\ shown[c].duty = ShownDuty(hw[c].duty, hw[c].period)
    BY DEF Inv, Rest, StatusInv
  <2>3. hw[c].period \in Nat /\ hw[c].period >= 100
    BY <2>1, PeriodType DEF AsApplied
  <2>4. QED
    BY <2>1, <2>2, <2>3, FrequencyRounding, DutyRounding DEF AsApplied
<1>2. QED
  BY <1>1, InvAlways, PTL

\* Only the three writes of parameters change them.
LEMMA ChangesWhileOff ==
  ASSUME Inv, [Next]_vars, NEW c \in Channels,
         [hw[c] EXCEPT !.enable = 0, !.node = "present"] #
            [hw'[c] EXCEPT !.enable = 0, !.node = "present"]
  PROVE  hw[c].enable = 0 \/ touched \/ "enable_read" \in faults
<1> USE DEF Inv
<1> DEFINE Bare(ch) == [ch EXCEPT !.enable = 0, !.node = "present"]
<1>1. hw[c] \in Channel /\ hw'[c] \in Channel
  BY InvNext DEF TypeOK
<1>2. ~(/\ hw'[c].period = hw[c].period /\ hw'[c].duty = hw[c].duty
        /\ hw'[c].polarity = hw[c].polarity)
  BY <1>1 DEF Channel
<1>3. CASE WritePeriod \/ WriteDuty \/ WritePolarity
  <2>1. pc \in {"period", "duty", "polarity"} /\ req.op = "config"
    BY <1>3 DEF WritePeriod, WriteDuty, WritePolarity, Control, Working
  <2>2. c = target
    <3>1. hw' = hw \/ \E new : hw' = [hw EXCEPT ![target] = new]
      BY <1>3 DEF WritePeriod, WriteDuty, WritePolarity, Writes, Refused
    <3>2. QED
      BY <1>2, <3>1 DEF TypeOK
  <2>3. QED
    BY <2>1, <2>2 DEF Rest, Switch, Configuring, Here
<1>4. CASE Disable \/ Restore \/ Recover \/ WriteEnable
  <2>1. PICK v \in {0, 1} : Writes("enable", v) \/ hw' = hw
    BY <1>4 DEF Disable, Restore, Recover, WriteEnable, Refused, Control
  <2>2. QED
    BY <1>2, <2>1, EnableWritten DEF Here, TypeOK
<1>5. CASE AlreadyExported \/ Export \/ ExportFails \/ \E d \in Channels : NodeAppears(d)
  <2>1. SameOutput
    BY <1>5, NodeSet
       DEF AlreadyExported, Export, ExportFails, NodeAppears, SameOutput, TypeOK, Nodes
  <2>2. QED
    BY <1>2, <2>1 DEF SameOutput
<1>6. ASSUME NEW d \in Channels, NEW enable \in {0, 1}, OtherProcess(d, enable)
      PROVE  FALSE
  <2>1. hw' = [hw EXCEPT ![d] = [hw[d] EXCEPT !.enable = enable]]
    BY <1>6 DEF OtherProcess
  <2>2. QED
    BY <1>2, <2>1 DEF TypeOK, Channel
<1>7. CASE hw' = hw
  BY <1>2, <1>7
<1>8. QED
  BY <1>3, <1>4, <1>5, <1>6, <1>7
     DEF Next, HandleConfig, HandleEnable, HandleStatus, Take, ReadEnable, ReadStatus,
         Finish, Crash, Forget, vars

\* pwm_apply_config changes the parameters of a channel only while its output is
\* off, unless it could not read that it is on or another process turned it on.
THEOREM ParametersChangeWhileOff == Spec => ChangedWhileOff
<1>1. Inv /\ [Next]_vars =>
        [\A c \in Channels :
           /\ [hw[c] EXCEPT !.enable = 0, !.node = "present"] #
                [hw'[c] EXCEPT !.enable = 0, !.node = "present"]
           => hw[c].enable = 0 \/ touched \/ "enable_read" \in faults]_vars
  BY ChangesWhileOff
<1>2. QED
  BY <1>1, InvAlways, PTL DEF Spec, ChangedWhileOff

-----------------------------------------------------------------------------
(* Pwm implements PwmService. The invariant that takes, beside Inv.        *)

\* A request is answered when it has a reply, and not before.
CodeInv == /\ pc # "reply" => code = 0
           /\ pc = "reply" => code # 0

TargetInv == pc \notin {"idle", "reply"} /\ req.op \in {"config", "enable"} => target = req.channel

\* Unless another process has used the switch, it was on when the request arrived
\* if it was on at any moment of it.
OnInv == /\ pc = "idle" => ~touched
         /\ ~touched /\ wasOn => before.enable = 1

\* Every parameter is the one the request found or the one it asks for.
RangeInv ==
  pc # "idle" /\ req.op = "config" =>
    /\ Here.period = before.period \/ PeriodSet
    /\ DutyKept \/ DutySet
    /\ PolarityKept \/ PolaritySet

ServiceInv == CodeInv /\ TargetInv /\ OnInv /\ RangeInv

LEMMA ServiceInit == Init => ServiceInv
BY DEF Init, Idle, ServiceInv, CodeInv, TargetInv, OnInv, RangeInv

LEMMA CodeNext == CodeInv /\ [Next]_vars => CodeInv'
<1> SUFFICES ASSUME CodeInv, [Next]_vars PROVE CodeInv'
  OBVIOUS
<1>1. CASE \/ \E r \in ConfigRequests : HandleConfig(r)
           \/ \E r \in EnableRequests : HandleEnable(r)
           \/ HandleStatus
  BY <1>1 DEF HandleConfig, HandleEnable, HandleStatus, Take, Goto, Reply, CodeInv
<1>2. CASE AlreadyExported \/ Export \/ ExportFails
  BY <1>2 DEF AlreadyExported, Export, AfterExport, ExportFails, Reply, CodeInv
<1>3. CASE ReadEnable \/ Disable \/ Restore \/ Recover \/ WriteEnable \/ ReadStatus
  BY <1>3 DEF ReadEnable, Disable, Restore, Recover, WriteEnable, ReadStatus, Goto, Reply,
              CodeInv
<1>4. CASE WritePeriod \/ WriteDuty \/ WritePolarity
  <2>1. pc # "reply" /\ (\/ \E place \in PCs \ {"reply"} : Goto(place)
                         \/ \E status \in {200, 503} : Reply(status))
    BY <1>4 DEF WritePeriod, WriteDuty, WritePolarity, GiveUp, PCs
  <2>2. QED
    BY <2>1 DEF Goto, Reply, CodeInv
<1>5. CASE Finish \/ Crash
  BY <1>5 DEF Finish, Crash, Forget, CodeInv
<1>6. CASE \/ \E c \in Channels : NodeAppears(c)
           \/ \E c \in Channels, enable \in {0, 1} : OtherProcess(c, enable)
           \/ UNCHANGED vars
  BY <1>6 DEF NodeAppears, OtherProcess, server, vars, CodeInv
<1>7. QED
  BY <1>1, <1>2, <1>3, <1>4, <1>5, <1>6 DEF Next

\* The steps of a handler after its first. They leave alone what the request is.
Proceeds ==
  \/ AlreadyExported \/ Export \/ ExportFails
  \/ ReadEnable \/ Disable \/ Restore \/ Recover
  \/ WritePeriod \/ WriteDuty \/ WritePolarity
  \/ WriteEnable \/ ReadStatus

LEMMA StaysOnRequest ==
  ASSUME Proceeds
  PROVE  /\ pc \notin {"idle", "reply"} /\ pc' # "idle"
         /\ UNCHANGED <<req, before, touched, wasOn>>
         /\ target' = target \/ req.op = "status"
<1>1. CASE AlreadyExported \/ Export \/ ExportFails
  BY <1>1 DEF AlreadyExported, Export, AfterExport, ExportFails, Reply, request
<1>2. CASE ReadEnable \/ Disable \/ Restore \/ Recover \/ WriteEnable \/ ReadStatus
  BY <1>2 DEF ReadEnable, Disable, Restore, Recover, WriteEnable, ReadStatus, Kept, Goto,
              Reply
<1>3. CASE WritePeriod \/ WriteDuty \/ WritePolarity
  BY <1>3 DEF WritePeriod, WriteDuty, WritePolarity, GiveUp, Kept, Goto, Reply
<1>4. QED
  BY <1>1, <1>2, <1>3 DEF Proceeds

\* What every request does when it arrives.
Arrives ==
  \E r \in Requests, c \in Channels :
    /\ Take(r, c)
    /\ pc' \in {"reply", "export"}
    /\ pc' = "export" /\ r.op # "status" => c = r.channel

LEMMA ArrivesBy ==
  ASSUME \/ \E r \in ConfigRequests : HandleConfig(r)
         \/ \E r \in EnableRequests : HandleEnable(r)
         \/ HandleStatus
  PROVE  Arrives
<1>1. ASSUME NEW r \in ConfigRequests, HandleConfig(r) PROVE Arrives
  BY <1>1, ZeroIsChannel DEF HandleConfig, Arrives, Goto, Reply, ValidConfig, Requests
<1>2. ASSUME NEW r \in EnableRequests, HandleEnable(r) PROVE Arrives
  BY <1>2, ZeroIsChannel DEF HandleEnable, Arrives, Goto, Reply, Requests
<1>3. ASSUME HandleStatus PROVE Arrives
  BY <1>3, ZeroIsChannel
     DEF HandleStatus, Arrives, Goto, Reply, Requests, StatusRequest
<1>4. QED
  BY <1>1, <1>2, <1>3

LEMMA TargetNext == Inv /\ TargetInv /\ [Next]_vars => TargetInv'
<1> SUFFICES ASSUME Inv, TargetInv, [Next]_vars PROVE TargetInv'
  OBVIOUS
<1>1. CASE Arrives
  BY <1>1 DEF Arrives, Take, TargetInv
<1>2. CASE Proceeds
  BY <1>2, StaysOnRequest DEF TargetInv
<1>3. CASE Finish \/ Crash
  BY <1>3 DEF Finish, Crash, Forget, TargetInv
<1>4. CASE \/ \E c \in Channels : NodeAppears(c)
           \/ \E c \in Channels, enable \in {0, 1} : OtherProcess(c, enable)
           \/ UNCHANGED vars
  BY <1>4 DEF NodeAppears, OtherProcess, server, vars, TargetInv
<1>5. QED
  BY <1>1, <1>2, <1>3, <1>4, ArrivesBy DEF Next, Proceeds

LEMMA OnNext == Inv /\ OnInv /\ [Next]_vars => OnInv'
<1> SUFFICES ASSUME Inv, OnInv, [Next]_vars PROVE OnInv'
  OBVIOUS
<1>1. CASE Arrives
  <2>1. PICK r \in Requests, c \in Channels :
          Take(r, c) /\ pc' \in {"reply", "export"}
    BY <1>1 DEF Arrives
  <2>2. before' = hw[c] /\ (wasOn' <=> hw[c].enable = 1) /\ touched' = touched
    BY <2>1 DEF Take
  <2>3. QED
    BY <2>1, <2>2 DEF OnInv
<1>2. CASE Proceeds
  BY <1>2, StaysOnRequest DEF OnInv
<1>3. CASE Finish \/ Crash
  BY <1>3 DEF Finish, Crash, Forget, OnInv
<1>4. CASE \E c \in Channels, enable \in {0, 1} : OtherProcess(c, enable)
  BY <1>4 DEF OtherProcess, server, OnInv
<1>5. CASE (\E c \in Channels : NodeAppears(c)) \/ UNCHANGED vars
  BY <1>5 DEF NodeAppears, server, request, vars, OnInv
<1>6. QED
  BY <1>1, <1>2, <1>3, <1>4, <1>5, ArrivesBy DEF Next, Proceeds

\* A step of a config writes what the request asks for or leaves the parameters alone.
LEMMA ConfigWrites ==
  ASSUME Inv, Proceeds, req.op = "config"
  PROVE  /\ hw'[target].period \in {Here.period, PeriodNs(req.frequency)}
         /\ hw'[target].duty \in {Here.duty, DutyNs(PeriodNs(req.frequency), req.duty)}
         /\ hw'[target].polarity \in {Here.polarity, req.polarity}
         /\ \A c \in Channels \ {target} : Output(hw'[c]) = Output(hw[c])
<1> USE DEF Inv, Here
<1>1. CASE AlreadyExported \/ Export \/ ExportFails
  <2>1. SameOutput
    BY <1>1, NodeSet DEF AlreadyExported, Export, ExportFails, SameOutput, TypeOK, Nodes
  <2>2. QED
    BY <2>1 DEF SameOutput, Output, TypeOK
<1>2. CASE ReadEnable \/ ReadStatus
  BY <1>2 DEF ReadEnable, ReadStatus
<1>3. CASE Disable \/ Restore \/ Recover
  <2>1. PICK v \in {0, 1} : Writes("enable", v) \/ hw' = hw
    BY <1>3 DEF Disable, Restore, Recover, Refused
  <2>2. QED
    BY <2>1, EnableWritten
<1>4. CASE WritePeriod
  <2>1. PeriodNs(req.frequency) \in Nat
    BY <1>4, ConfigType DEF WritePeriod, Control, Working
  <2>2. Writes("period", PeriodNs(req.frequency)) \/ hw' = hw
    BY <1>4 DEF WritePeriod, Refused
  <2>3. QED
    BY <2>1, <2>2, PeriodWritten
<1>5. CASE WriteDuty
  <2>1. DutyNs(PeriodNs(req.frequency), req.duty) \in Nat
    BY <1>5, ConfigType DEF WriteDuty, Control, Working
  <2>2. Writes("duty", DutyNs(PeriodNs(req.frequency), req.duty)) \/ hw' = hw
    BY <1>5 DEF WriteDuty, Refused
  <2>3. QED
    BY <2>1, <2>2, DutyWritten
<1>6. CASE WritePolarity
  <2>1. req.polarity \in Polarities
    BY <1>6, ConfigType DEF WritePolarity, Control, Working
  <2>2. Writes("polarity", req.polarity) \/ hw' = hw
    BY <1>6 DEF WritePolarity, Refused
  <2>3. QED
    BY <2>1, <2>2, PolarityWritten
<1>7. ~WriteEnable
  BY DEF WriteEnable, Control
<1>8. QED
  BY <1>1, <1>2, <1>3, <1>4, <1>5, <1>6, <1>7 DEF Proceeds

\* Another process changes the switch of a channel and nothing else.
LEMMA SwitchOnly ==
  ASSUME TypeOK, NEW c \in Channels, NEW enable \in {0, 1}, OtherProcess(c, enable)
  PROVE  \A d \in Channels :
           /\ hw'[d].period = hw[d].period /\ hw'[d].duty = hw[d].duty
           /\ hw'[d].polarity = hw[d].polarity
           /\ hw'[d].enable = IF c = d THEN enable ELSE hw[d].enable
<1>1. hw' = [hw EXCEPT ![c] = [hw[c] EXCEPT !.enable = enable]]
  BY DEF OtherProcess
<1>2. QED
  BY <1>1 DEF TypeOK, Channel

LEMMA RangeNext == Inv /\ RangeInv /\ [Next]_vars => RangeInv'
<1> SUFFICES ASSUME Inv, RangeInv, [Next]_vars PROVE RangeInv'
  OBVIOUS
<1> USE DEF RangeInv, PeriodSet, DutyKept, DutySet, PolarityKept, PolaritySet
<1>1. CASE Arrives
  BY <1>1 DEF Arrives, Take, Here
<1>2. CASE Proceeds /\ req.op = "config"
  <2>1. /\ UNCHANGED <<req, before, target>> /\ pc # "idle"
    BY <1>2, StaysOnRequest
  <2>2. Here' = hw'[target]
    BY <2>1 DEF Here
  <2>3. QED
    BY <1>2, <2>1, <2>2, ConfigWrites
<1>3. CASE Proceeds /\ req.op # "config"
  BY <1>3, StaysOnRequest
<1>4. CASE Finish \/ Crash
  BY <1>4 DEF Finish, Crash, Forget
<1>5. CASE \/ \E c \in Channels : NodeAppears(c)
           \/ \E c \in Channels, enable \in {0, 1} : OtherProcess(c, enable)
           \/ UNCHANGED vars
  <2>1. UNCHANGED <<pc, req, target, before>>
    BY <1>5 DEF NodeAppears, OtherProcess, server, request, vars
  <2>2. \A c \in Channels : /\ hw'[c].period = hw[c].period /\ hw'[c].duty = hw[c].duty
                            /\ hw'[c].polarity = hw[c].polarity
    <3>1. CASE \E c \in Channels : NodeAppears(c)
      BY <3>1, NodeSet DEF NodeAppears, SameOutput, Nodes, Inv
    <3>2. CASE \E c \in Channels, enable \in {0, 1} : OtherProcess(c, enable)
      BY <3>2, SwitchOnly DEF Inv
    <3>3. CASE UNCHANGED vars
      BY <3>3 DEF vars
    <3>4. QED
      BY <1>5, <3>1, <3>2, <3>3
  <2>3. QED
    BY <2>1, <2>2 DEF Inv, TypeOK, Here
<1>6. QED
  BY <1>1, <1>2, <1>3, <1>4, <1>5, ArrivesBy DEF Next, Proceeds

LEMMA ServiceInvNext == Inv /\ ServiceInv /\ [Next]_vars => ServiceInv'
BY CodeNext, TargetNext, OnNext, RangeNext DEF ServiceInv

-----------------------------------------------------------------------------
(* The refinement. *)

LEMMA ServiceOperators ==
  /\ \A f : Service!PeriodNs(f) = PeriodNs(f) /\ Service!ValidFrequency(f) = ValidFrequency(f)
  /\ \A period, d : Service!DutyNs(period, d) = DutyNs(period, d)
  /\ \A ch : Service!Output(ch) = Output(ch)
  /\ \A ch, failed : Service!Look(ch, failed) = Look(ch, failed)
  /\ Service!Unexported = Unexported
  /\ Service!Percents = Percents /\ Service!Polarities = Polarities
BY DEF Service!PeriodNs, PeriodNs, Service!ValidFrequency, ValidFrequency, Service!DutyNs,
       DutyNs, Service!Output, Output, Service!Look, Look, Service!ShownFrequency,
       ShownFrequency, Service!ShownDuty, ShownDuty, Service!Unexported, Unexported,
       Service!Percents, Percents, Service!Polarities, Polarities

LEMMA ValidRequests ==
  /\ \A r \in ConfigRequests : Service!Valid(r) <=> ValidConfig(r)
  /\ \A r \in EnableRequests :
       Service!Valid(r) <=> r.channel \in Channels /\ r.enable \in {0, 1}
  /\ Service!Valid(StatusRequest)
BY ServiceOperators DEF Service!Valid, ValidConfig, ConfigRequests, EnableRequests, StatusRequest

Outcome(o, r, n, enable) == Service!Switched(Service!Written(Output(o), r, n), enable)

LEMMA OutcomeFields ==
  ASSUME NEW o, NEW r, NEW n, NEW enable
  PROVE  LET period == PeriodNs(r.frequency) IN
         Outcome(o, r, n, enable) =
           [enable   |-> enable,
            period   |-> IF n >= 1 THEN period ELSE o.period,
            duty     |-> IF n >= 2 THEN DutyNs(period, r.duty) ELSE o.duty,
            polarity |-> IF n = 3 THEN r.polarity ELSE o.polarity]
<1> DEFINE period == PeriodNs(r.frequency)
           p == IF n >= 1 THEN period ELSE o.period
           d == IF n >= 2 THEN DutyNs(period, r.duty) ELSE o.duty
           l == IF n = 3 THEN r.polarity ELSE o.polarity
<1>1. Service!Written(Output(o), r, n) =
        [enable |-> o.enable, period |-> p, duty |-> d, polarity |-> l]
  BY ServiceOperators DEF Service!Written, Output
<1> HIDE DEF p, d, l
<1>2. Outcome(o, r, n, enable) =
        [enable |-> enable, period |-> p, duty |-> d, polarity |-> l]
  BY <1>1 DEF Outcome, Service!Switched
<1>3. QED
  BY <1>2 DEF p, d, l

\* A channel whose parameters have been replaced in the order of the writes.
LEMMA HowFar ==
  ASSUME NEW h, NEW o, NEW r,
         h.period \in {o.period, PeriodNs(r.frequency)},
         h.duty \in {o.duty, DutyNs(PeriodNs(r.frequency), r.duty)},
         h.polarity \in {o.polarity, r.polarity},
         h.duty = o.duty \/ h.period = PeriodNs(r.frequency),
         \/ h.polarity = o.polarity
         \/ h.period = PeriodNs(r.frequency) /\ h.duty = DutyNs(PeriodNs(r.frequency), r.duty)
  PROVE  \E n \in 0 .. 3 : Output(h) = Outcome(o, r, n, h.enable)
<1> DEFINE p == PeriodNs(r.frequency)
           d == DutyNs(p, r.duty)
<1> HIDE DEF d, p
<1>1. CASE h.polarity # o.polarity
  <2>1. Output(h) = Outcome(o, r, 3, h.enable)
    BY <1>1, OutcomeFields DEF Output, p, d
  <2>2. QED
    BY <2>1
<1>2. CASE h.polarity = o.polarity /\ h.duty # o.duty
  <2>1. Output(h) = Outcome(o, r, 2, h.enable)
    BY <1>2, OutcomeFields DEF Output, p, d
  <2>2. QED
    BY <2>1
<1>3. CASE h.polarity = o.polarity /\ h.duty = o.duty /\ h.period # o.period
  <2>1. Output(h) = Outcome(o, r, 1, h.enable)
    BY <1>3, OutcomeFields DEF Output, p, d
  <2>2. QED
    BY <2>1
<1>4. CASE h.polarity = o.polarity /\ h.duty = o.duty /\ h.period = o.period
  <2>1. Output(h) = Outcome(o, r, 0, h.enable)
    BY <1>4, OutcomeFields DEF Output, p, d
  <2>2. QED
    BY <2>1
<1>5. QED
  BY <1>1, <1>2, <1>3, <1>4

\* Of a config at work other clients see the channel as it was.
LEMMA OutputsWhere ==
  /\ ~AtWork => Outputs = [c \in Channels |-> Output(hw[c])]
  /\ AtWork => Outputs = [c \in Channels |-> IF c = target THEN Output(before) ELSE Output(hw[c])]
BY DEF Outputs

\* Where a config stands that has got anywhere.
LEMMA ConfigReached ==
  ASSUME Inv, ServiceInv, pc # "idle", req.op = "config"
  PROVE  /\ \E n \in 0 .. 3 : Output(Here) = Outcome(before, req, n, Here.enable)
         /\ Here.enable \in {0, 1}
         /\ ~touched => Here.enable \in {0, before.enable}
         /\ pc = "reply" /\ code = 200 =>
              /\ Output(Here) = Outcome(before, req, 3, Here.enable)
              /\ ~touched => Here.enable = before.enable
<1>0. pc \in {"export", "read_enable", "disable", "period", "duty", "polarity", "restore",
             "recover", "reply"}
  BY DEF Inv, TypeOK, PCs, Control
<1>1. DutyKept \/ PeriodSet
  BY <1>0 DEF Inv, Rest, Prefix
<1>2. PolarityKept \/ (PeriodSet /\ DutySet)
  BY <1>0 DEF Inv, Rest, Prefix
<1>3. \E n \in 0 .. 3 : Output(Here) = Outcome(before, req, n, Here.enable)
  BY <1>1, <1>2, HowFar
     DEF ServiceInv, RangeInv, PeriodSet, DutySet, PolaritySet, DutyKept, PolarityKept
<1>4. Here.enable \in {0, 1}
  BY DEF Inv, TypeOK, Here, Channel
<1>5. ~touched => Here.enable \in {0, before.enable}
  BY <1>4 DEF Inv, Rest, NeverOn, ConfigNeverTurnsOn, ServiceInv, OnInv
<1>6. pc = "reply" /\ code = 200 =>
        /\ PeriodSet /\ DutySet /\ PolaritySet
        /\ ~touched => Here.enable = before.enable
  BY DEF Inv, Rest, Prefix, Switch
<1>7. PeriodSet /\ DutySet /\ PolaritySet => Output(Here) = Outcome(before, req, 3, Here.enable)
  BY OutcomeFields DEF Output, PeriodSet, DutySet, PolaritySet
<1>8. QED
  BY <1>3, <1>4, <1>5, <1>6, <1>7

\* The same as a state predicate, for the state after a step.
Reached ==
  req.op = "config" /\ pc # "idle" =>
    /\ \E n \in 0 .. 3 : Output(Here) = Outcome(before, req, n, Here.enable)
    /\ Here.enable \in {0, 1}
    /\ ~touched => Here.enable \in {0, before.enable}
    /\ pc = "reply" /\ code = 200 =>
         /\ Output(Here) = Outcome(before, req, 3, Here.enable)
         /\ ~touched => Here.enable = before.enable

LEMMA ReachedAlways == Inv /\ ServiceInv => Reached
BY ConfigReached DEF Reached

\* Requests that arrive.
LEMMA ServiceArrives ==
  ASSUME ServiceInv, NEW r \in ConfigRequests \cup EnableRequests \cup {StatusRequest}, NEW c,
         Take(r, c), req = NoRequest,
         \/ code' = IF Service!Valid(r) THEN 0 ELSE 400
         \/ r.op = "status" /\ code' = 503
  PROVE  Service!Next
<1>1. /\ pc = "idle" /\ req' = r /\ target' = c /\ before' = hw[c] /\ ~touched
      /\ UNCHANGED <<hw, shown, touched>>
  BY DEF Take, ServiceInv, OnInv
<1>2. Outputs' = Outputs
  BY <1>1 DEF Outputs, AtWork
<1>3. (touched /\ AtWork)' <=> (touched /\ AtWork)
  BY <1>1
<1>4. Service!Arrive(r)
  BY <1>1, <1>2, <1>3 DEF Service!Arrive
<1>5. QED
  BY <1>4 DEF Service!Next

LEMMA ServiceTakes ==
  ASSUME Inv, ServiceInv,
         \/ \E r \in ConfigRequests : HandleConfig(r)
         \/ \E r \in EnableRequests : HandleEnable(r)
         \/ HandleStatus
  PROVE  Service!Next
<1>1. pc = "idle" /\ code = 0 /\ req = NoRequest
  BY DEF HandleConfig, HandleEnable, HandleStatus, Take, Inv, Control, ServiceInv, CodeInv
<1>2. ASSUME NEW r \in ConfigRequests, HandleConfig(r) PROVE Service!Next
  <2>1. code' = IF Service!Valid(r) THEN 0 ELSE 400
    BY <1>1, <1>2, ValidRequests DEF HandleConfig, Goto, Reply
  <2>2. PICK c : Take(r, c)
    BY <1>2 DEF HandleConfig
  <2>3. QED
    BY <1>1, <2>1, <2>2, ServiceArrives
<1>3. ASSUME NEW r \in EnableRequests, HandleEnable(r) PROVE Service!Next
  <2>1. code' = IF Service!Valid(r) THEN 0 ELSE 400
    BY <1>1, <1>3, ValidRequests DEF HandleEnable, Goto, Reply
  <2>2. PICK c : Take(r, c)
    BY <1>3 DEF HandleEnable
  <2>3. QED
    BY <1>1, <2>1, <2>2, ServiceArrives
<1>4. ASSUME HandleStatus PROVE Service!Next
  <2>1. \/ code' = IF Service!Valid(StatusRequest) THEN 0 ELSE 400
        \/ StatusRequest.op = "status" /\ code' = 503
    BY <1>1, <1>4, ValidRequests DEF HandleStatus, Goto, Reply, StatusRequest
  <2>2. Take(StatusRequest, 0)
    BY <1>4 DEF HandleStatus
  <2>3. QED
    BY <1>1, <2>1, <2>2, ServiceArrives
<1>5. QED
  BY <1>2, <1>3, <1>4

-----------------------------------------------------------------------------
\* A step that ends a request replies 200 or 503; the others leave the code alone.
LEMMA ProceedsTo ==
  ASSUME Inv, ServiceInv, Proceeds
  PROVE  /\ code = 0 /\ req # NoRequest
         /\ pc' # "reply" => code' = code
         /\ pc' = "reply" => code' \in {200, 503}
         /\ ~ReadStatus => shown' = shown
<1>1. pc \notin {"idle", "reply"}
  BY StaysOnRequest
<1>2. code = 0 /\ req # NoRequest
  <2>1. req.op \in {"config", "enable", "status"}
    BY <1>1 DEF Inv, TypeOK, PCs, Control, Working
  <2>2. QED
    BY <1>1, <2>1 DEF ServiceInv, CodeInv, NoRequest
<1>3. CASE AlreadyExported \/ Export \/ ExportFails
  BY <1>2, <1>3 DEF AlreadyExported, Export, AfterExport, ExportFails, Reply
<1>4. CASE ReadEnable \/ Disable \/ Restore \/ Recover \/ WriteEnable \/ ReadStatus
  BY <1>2, <1>4
     DEF ReadEnable, Disable, Restore, Recover, WriteEnable, ReadStatus, Kept, Goto, Reply
<1>5. CASE WritePeriod \/ WriteDuty \/ WritePolarity
  BY <1>2, <1>5 DEF WritePeriod, WriteDuty, WritePolarity, GiveUp, Kept, Goto, Reply
<1>6. QED
  BY <1>2, <1>3, <1>4, <1>5 DEF Proceeds

\* What a config makes of its channel shows when it ends.
LEMMA ConfigProceeds ==
  ASSUME Inv, ServiceInv, Reached', Proceeds, req.op = "config"
  PROVE  [Service!Next]_Service!vars
<1>1. /\ pc \notin {"idle", "reply"} /\ pc' # "idle"
      /\ UNCHANGED <<req, before, touched, target>>
      /\ code = 0 /\ req # NoRequest
  BY StaysOnRequest, ProceedsTo
<1>2. shown' = shown
  <2>1. ~ReadStatus
    BY DEF ReadStatus, Inv, Control
  <2>2. QED
    BY <2>1, ProceedsTo
<1>3. AtWork /\ target = req.channel /\ target \in Channels
  BY <1>1 DEF AtWork, ServiceInv, TargetInv, Inv, TypeOK
<1>4. Outputs = [c \in Channels |-> IF c = target THEN Output(before) ELSE Output(hw[c])]
  BY <1>3, OutputsWhere
<1>5. CASE pc' # "reply"
  <2>1. AtWork' /\ code' = code
    BY <1>1, <1>5, ProceedsTo DEF AtWork
  <2>2. Outputs' = [c \in Channels |-> IF c = target THEN Output(before) ELSE Output(hw'[c])]
    BY <1>1, <2>1 DEF Outputs
  <2>3. \A c \in Channels : c # target => Output(hw'[c]) = Output(hw[c])
    BY ConfigWrites
  <2>4. Outputs' = Outputs
    BY <1>4, <2>2, <2>3
  <2>5. (touched /\ AtWork)' <=> (touched /\ AtWork)
    BY <1>1, <1>3, <2>1
  <2>6. QED
    BY <1>1, <1>2, <2>1, <2>4, <2>5 DEF Service!vars
<1>6. CASE pc' = "reply"
  <2> DEFINE e == hw'[target].enable
  <2>1. ~AtWork' /\ code' \in {200, 503}
    BY <1>6, ProceedsTo DEF AtWork
  <2>2. Outputs' = [c \in Channels |-> Output(hw'[c])]
    BY <2>1 DEF Outputs
  <2>3. Outputs' = [Outputs EXCEPT ![target] = Output(hw'[target])]
    BY <1>3, <1>4, <2>2, ConfigWrites
  <2>4. Here' = hw'[target]
    BY <1>1 DEF Here
  <2>5. /\ \E n \in 0 .. 3 : Output(hw'[target]) = Outcome(before, req, n, e)
        /\ e \in {0, 1}
        /\ ~touched => e \in {0, before.enable}
        /\ code' = 200 => /\ Output(hw'[target]) = Outcome(before, req, 3, e)
                          /\ ~touched => e = before.enable
    BY <1>1, <1>6, <2>4 DEF Reached
  <2>6. Service!Here = Output(before) /\ Outputs[req.channel] = Output(before)
    BY <1>3, <1>4 DEF Service!Here
  <2>7. Output(before).enable = before.enable
    BY DEF Output
  <2> HIDE DEF e
  <2>8. e \in (IF touched /\ AtWork THEN {0, 1} ELSE {0, Service!Here.enable})
    BY <1>3, <2>5, <2>6, <2>7
  <2>9. ASSUME NEW n, Output(hw'[target]) = Outcome(before, req, n, e)
        PROVE  Service!ConfigEnds(n, e)
    BY <1>3, <2>3, <2>6, <2>8, <2>9 DEF Service!ConfigEnds, Outcome
  <2>10. (touched /\ AtWork)' = FALSE
    BY <2>1
  <2>11. CASE code' = 200
    <3>1. Service!ConfigEnds(3, e) /\ ((touched /\ AtWork) \/ e = Service!Here.enable)
      BY <1>3, <2>5, <2>6, <2>7, <2>9, <2>11
    <3>2. Service!ConfigDone
      BY <1>1, <1>2, <2>5, <2>10, <2>11, <3>1 DEF Service!ConfigDone, Service!Working
    <3>3. QED
      BY <3>2 DEF Service!Next
  <2>12. CASE code' = 503
    <3>1. PICK n \in 0 .. 3 : Service!ConfigEnds(n, e)
      BY <2>5, <2>9
    <3>2. Service!Fail
      BY <1>1, <1>2, <2>5, <2>10, <2>12, <3>1
         DEF Service!Fail, Service!EndsInPart, Service!Working
    <3>3. QED
      BY <3>2 DEF Service!Next
  <2>13. QED
    BY <2>1, <2>11, <2>12
<1>7. QED
  BY <1>5, <1>6

\* A step of another request that leaves the outputs alone.
LEMMA OtherProceeds ==
  ASSUME Inv, ServiceInv, Proceeds, req.op # "config"
  PROVE  [Service!Next]_Service!vars
<1>1. /\ pc \notin {"idle", "reply"} /\ pc' # "idle" /\ req' = req /\ touched' = touched
      /\ code = 0 /\ req # NoRequest
  BY StaysOnRequest, ProceedsTo
<1>2. ~AtWork /\ ~AtWork'
  BY <1>1 DEF AtWork
<1>3. (touched /\ AtWork)' <=> (touched /\ AtWork)
  BY <1>2
<1>4. /\ Outputs = [c \in Channels |-> Output(hw[c])]
      /\ Outputs' = [c \in Channels |-> Output(hw'[c])]
  BY <1>2 DEF Outputs
<1>5. CASE AlreadyExported \/ Export \/ ExportFails
  <2>1. SameOutput
    BY <1>5, NodeSet DEF AlreadyExported, Export, ExportFails, SameOutput, TypeOK, Nodes, Inv
  <2>2. \A c \in Channels : Output(hw'[c]) = Output(hw[c])
    BY <2>1 DEF SameOutput, Output
  <2>3. Outputs' = Outputs
    BY <1>4, <2>2
  <2>4. shown' = shown
    BY <1>5 DEF AlreadyExported, Export, ExportFails
  <2>5. CASE pc' # "reply"
    <3>1. code' = code
      BY <2>5, ProceedsTo
    <3>2. QED
      BY <1>1, <1>3, <2>3, <2>4, <3>1 DEF Service!vars
  <2>6. CASE pc' = "reply"
    <3>1. code' = 503
      BY <1>1, <1>5, <2>6 DEF AlreadyExported, Export, AfterExport, ExportFails, Reply
    <3>2. (touched /\ AtWork)' = FALSE
      BY <1>2
    <3>3. Service!Fail
      BY <1>1, <2>3, <2>4, <3>1, <3>2
         DEF Service!Fail, Service!Working, Service!EndsInPart
    <3>4. QED
      BY <3>3 DEF Service!Next
  <2>7. QED
    BY <2>5, <2>6
<1>6. CASE WriteEnable
  <2>1. /\ req.op = "enable" /\ req.enable \in {0, 1} /\ shown' = shown
        /\ target = req.channel /\ target \in Channels
    BY <1>1, <1>6
       DEF WriteEnable, Inv, Control, TypeOK, Kept, ServiceInv, TargetInv
  <2>2. CASE Writes("enable", req.enable) /\ code' = 200
    <3>1. \A c \in Channels \ {target} : Output(hw'[c]) = Output(hw[c])
      BY <2>1, <2>2, EnableWritten DEF Inv
    <3>2. Output(hw'[target]) = Service!Switched(Output(hw[target]), req.enable)
      BY <2>1, <2>2, EnableWritten DEF Inv, Output, Service!Switched, Here
    <3>3. Outputs' = [Outputs EXCEPT ![req.channel] = Service!Switched(@, req.enable)]
      BY <1>4, <2>1, <3>1, <3>2
    <3>4. Service!EnableDone
      BY <1>1, <1>3, <2>1, <2>2, <3>3 DEF Service!EnableDone, Service!Working
    <3>5. QED
      BY <3>4 DEF Service!Next
  <2>3. CASE Refused("enable", req.enable) /\ code' = 503
    <3>1. Outputs' = Outputs
      BY <1>4, <2>3 DEF Refused
    <3>2. (touched /\ AtWork)' = FALSE
      BY <1>2
    <3>3. Service!Fail
      BY <1>1, <2>1, <2>3, <3>1, <3>2
         DEF Service!Fail, Service!Working, Service!EndsInPart
    <3>4. QED
      BY <3>3 DEF Service!Next
  <2>4. QED
    BY <1>6, <2>2, <2>3 DEF WriteEnable, Reply
<1>7. CASE ReadStatus
  <2>1. /\ req.op = "status" /\ hw' = hw /\ code' = 200
    BY <1>7 DEF ReadStatus, Inv, Control, Reply
  <2>2. PICK failed \in [Channels -> SUBSET {"enable", "period", "duty"}] :
          shown' = [c \in Channels |-> Look(hw[c], failed[c])]
    BY <1>7 DEF ReadStatus
  <2>3. \A c \in Channels : Look(Output(hw[c]), failed[c]) = Look(hw[c], failed[c])
    BY DEF Look, Output
  <2>4. shown' = [c \in Channels |-> Service!Look(Outputs[c], failed[c])]
    BY <1>4, <2>2, <2>3, ServiceOperators
  <2>5. Outputs' = Outputs
    BY <1>4, <2>1
  <2>6. Service!StatusDone
    BY <1>1, <1>3, <2>1, <2>4, <2>5 DEF Service!StatusDone, Service!Working
  <2>7. QED
    BY <2>6 DEF Service!Next
<1>8. ~(Disable \/ Restore \/ Recover \/ ReadEnable \/ WritePeriod \/ WriteDuty \/ WritePolarity)
  BY DEF Inv, Control, Working, Disable, Restore, Recover, ReadEnable, WritePeriod, WriteDuty,
         WritePolarity
<1>9. QED
  BY <1>5, <1>6, <1>7, <1>8 DEF Proceeds

\* A request is answered, or the server is killed.
LEMMA ServiceForgets ==
  ASSUME Inv, ServiceInv, Finish \/ Crash
  PROVE  Service!Next
<1>1. /\ hw' = hw /\ pc' = "idle" /\ req' = NoRequest /\ code' = 0 /\ shown' = Nothing
  BY DEF Finish, Crash, Forget
<1>2. ~AtWork'
  BY <1>1 DEF AtWork
<1>3. Outputs' = [c \in Channels |-> Output(hw[c])]
  BY <1>1, <1>2 DEF Outputs
<1>4. (touched /\ AtWork)' = FALSE
  BY <1>2
<1>5. Service!Forget
  BY <1>1, <1>4 DEF Service!Forget
<1>6. CASE Finish
  <2>1. pc = "reply" /\ ~AtWork /\ code # 0
    BY <1>6 DEF Finish, AtWork, ServiceInv, CodeInv
  <2>2. Outputs' = Outputs
    BY <1>3, <2>1, OutputsWhere
  <2>3. QED
    BY <1>5, <2>1, <2>2 DEF Service!Leave, Service!Next
<1>7. CASE Crash
  <2>1. pc \notin {"idle", "reply"}
    BY <1>7 DEF Crash
  <2>2. Service!Working
    <3>1. req.op \in {"config", "enable", "status"}
      BY <2>1 DEF Inv, TypeOK, PCs, Control, Working
    <3>2. QED
      BY <2>1, <3>1 DEF ServiceInv, CodeInv, NoRequest, Service!Working
  <2>3. Service!EndsInPart
    <3>1. CASE req.op # "config"
      <4>1. Outputs' = Outputs
        BY <1>3, <3>1, OutputsWhere DEF AtWork
      <4>2. QED
        BY <3>1, <4>1 DEF Service!EndsInPart
    <3>2. CASE req.op = "config"
      <4> DEFINE e == hw[target].enable
      <4>1. AtWork /\ target = req.channel /\ target \in Channels
        BY <2>1, <3>2 DEF AtWork, ServiceInv, TargetInv, Inv, TypeOK
      <4>2. Outputs = [c \in Channels |-> IF c = target THEN Output(before) ELSE Output(hw[c])]
        BY <4>1, OutputsWhere
      <4>3. Outputs' = [Outputs EXCEPT ![target] = Output(hw[target])]
        BY <1>3, <4>1, <4>2
      <4>4. PICK n \in 0 .. 3 : Output(hw[target]) = Outcome(before, req, n, e)
        BY <2>1, <3>2, ConfigReached DEF Here
      <4>5. e \in {0, 1} /\ (~touched => e \in {0, before.enable})
        BY <2>1, <3>2, ConfigReached DEF Here
      <4>6. Service!Here = Output(before) /\ Outputs[req.channel] = Output(before)
        BY <4>1, <4>2 DEF Service!Here
      <4>7. Output(before).enable = before.enable
        BY DEF Output
      <4> HIDE DEF e
      <4>8. e \in (IF touched /\ AtWork THEN {0, 1} ELSE {0, Service!Here.enable})
        BY <4>1, <4>5, <4>6, <4>7
      <4>9. Service!ConfigEnds(n, e)
        BY <4>1, <4>3, <4>4, <4>6, <4>8 DEF Service!ConfigEnds, Outcome
      <4>10. QED
        BY <3>2, <4>5, <4>9 DEF Service!EndsInPart
    <3>3. QED
      BY <3>1, <3>2
  <2>4. QED
    BY <1>5, <2>2, <2>3 DEF Service!Crash, Service!Next
<1>8. QED
  BY <1>6, <1>7

LEMMA ServiceDisturbed ==
  ASSUME Inv, ServiceInv, NEW c \in Channels, NEW enable \in {0, 1}, OtherProcess(c, enable)
  PROVE  Service!Next
<1>1. UNCHANGED <<pc, req, target, shown, code, before>>
  BY DEF OtherProcess, server
<1>2. AtWork' <=> AtWork
  BY <1>1 DEF AtWork
<1>3. Outputs' = [d \in Channels |-> Output(IF AtWork /\ d = target THEN before ELSE hw'[d])]
  BY <1>1, <1>2 DEF Outputs
<1>4. \A d \in Channels : d # c => Output(hw'[d]) = Output(hw[d])
  BY SwitchOnly DEF Inv, Output
<1>5. CASE AtWork /\ target = c
  <2>1. Outputs' = Outputs
    BY <1>3, <1>4, <1>5 DEF Outputs
  <2>2. (touched /\ AtWork)' = TRUE
    BY <1>2, <1>5 DEF OtherProcess, AtWork
  <2>3. Service!Working /\ req.op = "config" /\ req.channel = c
    BY <1>5 DEF AtWork, ServiceInv, TargetInv, CodeInv, Service!Working, NoRequest
  <2>4. Service!OtherProcess(c, enable)
    BY <1>1, <2>1, <2>2, <2>3 DEF Service!OtherProcess
  <2>5. QED
    BY <2>4 DEF Service!Next
<1>6. CASE ~(AtWork /\ target = c)
  <2>1. ~(Service!Working /\ req.op = "config" /\ req.channel = c)
    <3>1. Service!Working /\ req.op = "config" => AtWork
      BY DEF Service!Working, ServiceInv, CodeInv, Inv, Control, AtWork
    <3>2. AtWork => target = req.channel
      BY DEF AtWork, ServiceInv, TargetInv
    <3>3. QED
      BY <1>6, <3>1, <3>2
  <2>2. Output(hw'[c]) = Service!Switched(Output(hw[c]), enable)
    BY SwitchOnly DEF Inv, Output, Service!Switched
  <2>3. Outputs' = [Outputs EXCEPT ![c] = Service!Switched(@, enable)]
    BY <1>3, <1>4, <1>6, <2>2 DEF Outputs
  <2>4. (touched /\ AtWork)' <=> (touched /\ AtWork)
    BY <1>2, <1>6 DEF OtherProcess, AtWork
  <2>5. Service!OtherProcess(c, enable)
    BY <1>1, <2>1, <2>3, <2>4 DEF Service!OtherProcess
  <2>6. QED
    BY <2>5 DEF Service!Next
<1>7. QED
  BY <1>5, <1>6

LEMMA ServiceStarts == Init => Service!Init
<1> SUFFICES ASSUME Init PROVE Service!Init
  OBVIOUS
<1>1. /\ hw = [c \in Channels |-> Unexported] /\ req = NoRequest /\ code = 0
      /\ shown = Nothing /\ pc = "idle" /\ ~touched
  BY DEF Init, Idle
<1>2. ~AtWork
  BY <1>1 DEF AtWork
<1>3. Outputs = [c \in Channels |-> Service!Output(Service!Unexported)]
  BY <1>1, <1>2, ServiceOperators DEF Outputs
<1>4. (touched /\ AtWork) = FALSE
  BY <1>2
<1>5. QED
  BY <1>1, <1>3, <1>4 DEF Service!Init

LEMMA ServiceNext ==
  Inv /\ ServiceInv /\ [Next]_vars /\ Reached' => [Service!Next]_Service!vars
<1> SUFFICES ASSUME Inv, ServiceInv, [Next]_vars, Reached' PROVE [Service!Next]_Service!vars
  OBVIOUS
<1>1. CASE Proceeds
  BY <1>1, ConfigProceeds, OtherProceeds
<1>2. ASSUME NEW c \in Channels, NodeAppears(c) PROVE [Service!Next]_Service!vars
  <2>1. SameOutput /\ UNCHANGED <<pc, req, target, shown, code, before, touched>>
    BY <1>2, NodeSet DEF NodeAppears, Nodes, Inv, server, request
  <2>2. \A d \in Channels : Output(hw'[d]) = Output(hw[d])
    BY <2>1 DEF SameOutput, Output
  <2>3. Outputs' = Outputs
    BY <2>1, <2>2 DEF Outputs, AtWork
  <2>4. (touched /\ AtWork)' <=> (touched /\ AtWork)
    BY <2>1 DEF AtWork
  <2>5. QED
    BY <2>1, <2>3, <2>4 DEF Service!vars
<1>3. CASE UNCHANGED vars
  <2>1. UNCHANGED <<hw, pc, req, target, shown, code, before, touched>>
    BY <1>3 DEF vars, server, request
  <2>2. Outputs' = Outputs
    BY <2>1 DEF Outputs, AtWork
  <2>3. (touched /\ AtWork)' <=> (touched /\ AtWork)
    BY <2>1 DEF AtWork
  <2>4. QED
    BY <2>1, <2>2, <2>3 DEF Service!vars
<1>4. QED
  BY <1>1, <1>2, <1>3, ServiceTakes, ServiceForgets, ServiceDisturbed DEF Next, Proceeds

\* The handlers of the PWM API, one sysfs write at a time, any of them refused or
\* failing, with other processes at the switches and crashes in between, do what
\* PwmService promises: for other clients a config happens when it ends, as a whole
\* or as far as one of its writes.
THEOREM HandlersImplementService == Spec => ImplementsService
<1>1. Init => Inv /\ ServiceInv
  BY InvInit, ServiceInit
<1>2. Inv /\ ServiceInv /\ [Next]_vars => (Inv /\ ServiceInv)'
  BY InvNext, ServiceInvNext
<1>3. Spec => [](Inv /\ ServiceInv)
  BY <1>1, <1>2, PTL DEF Spec
<1>4. Spec => []Reached
  BY <1>3, ReachedAlways, PTL
<1>5. QED
  BY <1>3, <1>4, ServiceStarts, ServiceNext, PTL DEF Spec, ImplementsService, Service!Spec

=============================================================================
