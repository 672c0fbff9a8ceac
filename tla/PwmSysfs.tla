------------------------------ MODULE PwmSysfs ------------------------------
(***************************************************************************)
(* The files of one PWM channel under /sys/class/pwm/pwmchip0, and the     *)
(* arithmetic of pwm.c between what the API speaks of (hertz, percent) and *)
(* what the files hold (nanoseconds). The kernel is not part of the        *)
(* repository: what it accepts is modelled from docs/rpi5/pwm.md and from  *)
(* what pwm.c guards against.                                              *)
(***************************************************************************)
EXTENDS CInt

CONSTANTS NsPerSec,       \* 1000000000
          MinFrequency,   \* PWM_MIN_FREQUENCY_HZ
          MaxFrequency    \* PWM_MAX_FREQUENCY_HZ

ASSUME FrequencyAssumption ==
  /\ NsPerSec \in Nat /\ MinFrequency \in Nat \ {0} /\ MaxFrequency \in Nat
  /\ MinFrequency <= MaxFrequency /\ 100 * MaxFrequency <= NsPerSec

Polarities == {"normal", "inversed"}
Percents   == 1 .. 99

ValidFrequency(f) == f >= MinFrequency /\ f <= MaxFrequency

\* pwm_apply_config
PeriodNs(f)             == NsPerSec \div f
DutyNs(period, percent) == (period * percent) \div 100

\* period_to_frequency_hz and duty_to_percent
ShownFrequency(period) == IF period <= 0 THEN 0 ELSE NsPerSec \div period
ShownDutyTruncating(duty, period) ==
  IF period <= 0 THEN 0 ELSE (duty \div period) * 100
ShownDuty(duty, period) ==
  IF period <= 0 \/ duty <= 0 THEN 0
  ELSE IF duty >= period THEN 100
  ELSE (duty * 100) \div period

\* A channel. Its directory is absent until it is exported, and may take a
\* while to appear after that.
Nodes   == {"absent", "pending", "present"}
Channel == [node : Nodes, enable : {0, 1}, period : Nat, duty : Nat,
            polarity : Polarities]
Unexported == [node |-> "absent", enable |-> 0, period |-> 0, duty |-> 0,
               polarity |-> "normal"]

\* What a channel puts out.
Output(ch) == [enable |-> ch.enable, period |-> ch.period, duty |-> ch.duty,
               polarity |-> ch.polarity]

\* How pwm_get_channels_status shows a channel; a file that cannot be read shows
\* as 0.
Look(ch, failed) ==
  LET period == IF "period" \in failed THEN 0 ELSE ch.period
      duty   == IF "duty" \in failed THEN 0 ELSE ch.duty
  IN  [frequency |-> ShownFrequency(period),
       duty      |-> ShownDuty(duty, period),
       enabled   |-> IF "enable" \in failed THEN 0 ELSE ch.enable]

\* The kernel accepts a write that leaves the channel in a state it can drive:
\* a period, and a duty cycle no longer than that.
Drivable(ch) == ch.period # 0 /\ ch.duty <= ch.period

=============================================================================
