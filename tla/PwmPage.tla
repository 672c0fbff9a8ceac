------------------------------- MODULE PwmPage -------------------------------
(***************************************************************************)
(* The PWM page of app.js in one browser, for one channel: inputs that the *)
(* user types into while polls overwrite them, the requests under way, and *)
(* the timer that polls. Another browser configures the same channel.      *)
(*                                                                         *)
(* The server is what PwmService promises: a config that succeeds is on    *)
(* the channel with the output as it was, one that fails is there in part. *)
(* A field holds a number of its range, or 0 for anything else. Requests   *)
(* to the server and their replies are in no order.                        *)
(***************************************************************************)
EXTENDS Integers, Sequences, SequencesExt

CONSTANTS
  Fields,     \* the inputs of the form, some of "frequency", "duty", "polarity"
  MaxValue,   \* values are 1 .. MaxValue, the value in index.html is 1
  MaxClicks,  \* bound on what the user does to the form
  MaxOthers,  \* bound on what the other browser does
  MaxFaults,  \* bound on the requests that fail
  MaxLoads    \* bound on the GETs that opening and polling let pile up

ASSUME FieldsAssumption ==
  Fields \subseteq {"frequency", "duty", "polarity"}
ASSUME BoundsAssumption ==
  /\ MaxValue \in Nat \ {0}
  /\ {MaxClicks, MaxOthers, MaxFaults, MaxLoads} \subseteq Nat

VARIABLES
  config, enabled,  \* the channel, as the server would report it
  page,             \* currentPage
  interval,         \* whether pwmPollInterval holds a timer
  timers,           \* how many timers run
  input, dirty,     \* the inputs and pwmInputDirty
  button,           \* dataset.enable
  posts,            \* POSTs under way, and their replies
  asked, replies,   \* GETs under way: not yet served, and served
  clicks, others, faults,  \* counted against the bounds
  (* history *)
  typed             \* fields typed into, not applied since, or posted before that

server   == <<config, enabled>>
form     == <<input, dirty, button>>
timer    == <<page, interval, timers>>
requests == <<posts, asked, replies>>
bounded  == <<clicks, others, faults>>
vars     == <<server, form, timer, requests, bounded, typed>>

Values   == 1 .. MaxValue
Texts    == 0 .. MaxValue
\* A channel has a polarity even before it has a period and a duty cycle.
Contents(f) == IF f = "polarity" THEN Values ELSE Texts
Contained   == {c \in [Fields -> Texts] : \A f \in Fields : c[f] \in Contents(f)}

Posts == [op : {"config"}, fields : Contained, state : {"sent", "ok", "failed"}]
   \cup  [op : {"enable"}, target : BOOLEAN, state : {"sent", "ok", "failed"}]
Loads == [config : Contained, enabled : BOOLEAN]

\* The channel is as a boot leaves it.
Init ==
  /\ config = [f \in Fields |-> IF f = "polarity" THEN 1 ELSE 0] /\ enabled = FALSE
  /\ page = "other" /\ interval = FALSE /\ timers = 0
  /\ input = [f \in Fields |-> 1]
  /\ dirty = [f \in Fields |-> FALSE]
  /\ button = FALSE
  /\ posts = <<>> /\ asked = 0 /\ replies = <<>>
  /\ clicks = 0 /\ others = 0 /\ faults = 0
  /\ typed = {}

Click == clicks < MaxClicks /\ clicks' = clicks + 1 /\ UNCHANGED <<others, faults>>
Fault == faults < MaxFaults /\ faults' = faults + 1 /\ UNCHANGED <<clicks, others>>

-----------------------------------------------------------------------------
(* The page and its timer. *)

\* updatePwmPollingState
OpenPageTwice ==
  /\ asked + Len(replies) < MaxLoads
  /\ page' = "pwm"
  /\ interval' = TRUE
  /\ timers' = timers + 1
  /\ asked' = asked + 1
  /\ UNCHANGED <<server, form, posts, replies, bounded, typed>>
OpenPage ==
  /\ asked + Len(replies) < MaxLoads
  /\ page' = "pwm"
  /\ interval' = TRUE
  /\ timers' = IF interval THEN timers ELSE timers + 1
  /\ asked' = asked + 1
  /\ UNCHANGED <<server, form, posts, replies, bounded, typed>>

LeavePageForgetting ==
  /\ page' = "other"
  /\ timers' = IF interval THEN timers - 1 ELSE timers
  /\ UNCHANGED <<server, form, requests, interval, bounded, typed>>
LeavePage ==
  /\ page' = "other"
  /\ interval' = FALSE
  /\ timers' = IF interval THEN timers - 1 ELSE timers
  /\ UNCHANGED <<server, form, requests, bounded, typed>>

\* Two seconds have passed.
Poll ==
  /\ timers > 0 /\ page = "pwm"
  /\ asked + Len(replies) < MaxLoads
  /\ asked' = asked + 1
  /\ UNCHANGED <<server, form, timer, posts, replies, bounded, typed>>

-----------------------------------------------------------------------------
(* The user, while the page shows. *)

Type(f, v) ==
  /\ page = "pwm" /\ Click
  /\ v # input[f]
  /\ input' = [input EXCEPT ![f] = v]
  /\ dirty' = [dirty EXCEPT ![f] = TRUE]
  /\ typed' = typed \cup {f}
  /\ UNCHANGED <<server, timer, requests, button>>

\* applyPwmConfig up to its await.
ApplyEarly ==
  /\ page = "pwm" /\ Click
  /\ \A f \in Fields : input[f] # 0
  /\ posts' = Append(posts, [op |-> "config", fields |-> input, state |-> "sent"])
  /\ dirty' = [f \in Fields |-> FALSE]
  /\ UNCHANGED <<server, input, button, timer, asked, replies, typed>>
Apply ==
  /\ page = "pwm" /\ Click
  /\ \A f \in Fields : input[f] # 0
  /\ posts' = Append(posts, [op |-> "config", fields |-> input, state |-> "sent"])
  /\ UNCHANGED <<server, form, timer, asked, replies, typed>>

\* The click handler of the enable button, and togglePwmEnable up to its await.
Toggle ==
  /\ page = "pwm" /\ Click
  /\ posts' = Append(posts, [op |-> "enable", target |-> ~button, state |-> "sent"])
  /\ UNCHANGED <<server, form, timer, asked, replies, typed>>

-----------------------------------------------------------------------------
(* The server, one request at a time. *)

Done(i, state) == posts' = [posts EXCEPT ![i].state = state]

Serve(i) ==
  /\ posts[i].state = "sent"
  /\ IF posts[i].op = "config"
       THEN config' = posts[i].fields /\ UNCHANGED enabled
       ELSE enabled' = posts[i].target /\ UNCHANGED config
  /\ Done(i, "ok")
  /\ UNCHANGED <<form, timer, asked, replies, bounded, typed>>

\* An error of the server, with part of the config applied and the output
\* perhaps left off, or of the network, before or after the server had it.
ServeFails(i) ==
  /\ posts[i].state = "sent"
  /\ Fault
  /\ IF posts[i].op = "config"
       THEN /\ \E some \in SUBSET Fields :
                 config' = [f \in Fields |->
                   IF f \in some THEN posts[i].fields[f] ELSE config[f]]
            /\ enabled' \in {enabled, FALSE}
       ELSE enabled' \in {enabled, posts[i].target} /\ UNCHANGED config
  /\ Done(i, "failed")
  /\ UNCHANGED <<form, timer, asked, replies, typed>>

ServeLoad ==
  /\ asked > 0
  /\ asked' = asked - 1
  /\ replies' = Append(replies, [config |-> config, enabled |-> enabled])
  /\ UNCHANGED <<server, form, timer, posts, bounded, typed>>

\* The request or its reply is lost: the page only says so.
LoadFails ==
  /\ asked > 0
  /\ Fault
  /\ asked' = asked - 1
  /\ UNCHANGED <<server, form, timer, posts, replies, typed>>

Other(c, e) ==
  /\ others < MaxOthers
  /\ others' = others + 1
  /\ \A f \in Fields : c[f] # 0
  /\ config' = c /\ enabled' = e
  /\ UNCHANGED <<form, timer, requests, clicks, faults, typed>>

-----------------------------------------------------------------------------
(* Replies reach the page, wherever the user is by now. *)

\* The rest of applyPwmConfig: whatever was typed during the await loses its flag.
ApplyDoneForgetting(i) ==
  /\ posts[i].op = "config" /\ posts[i].state = "ok"
  /\ posts' = RemoveAt(posts, i)
  /\ asked' = asked + 1
  /\ typed' = {}
  /\ UNCHANGED <<server, form, timer, replies, bounded>>
ApplyDone(i) ==
  /\ posts[i].op = "config" /\ posts[i].state = "ok"
  /\ posts' = RemoveAt(posts, i)
  /\ dirty' = [f \in Fields |-> FALSE]
  /\ asked' = asked + 1
  /\ typed' = {}
  /\ UNCHANGED <<server, input, button, timer, replies, bounded>>

\* The rest of togglePwmEnable.
ToggleDone(i) ==
  /\ posts[i].op = "enable" /\ posts[i].state = "ok"
  /\ posts' = RemoveAt(posts, i)
  /\ asked' = asked + 1
  /\ UNCHANGED <<server, form, timer, replies, bounded, typed>>

PostFailed(i) ==
  /\ posts[i].state = "failed"
  /\ posts' = RemoveAt(posts, i)
  /\ UNCHANGED <<server, form, timer, asked, replies, bounded, typed>>

\* renderPwmChannel: a dirty input is left alone, and so is one for which the
\* server has no proper value.
Render(reply) ==
  /\ input' = [f \in Fields |->
       IF dirty[f] \/ reply.config[f] = 0 THEN input[f] ELSE reply.config[f]]
  /\ button' = reply.enabled
  /\ UNCHANGED dirty

LoadDone(i) ==
  /\ Render(replies[i])
  /\ replies' = RemoveAt(replies, i)
  /\ UNCHANGED <<server, timer, posts, asked, bounded, typed>>

User ==
  \/ OpenPage \/ LeavePage
  \/ \E f \in Fields : \E v \in Contents(f) : Type(f, v)
  \/ Apply \/ Toggle

Server ==
  \/ \E i \in 1 .. Len(posts) : Serve(i) \/ ServeFails(i)
  \/ ServeLoad \/ LoadFails

Page ==
  \/ Poll
  \/ \E i \in 1 .. Len(posts) : ApplyDone(i) \/ ToggleDone(i) \/ PostFailed(i)
  \/ \E i \in 1 .. Len(replies) : LoadDone(i)

Next ==
  \/ User \/ Server \/ Page
  \/ \E c \in Contained, e \in BOOLEAN : Other(c, e)

Spec == Init /\ [][Next]_vars

\* The timer fires, every request is answered and every reply is taken up, the
\* oldest of those there are.
Fairness ==
  /\ WF_vars(Poll)
  /\ WF_vars(ServeLoad)
  /\ WF_vars(Len(posts) > 0 /\ Serve(1))
  /\ WF_vars(Len(posts) > 0 /\ (ApplyDone(1) \/ ToggleDone(1) \/ PostFailed(1)))
  /\ WF_vars(Len(replies) > 0 /\ LoadDone(1))

FairSpec == Spec /\ Fairness

-----------------------------------------------------------------------------
TypeOK ==
  /\ config \in Contained /\ enabled \in BOOLEAN
  /\ page \in {"pwm", "other"}
  /\ interval \in BOOLEAN /\ timers \in Nat
  /\ input \in Contained /\ dirty \in [Fields -> BOOLEAN] /\ button \in BOOLEAN
  /\ \A i \in 1 .. Len(posts) : posts[i] \in Posts
  /\ asked \in Nat
  /\ \A i \in 1 .. Len(replies) : replies[i] \in Loads
  /\ clicks \in 0 .. MaxClicks /\ others \in 0 .. MaxOthers /\ faults \in 0 .. MaxFaults
  /\ typed \subseteq Fields

\* However often the page is opened and left, one timer polls while it shows and
\* none while it does not.
OneTimer == timers = IF page = "pwm" THEN 1 ELSE 0

\* What the user has typed stays in its input, through polls, replies that come
\* late and configs that fail, until he types again or a config of his is
\* reported to be applied.
TypedIsKept ==
  [][\A f \in typed : input'[f] # input[f] => f \in typed' /\ clicks' # clicks]_vars

\* If the user stays on the page and leaves it alone, and so does the other
\* browser, then the page ends with what the server has, in every input that is
\* not waiting to be applied and on the button.
PageConverges ==
  <>[](page = "pwm") =>
    <>[](/\ button = enabled
         /\ \A f \in Fields \ typed : config[f] \in {0, input[f]})

=============================================================================
