--------------------------- MODULE PwmPage_proofs ---------------------------
(***************************************************************************)
(* Proofs about PwmPage for every set of fields and every bound on what    *)
(* the user, the other browser and the network do.                         *)
(***************************************************************************)
EXTENDS PwmPage, SequenceTheorems, TLAPS

LEMMA RemoveAtType ==
  ASSUME NEW S, NEW s \in Seq(S), NEW i \in 1 .. Len(s)
  PROVE  RemoveAt(s, i) \in Seq(S)
<1>1. SubSeq(s, 1, i - 1) \in Seq(S) /\ SubSeq(s, i + 1, Len(s)) \in Seq(S)
  <2>1. \A j \in 1 .. Len(s) : s[j] \in S
    OBVIOUS
  <2>2. QED
    BY <2>1, SubSeqProperties
<1>2. QED
  BY <1>1 DEF RemoveAt

\* A post that is served is still a post.
LEMMA PostServed ==
  ASSUME NEW q \in Seq(Posts), NEW i \in 1 .. Len(q), NEW s \in {"sent", "ok", "failed"}
  PROVE  [q EXCEPT ![i].state = s] \in Seq(Posts)
<1>1. q[i] \in Posts
  OBVIOUS
<1>2. [q[i] EXCEPT !.state = s] \in Posts
  <2>1. CASE q[i] \in [op : {"config"}, fields : Contained, state : {"sent", "ok", "failed"}]
    BY <2>1 DEF Posts
  <2>2. CASE q[i] \in [op : {"enable"}, target : BOOLEAN, state : {"sent", "ok", "failed"}]
    BY <2>2 DEF Posts
  <2>3. QED
    BY <1>1, <2>1, <2>2 DEF Posts
<1>3. QED
  BY <1>2, ExceptSeq

-----------------------------------------------------------------------------
(* The inductive invariant. *)

SeqInv == posts \in Seq(Posts) /\ replies \in Seq(Loads)

\* The variable of the timer says whether the page shows.
TimerInv ==
  /\ interval <=> page = "pwm"
  /\ timers = IF page = "pwm" THEN 1 ELSE 0

\* What is typed and not applied has its dirty flag.
TypedInv == \A f \in typed : dirty[f]

Inv == TypeOK /\ SeqInv /\ TimerInv /\ TypedInv

LEMMA InvInit == Init => Inv
<1> SUFFICES ASSUME Init PROVE Inv
  OBVIOUS
<1> USE DEF Init
<1>1. SeqInv /\ TypedInv
  BY DEF SeqInv, TypedInv
<1>2. TimerInv
  BY DEF TimerInv
<1>3. config \in Contained /\ input \in Contained
  BY BoundsAssumption DEF Contained, Contents, Values, Texts
<1>4. TypeOK
  <2>1. 0 \in 0 .. MaxClicks /\ 0 \in 0 .. MaxOthers /\ 0 \in 0 .. MaxFaults
    BY BoundsAssumption
  <2>2. /\ \A i \in 1 .. Len(posts) : posts[i] \in Posts
        /\ \A i \in 1 .. Len(replies) : replies[i] \in Loads
    OBVIOUS
  <2>3. /\ enabled \in BOOLEAN /\ interval \in BOOLEAN /\ button \in BOOLEAN
        /\ dirty \in [Fields -> BOOLEAN]
    OBVIOUS
  <2>4. /\ page \in {"pwm", "other"} /\ timers \in Nat /\ asked \in Nat
        /\ typed \subseteq Fields
    OBVIOUS
  <2>5. /\ clicks \in 0 .. MaxClicks /\ others \in 0 .. MaxOthers
        /\ faults \in 0 .. MaxFaults
    BY <2>1
  <2>6. QED
    BY <1>3, <2>2, <2>3, <2>4, <2>5 DEF TypeOK
<1>5. QED
  BY <1>1, <1>2, <1>4 DEF Inv

LEMMA ClickType ==
  ASSUME TypeOK, Click
  PROVE  clicks' \in 0 .. MaxClicks /\ clicks' # clicks /\ UNCHANGED <<others, faults>>
BY BoundsAssumption DEF TypeOK, Click

LEMMA FaultType ==
  ASSUME TypeOK, Fault
  PROVE  faults' \in 0 .. MaxFaults /\ UNCHANGED <<clicks, others>>
BY BoundsAssumption DEF TypeOK, Fault

LEMMA SeqElements ==
  ASSUME SeqInv'
  PROVE  /\ \A i \in 1 .. Len(posts') : posts'[i] \in Posts
         /\ \A i \in 1 .. Len(replies') : replies'[i] \in Loads
BY DEF SeqInv

LEMMA InvNext == Inv /\ [Next]_vars => Inv'
<1> SUFFICES ASSUME Inv, [Next]_vars PROVE Inv'
  OBVIOUS
<1> USE DEF Inv
<1>1. CASE OpenPage
  <2>1. /\ UNCHANGED <<server, form, posts, replies, bounded, typed>>
        /\ asked' \in Nat /\ page' = "pwm" /\ interval' = TRUE
    BY <1>1 DEF OpenPage, TypeOK
  <2>2. timers' = 1
    BY <1>1 DEF OpenPage, TimerInv
  <2>3. QED
    BY <2>1, <2>2 DEF server, form, bounded, TypeOK, SeqInv, TimerInv, TypedInv
<1>2. CASE LeavePage
  <2>1. /\ UNCHANGED <<server, form, requests, bounded, typed>>
        /\ page' = "other" /\ interval' = FALSE
    BY <1>2 DEF LeavePage
  <2>2. timers' = 0
    BY <1>2 DEF LeavePage, TimerInv
  <2>3. QED
    BY <2>1, <2>2 DEF server, form, requests, bounded, TypeOK, SeqInv, TimerInv, TypedInv
<1>3. CASE Poll
  <2>1. UNCHANGED <<server, form, timer, posts, replies, bounded, typed>> /\ asked' \in Nat
    BY <1>3 DEF Poll, TypeOK
  <2>2. QED
    BY <2>1 DEF server, form, timer, bounded, TypeOK, SeqInv, TimerInv, TypedInv
<1>4. ASSUME NEW f \in Fields, NEW v \in Contents(f), Type(f, v) PROVE Inv'
  <2>1. UNCHANGED <<server, timer, requests, button>>
        /\ input' = [input EXCEPT ![f] = v] /\ dirty' = [dirty EXCEPT ![f] = TRUE]
        /\ typed' = typed \cup {f}
    BY <1>4 DEF Type
  <2>2. clicks' \in 0 .. MaxClicks /\ UNCHANGED <<others, faults>>
    BY <1>4, ClickType DEF Type
  <2>3. input' \in Contained
    BY <2>1 DEF TypeOK, Contained, Contents, Values, Texts
  <2>4. QED
    BY <2>1, <2>2, <2>3 DEF server, timer, requests, TypeOK, SeqInv, TimerInv, TypedInv
<1>5. CASE Apply
  <2>1. UNCHANGED <<server, form, timer, asked, replies, typed>>
        /\ posts' = Append(posts, [op |-> "config", fields |-> input, state |-> "sent"])
    BY <1>5 DEF Apply
  <2>2. clicks' \in 0 .. MaxClicks /\ UNCHANGED <<others, faults>>
    BY <1>5, ClickType DEF Apply
  <2>3. SeqInv'
    BY <2>1 DEF SeqInv, TypeOK, Posts
  <2>4. QED
    BY <2>1, <2>2, <2>3, SeqElements DEF server, form, timer, TypeOK, TimerInv, TypedInv
<1>6. CASE Toggle
  <2>1. UNCHANGED <<server, form, timer, asked, replies, typed>>
        /\ posts' = Append(posts, [op |-> "enable", target |-> ~button, state |-> "sent"])
    BY <1>6 DEF Toggle
  <2>2. clicks' \in 0 .. MaxClicks /\ UNCHANGED <<others, faults>>
    BY <1>6, ClickType DEF Toggle
  <2>3. SeqInv'
    BY <2>1 DEF SeqInv, TypeOK, Posts
  <2>4. QED
    BY <2>1, <2>2, <2>3, SeqElements DEF server, form, timer, TypeOK, TimerInv, TypedInv
<1>7. ASSUME NEW i \in 1 .. Len(posts), Serve(i) PROVE Inv'
  <2>1. UNCHANGED <<form, timer, asked, replies, bounded, typed>>
        /\ posts' = [posts EXCEPT ![i].state = "ok"] /\ posts[i] \in Posts
    BY <1>7 DEF Serve, Done, SeqInv
  <2>2. SeqInv'
    BY <2>1, PostServed DEF SeqInv
  <2>3. config' \in Contained /\ enabled' \in BOOLEAN
    BY <1>7, <2>1 DEF Serve, Posts, TypeOK
  <2>4. QED
    BY <2>1, <2>2, <2>3, SeqElements DEF form, timer, bounded, TypeOK, TimerInv, TypedInv
<1>8. ASSUME NEW i \in 1 .. Len(posts), ServeFails(i) PROVE Inv'
  <2>1. UNCHANGED <<form, timer, asked, replies, typed>>
        /\ posts' = [posts EXCEPT ![i].state = "failed"] /\ posts[i] \in Posts
    BY <1>8 DEF ServeFails, Done, SeqInv
  <2>2. faults' \in 0 .. MaxFaults /\ UNCHANGED <<clicks, others>>
    BY <1>8, FaultType DEF ServeFails
  <2>3. SeqInv'
    BY <2>1, PostServed DEF SeqInv
  <2>4. config' \in Contained /\ enabled' \in BOOLEAN
    <3>1. CASE posts[i].op = "config"
      <4>1. posts[i].fields \in Contained
        BY <2>1, <3>1 DEF Posts
      <4>2. PICK some \in SUBSET Fields :
              config' = [f \in Fields |-> IF f \in some THEN posts[i].fields[f] ELSE config[f]]
        BY <1>8, <3>1 DEF ServeFails
      <4>3. config' \in Contained
        BY <4>1, <4>2 DEF Contained, TypeOK
      <4>4. QED
        BY <1>8, <3>1, <4>3 DEF ServeFails, TypeOK
    <3>2. CASE posts[i].op # "config"
      <4>1. posts[i].target \in BOOLEAN
        BY <2>1, <3>2 DEF Posts
      <4>2. QED
        BY <1>8, <3>2, <4>1 DEF ServeFails, TypeOK
    <3>3. QED
      BY <3>1, <3>2
  <2>5. QED
    BY <2>1, <2>2, <2>3, <2>4, SeqElements DEF form, timer, TypeOK, TimerInv, TypedInv
<1>9. CASE ServeLoad
  <2>1. UNCHANGED <<server, form, timer, posts, bounded, typed>> /\ asked' \in Nat
        /\ replies' = Append(replies, [config |-> config, enabled |-> enabled])
    BY <1>9 DEF ServeLoad, TypeOK
  <2>2. SeqInv'
    BY <2>1 DEF SeqInv, TypeOK, Loads
  <2>3. QED
    BY <2>1, <2>2, SeqElements DEF server, form, timer, bounded, TypeOK, TimerInv, TypedInv
<1>10. CASE LoadFails
  <2>1. UNCHANGED <<server, form, timer, posts, replies, typed>> /\ asked' \in Nat
    BY <1>10 DEF LoadFails, TypeOK
  <2>2. faults' \in 0 .. MaxFaults /\ UNCHANGED <<clicks, others>>
    BY <1>10, FaultType DEF LoadFails
  <2>3. QED
    BY <2>1, <2>2 DEF server, form, timer, TypeOK, SeqInv, TimerInv, TypedInv
<1>11. ASSUME NEW c \in Contained, NEW e \in BOOLEAN, Other(c, e) PROVE Inv'
  <2>1. UNCHANGED <<form, timer, requests, clicks, faults, typed>>
        /\ config' \in Contained /\ enabled' \in BOOLEAN /\ others' \in 0 .. MaxOthers
    BY <1>11, BoundsAssumption DEF Other, TypeOK
  <2>2. QED
    BY <2>1 DEF form, timer, requests, TypeOK, SeqInv, TimerInv, TypedInv
<1>12. ASSUME NEW i \in 1 .. Len(posts), ApplyDone(i) PROVE Inv'
  <2>1. UNCHANGED <<server, input, button, timer, replies, bounded>>
        /\ posts' = RemoveAt(posts, i) /\ dirty' = [f \in Fields |-> FALSE]
        /\ asked' \in Nat /\ typed' = {}
    BY <1>12 DEF ApplyDone, TypeOK
  <2>2. SeqInv'
    BY <2>1, RemoveAtType DEF SeqInv
  <2>3. QED
    BY <2>1, <2>2, SeqElements DEF server, timer, bounded, TypeOK, TimerInv, TypedInv
<1>13. ASSUME NEW i \in 1 .. Len(posts), ToggleDone(i) \/ PostFailed(i) PROVE Inv'
  <2>1. UNCHANGED <<server, form, timer, replies, bounded, typed>>
        /\ posts' = RemoveAt(posts, i) /\ asked' \in Nat
    BY <1>13 DEF ToggleDone, PostFailed, TypeOK
  <2>2. SeqInv'
    BY <2>1, RemoveAtType DEF SeqInv
  <2>3. QED
    BY <2>1, <2>2, SeqElements DEF server, form, timer, bounded, TypeOK, TimerInv, TypedInv
<1>14. ASSUME NEW i \in 1 .. Len(replies), LoadDone(i) PROVE Inv'
  <2>1. UNCHANGED <<server, timer, posts, asked, bounded, typed, dirty>>
        /\ replies' = RemoveAt(replies, i) /\ replies[i] \in Loads
        /\ button' = replies[i].enabled
        /\ input' = [f \in Fields |->
             IF dirty[f] \/ replies[i].config[f] = 0 THEN input[f] ELSE replies[i].config[f]]
    BY <1>14 DEF LoadDone, Render, SeqInv
  <2>2. SeqInv'
    BY <2>1, RemoveAtType DEF SeqInv
  <2>3. replies[i].config \in Contained /\ button' \in BOOLEAN
    BY <2>1 DEF Loads
  <2>4. input' \in Contained
    BY <2>1, <2>3 DEF Contained, TypeOK
  <2>5. QED
    BY <2>1, <2>2, <2>3, <2>4, SeqElements
       DEF server, timer, bounded, TypeOK, TimerInv, TypedInv
<1>15. CASE UNCHANGED vars
  BY <1>15 DEF vars, server, form, timer, requests, bounded, TypeOK, SeqInv, TimerInv, TypedInv
<1>16. QED
  BY <1>1, <1>2, <1>3, <1>4, <1>5, <1>6, <1>7, <1>8, <1>9, <1>10, <1>11, <1>12, <1>13,
     <1>14, <1>15 DEF Next, User, Server, Page

LEMMA InvAlways == Spec => []Inv
  BY InvInit, InvNext, PTL DEF Spec

-----------------------------------------------------------------------------
(* What the page promises its user. *)

\* Inputs and replies hold what a form and a channel can hold.
THEOREM TypeCorrect == Spec => []TypeOK
<1>1. Inv => TypeOK
  BY DEF Inv
<1>2. QED
  BY <1>1, InvAlways, PTL

\* updatePwmPollingState keeps one timer while the page shows and none otherwise,
\* however often the page is opened and left.
THEOREM TimerIsSingle == Spec => []OneTimer
<1>1. Inv => OneTimer
  BY DEF Inv, TimerInv, OneTimer
<1>2. QED
  BY <1>1, InvAlways, PTL

\* A step changes an input that is typed and not applied only when the user types.
LEMMA TypedStep ==
  ASSUME Inv, [Next]_vars, NEW f \in typed, input'[f] # input[f]
  PROVE  f \in typed' /\ clicks' # clicks
<1>1. ASSUME NEW g \in Fields, NEW v \in Contents(g), Type(g, v)
      PROVE  f \in typed' /\ clicks' # clicks
  BY <1>1, ClickType DEF Type, Inv
<1>2. ASSUME NEW i \in 1 .. Len(replies), LoadDone(i) PROVE FALSE
  BY <1>2 DEF LoadDone, Render, Inv, TypedInv, TypeOK
<1>3. QED
  BY <1>1, <1>2
     DEF Next, User, Server, Page, OpenPage, LeavePage, Poll, Apply, Toggle, Serve,
         ServeFails, ServeLoad, LoadFails, Other, ApplyDone, ToggleDone, PostFailed,
         form, vars

\* What the user has typed stays in its input, through the polls, replies that come
\* late and configs that fail.
THEOREM TypingSurvives == Spec => TypedIsKept
<1>1. Inv /\ [Next]_vars =>
        [\A f \in typed : input'[f] # input[f] => f \in typed' /\ clicks' # clicks]_vars
  BY TypedStep
<1>2. QED
  BY <1>1, InvAlways, PTL DEF Spec, TypedIsKept

=============================================================================
