--------------------------- MODULE GpioPage_proofs ---------------------------
(***************************************************************************)
(* Proofs about GpioPage for any number of pins and browsers and every     *)
(* bound on websockets, clicks and failures.                               *)
(*                                                                         *)
(* The page has three parts that share little: the websockets, the saves   *)
(* of the menu and of the form with the pins they set, and the form for    *)
(* pull and drive. Each part has an invariant of its own.                  *)
(***************************************************************************)
EXTENDS GpioPage, SequenceTheorems, TLAPS

LEMMA RemoveAtType ==
  ASSUME NEW S, NEW s \in Seq(S), NEW i \in 1 .. Len(s)
  PROVE  RemoveAt(s, i) \in Seq(S)
<1>1. SubSeq(s, 1, i - 1) \in Seq(S) /\ SubSeq(s, i + 1, Len(s)) \in Seq(S)
  <2>1. \A j \in 1 .. Len(s) : s[j] \in S
    OBVIOUS
  <2>2. QED
    BY <2>1, SubSeqProperties
<1>2. QED
  BY <1>1 DEF RemoveAt

\* What is removed from a sequence of one leaves none.
LEMMA RemoveOnly ==
  ASSUME NEW S, NEW s \in Seq(S), NEW i \in 1 .. Len(s), Len(s) = 1
  PROVE  RemoveAt(s, i) = <<>>
<1>1. i = 1
  OBVIOUS
<1>2. SubSeq(s, 1, 0) = <<>> /\ SubSeq(s, 2, 1) = <<>>
  OBVIOUS
<1>3. QED
  BY <1>1, <1>2 DEF RemoveAt

LEMMA ClickType ==
  ASSUME clicks \in 0 .. MaxClicks, faults \in 0 .. MaxFaults, Click \/ Fault
  PROVE  clicks' \in 0 .. MaxClicks /\ faults' \in 0 .. MaxFaults
BY BoundsAssumption DEF Click, Fault

-----------------------------------------------------------------------------
(* The websockets. *)

SocketStates == {"connecting", "open", "closing", "closed"}

LiveInv ==
  /\ page \in {"gpio", "other"}
  /\ sockets \in Seq(SocketStates)
  /\ socket \in 0 .. Len(sockets)
  /\ orphans \subseteq 1 .. Len(sockets)
  /\ SocketsAreHeld

LEMMA LiveInit == Init => LiveInv
<1> SUFFICES ASSUME Init PROVE LiveInv
  OBVIOUS
<1>1. sockets = <<>> /\ Len(sockets) = 0 /\ sockets \in Seq(SocketStates)
  BY DEF Init
<1>2. SocketsAreHeld
  BY <1>1 DEF SocketsAreHeld
<1>3. page \in {"gpio", "other"}
  BY DEF Init
<1>4. socket \in 0 .. Len(sockets) /\ orphans \subseteq 1 .. Len(sockets)
  BY <1>1 DEF Init
<1>5. QED
  BY <1>1, <1>2, <1>3, <1>4 DEF LiveInv

\* Only these steps touch the websockets and the global.
LEMMA LiveSteps ==
  ASSUME [Next]_vars
  PROVE  \/ OpenPage \/ LeavePage
         \/ \E i \in 1 .. Len(sockets) : SocketOpens(i) \/ SocketCloses(i)
         \/ UNCHANGED live
BY DEF Next, Network, Menu, Form, vars, Refresh, Choose, ServeMode, ServeValue, SaveFails,
       ShowForm, ServeFetch, FetchFails, FillForm, EditDrive, Cancel, SaveAttrs, ServePost,
       PostFails, AttrsReload, AttrsSaved, AttrsNotSaved, OtherProcess

LEMMA LiveNext == LiveInv /\ [Next]_vars => LiveInv'
<1> SUFFICES ASSUME LiveInv, [Next]_vars PROVE LiveInv'
  OBVIOUS
<1> USE DEF LiveInv
<1>1. CASE OpenPage
  <2>1. page' = "gpio" /\ UNCHANGED orphans
    BY <1>1 DEF OpenPage
  <2>2. CASE InUse(socket)
    <3>1. UNCHANGED <<sockets, socket>>
      BY <1>1, <2>2 DEF OpenPage
    <3>2. QED
      BY <2>1, <3>1 DEF SocketsAreHeld, InUse
  <2>3. CASE ~InUse(socket)
    <3>1. sockets' = Append(sockets, "connecting") /\ socket' = Len(sockets) + 1
      BY <1>1, <2>3 DEF OpenPage
    <3>2. /\ sockets' \in Seq(SocketStates) /\ Len(sockets') = Len(sockets) + 1
          /\ \A i \in 1 .. Len(sockets) : sockets'[i] = sockets[i]
      BY <3>1 DEF SocketStates
    <3>3. ASSUME NEW i \in 1 .. Len(sockets'), InUse(i)' PROVE i = socket' \/ i \in orphans'
      <4>1. CASE i = Len(sockets) + 1
        BY <3>1, <4>1
      <4>2. CASE i \in 1 .. Len(sockets)
        <5>1. InUse(i)
          BY <3>2, <3>3, <4>2 DEF InUse
        <5>2. QED
          BY <2>1, <2>3, <4>2, <5>1 DEF SocketsAreHeld
      <4>3. QED
        BY <3>2, <4>1, <4>2
    <3>4. SocketsAreHeld'
      BY <3>3 DEF SocketsAreHeld
    <3>5. QED
      BY <2>1, <3>1, <3>2, <3>4
  <2>4. QED
    BY <2>2, <2>3
<1>2. CASE LeavePage
  <2>1. page' = "other" /\ socket' = 0 /\ UNCHANGED orphans
    BY <1>2 DEF LeavePage
  <2>2. sockets' = IF InUse(socket) THEN [sockets EXCEPT ![socket] = "closing"] ELSE sockets
    BY <1>2 DEF LeavePage
  <2>3. sockets' \in Seq(SocketStates) /\ Len(sockets') = Len(sockets)
    BY <2>2 DEF SocketStates, InUse
  <2>4. ASSUME NEW i \in 1 .. Len(sockets), InUse(i)' PROVE i \in orphans
    <3>1. InUse(i) /\ i # socket
      BY <2>2, <2>4 DEF InUse
    <3>2. QED
      BY <3>1 DEF SocketsAreHeld
  <2>5. SocketsAreHeld'
    BY <2>1, <2>3, <2>4 DEF SocketsAreHeld
  <2>6. page' \in {"gpio", "other"}
    BY <2>1
  <2>7. socket' \in 0 .. Len(sockets') /\ orphans' \subseteq 1 .. Len(sockets')
    BY <2>1, <2>3
  <2>8. QED
    BY <2>3, <2>5, <2>6, <2>7
<1>3. ASSUME NEW i \in 1 .. Len(sockets), SocketOpens(i) PROVE LiveInv'
  <2>1. /\ UNCHANGED <<page, socket, orphans>> /\ sockets[i] = "connecting"
        /\ sockets' = [sockets EXCEPT ![i] = "open"]
    BY <1>3 DEF SocketOpens
  <2>2. sockets' \in Seq(SocketStates) /\ Len(sockets') = Len(sockets)
    BY <2>1 DEF SocketStates
  <2>3. \A j \in 1 .. Len(sockets) : InUse(j)' => InUse(j)
    BY <2>1 DEF InUse
  <2>4. QED
    BY <2>1, <2>2, <2>3 DEF SocketsAreHeld
<1>4. ASSUME NEW i \in 1 .. Len(sockets), SocketCloses(i) PROVE LiveInv'
  <2>1. /\ UNCHANGED page /\ socket' = 0
        /\ sockets' = [sockets EXCEPT ![i] = "closed"]
        /\ orphans' = (IF socket \in {0, i} THEN orphans ELSE orphans \cup {socket}) \ {i}
    BY <1>4 DEF SocketCloses
  <2>2. sockets' \in Seq(SocketStates) /\ Len(sockets') = Len(sockets)
    BY <2>1 DEF SocketStates
  <2>3. orphans' \subseteq 1 .. Len(sockets)
    BY <2>1
  <2>4. \A j \in 1 .. Len(sockets) : InUse(j)' => InUse(j) /\ j # i
    BY <2>1 DEF InUse
  <2>5. \A j \in 1 .. Len(sockets) : InUse(j)' => j \in orphans'
    BY <2>1, <2>4 DEF SocketsAreHeld
  <2>6. QED
    BY <2>1, <2>2, <2>3, <2>5 DEF SocketsAreHeld
<1>5. CASE UNCHANGED live
  BY <1>5 DEF live, SocketsAreHeld, InUse
<1>6. QED
  BY <1>1, <1>2, <1>3, <1>4, <1>5, LiveSteps

LEMMA LiveAlways == Spec => []LiveInv
  BY LiveInit, LiveNext, PTL DEF Spec

\* A websocket in use is the one in gpioSocket, or one that the onclose of an
\* earlier websocket has removed from there, however many come and go.
THEOREM SocketsStayHeld == Spec => []SocketsAreHeld
<1>1. LiveInv => SocketsAreHeld
  BY DEF LiveInv
<1>2. QED
  BY <1>1, LiveAlways, PTL

-----------------------------------------------------------------------------
(* The form for pull and drive. *)

\* The form names the current pin, or there is none. As long as no use of the
\* form overlaps another: a fetch under way is the only
\* one and is for the pin the form was asked for, and neither is the form shown
\* nor an earlier save under way; a form that shows is all about that pin.
FormInv ==
  /\ {current, label, source} \subseteq Pins \cup {NoPin}
  /\ current \in {label, NoPin}
  /\ field \in Levels
  /\ fetches \in Seq(Fetches)
  /\ ~overlap /\ fetches # <<>> =>
       /\ Len(fetches) = 1 /\ fetches[1].pin = current /\ label = current
       /\ current # NoPin /\ post = NoPost /\ ~shown
  /\ FormMatchesTarget

FlagsInv == shown \in BOOLEAN /\ overlap \in BOOLEAN

LEMMA FormInit == Init => FormInv /\ FlagsInv
<1> SUFFICES ASSUME Init PROVE FormInv /\ FlagsInv
  OBVIOUS
<1>1. shown = FALSE /\ overlap = FALSE /\ fetches = <<>>
  BY DEF Init
<1>2. {current, label, source} \subseteq Pins \cup {NoPin} /\ current \in {label, NoPin}
  BY DEF Init
<1>3. field \in Levels
  BY DEF Init, Levels
<1>4. fetches \in Seq(Fetches)
  BY <1>1
<1>5. FormMatchesTarget
  BY <1>1 DEF FormMatchesTarget
<1>6. QED
  BY <1>1, <1>2, <1>3, <1>4, <1>5 DEF FormInv, FlagsInv

LEMMA FlagsNext == FlagsInv /\ [Next]_vars => FlagsInv'
BY DEF FlagsInv, Next, Network, Menu, Form, vars, live, form, OpenPage, LeavePage, SocketOpens,
       SocketCloses, Refresh, Choose, ServeMode, ServeValue, SaveFails, ShowForm, ServeFetch,
       FetchFails, FillForm, EditDrive, Cancel, Close, SaveAttrs, ServePost, PostFails,
       AttrsReload, AttrsSaved, AttrsNotSaved, OtherProcess

\* Only these steps touch the form, its fetches and its POST.
LEMMA FormSteps ==
  ASSUME [Next]_vars
  PROVE  Form \/ UNCHANGED <<form, fetches, post>>
BY DEF Next, Network, Menu, vars, OpenPage, LeavePage, SocketOpens, SocketCloses, Refresh,
       Choose, ServeMode, ServeValue, SaveFails, OtherProcess

\* A fetch that is served or has failed is for the pin it was for.
LEMMA FetchEnds ==
  ASSUME fetches \in Seq(Fetches), NEW i \in 1 .. Len(fetches), ServeFetch(i) \/ FetchFails(i)
  PROVE  /\ fetches' \in Seq(Fetches) /\ Len(fetches') = Len(fetches)
         /\ \A j \in 1 .. Len(fetches) : fetches'[j].pin = fetches[j].pin
         /\ UNCHANGED <<form, post>>
<1>1. fetches[i] \in Fetches
  OBVIOUS
<1>2. UNCHANGED <<form, post>>
  BY DEF ServeFetch, FetchFails
<1>3. PICK d \in Levels :
        fetches' = [fetches EXCEPT ![i] = [state |-> "done", pin |-> fetches[i].pin,
                                           drive |-> d]]
  <2>1. CASE ServeFetch(i)
    BY <1>1, <2>1 DEF ServeFetch, Levels
  <2>2. CASE FetchFails(i)
    <3>1. [fetches[i] EXCEPT !.state = "done"] =
            [state |-> "done", pin |-> fetches[i].pin, drive |-> fetches[i].drive]
      BY <1>1 DEF Fetches
    <3>2. fetches[i].drive \in Levels
      BY <1>1 DEF Fetches
    <3>3. QED
      BY <2>2, <3>1, <3>2 DEF FetchFails
  <2>3. QED
    BY <2>1, <2>2
<1>4. [state |-> "done", pin |-> fetches[i].pin, drive |-> d] \in Fetches
  BY <1>1 DEF Fetches
<1>5. QED
  BY <1>2, <1>3, <1>4

LEMMA FormNext == FormInv /\ [Next]_vars => FormInv'
<1> SUFFICES ASSUME FormInv, [Next]_vars PROVE FormInv'
  OBVIOUS
<1> USE DEF FormInv
<1>1. ASSUME NEW p \in Pins, ShowForm(p) PROVE FormInv'
  <2> DEFINE f == [state |-> "sent", pin |-> p, drive |-> "low"]
  <2>1. /\ current' = p /\ label' = p /\ ~shown
        /\ UNCHANGED <<shown, field, source, post>>
        /\ fetches' = Append(fetches, f)
        /\ ~overlap' => fetches = <<>> /\ post = NoPost
    BY <1>1 DEF ShowForm
  <2>2. f \in Fetches
    BY DEF Fetches, Levels
  <2>3. fetches' \in Seq(Fetches)
    BY <2>1, <2>2
  <2>4. fetches = <<>> => Len(fetches') = 1 /\ fetches'[1] = f
    BY <2>1, <2>2
  <2>5. p # NoPin
    BY PinsAssumption
  <2>6. QED
    BY <2>1, <2>3, <2>4, <2>5 DEF FormMatchesTarget
<1>2. ASSUME NEW i \in 1 .. Len(fetches), ServeFetch(i) \/ FetchFails(i) PROVE FormInv'
  <2>1. /\ fetches' \in Seq(Fetches) /\ Len(fetches') = Len(fetches)
        /\ \A j \in 1 .. Len(fetches) : fetches'[j].pin = fetches[j].pin
        /\ UNCHANGED <<form, post>>
    BY <1>2, FetchEnds
  <2>2. fetches # <<>>
    OBVIOUS
  <2>3. ~overlap' => /\ Len(fetches') = 1 /\ fetches'[1].pin = current
                     /\ label = current /\ current # NoPin /\ post = NoPost /\ ~shown
    BY <2>1, <2>2 DEF form
  <2>4. QED
    BY <2>1, <2>3 DEF form, FormMatchesTarget
<1>3. ASSUME NEW i \in 1 .. Len(fetches), FillForm(i) PROVE FormInv'
  <2>1. /\ field' = fetches[i].drive /\ source' = fetches[i].pin
        /\ fetches' = RemoveAt(fetches, i)
        /\ UNCHANGED <<current, label, overlap, post>>
    BY <1>3 DEF FillForm
  <2>2. fetches[i] \in Fetches
    OBVIOUS
  <2>3. field' \in Levels /\ source' \in Pins
    BY <2>1, <2>2 DEF Fetches
  <2>4. fetches' \in Seq(Fetches)
    BY <2>1, RemoveAtType
  <2>5. ASSUME ~overlap PROVE fetches' = <<>> /\ source' = current /\ label = current
                              /\ current # NoPin
    <3>1. Len(fetches) = 1 /\ fetches[1].pin = current /\ label = current /\ current # NoPin
      BY <2>5
    <3>2. i = 1
      BY <3>1
    <3>3. fetches' = <<>>
      BY <2>1, <3>1, RemoveOnly
    <3>4. QED
      BY <2>1, <3>1, <3>2, <3>3
  <2>6. QED
    BY <2>1, <2>3, <2>4, <2>5 DEF FormMatchesTarget
<1>4. CASE EditDrive
  <2>1. UNCHANGED <<current, label, shown, source, overlap, fetches, post>>
    BY <1>4 DEF EditDrive
  <2>2. field' \in Levels
    BY <1>4 DEF EditDrive, Levels
  <2>3. QED
    BY <2>1, <2>2 DEF FormMatchesTarget
<1>5. CASE Cancel
  <2>1. shown /\ ~shown' /\ current' = NoPin
        /\ UNCHANGED <<label, field, source, overlap, fetches, post>>
    BY <1>5 DEF Cancel, Close, Covered
  <2>2. QED
    BY <2>1 DEF FormMatchesTarget
<1>6. CASE SaveAttrs
  <2>1. shown /\ UNCHANGED <<form, fetches>>
    BY <1>6 DEF SaveAttrs, Covered
  <2>2. QED
    BY <2>1 DEF FormMatchesTarget, form
<1>7. CASE ServePost \/ PostFails \/ AttrsReload \/ AttrsNotSaved
  <2>1. post # NoPost /\ UNCHANGED <<form, fetches>>
    BY <1>7 DEF ServePost, PostFails, AttrsReload, AttrsNotSaved, NoPost
  <2>2. QED
    BY <2>1 DEF FormMatchesTarget, form
<1>8. CASE AttrsSaved
  <2>1. post # NoPost /\ ~shown' /\ current' = NoPin
        /\ UNCHANGED <<label, field, source, overlap, fetches>>
    BY <1>8 DEF AttrsSaved, Close, NoPost
  <2>2. QED
    BY <2>1 DEF FormMatchesTarget
<1>9. CASE UNCHANGED <<form, fetches, post>>
  BY <1>9 DEF form, FormMatchesTarget
<1>10. QED
  BY <1>1, <1>2, <1>3, <1>4, <1>5, <1>6, <1>7, <1>8, <1>9, FormSteps DEF Form

LEMMA FormAlways == Spec => [](FormInv /\ FlagsInv)
  BY FormInit, FormNext, FlagsNext, PTL DEF Spec

\* When the form shows, its Save button posts to the pin that the form names, or
\* does nothing; and unless the form was asked for while an earlier use of it was
\* under way, it does post, and posts what was fetched for that pin.
THEOREM FormIsForItsPin == Spec => []FormMatchesTarget
<1>1. FormInv => FormMatchesTarget
  BY DEF FormInv
<1>2. QED
  BY <1>1, FormAlways, PTL

-----------------------------------------------------------------------------
(* The saves of the menu and of the form, and the pins that they set. *)

SaveTypes ==
  /\ pins \in [Pins -> States]
  /\ wanted \in [Pins -> SUBSET States]
  /\ save \in [Browsers -> Saves]
  /\ post \in Posts

\* What a save under way asks for, of the menu or of the form, is among what the
\* saves of its pin have asked for.
SavesAsked ==
  \A b \in Browsers : save[b] # NoSave =>
    /\ save[b].want \in wanted[save[b].pin]
    /\ save[b].step = "value" => save[b].want \in Levels
PostAsked ==
  post.state = "sent" /\ post.drive # "none" => post.drive \in wanted[post.pin]

SaveInv == SaveTypes /\ SavesAsked /\ PostAsked /\ SavesAreWhole

LEMMA SaveFields ==
  ASSUME SaveTypes, NEW b \in Browsers, save[b] # NoSave
  PROVE  /\ save[b].step \in {"mode", "value"} /\ save[b].pin \in Pins
         /\ save[b].want \in Options /\ save[b].want \in States
         /\ Saving(save[b].pin)
BY DEF SaveTypes, Saves, States, Saving

LEMMA PostFields ==
  ASSUME SaveTypes, post # NoPost
  PROVE  /\ post.state \in {"sent", "ok", "loaded", "failed"} /\ post.pin \in Pins
         /\ post.drive \in Levels \cup {"none"}
         /\ post = [state |-> post.state, pin |-> post.pin, drive |-> post.drive]
BY DEF SaveTypes, Posts

LEMMA Sent == post.state = "sent" => post # NoPost
BY DEF NoPost

LEMMA StatesOf == Levels \subseteq States /\ Options \subseteq States
BY DEF Levels, Options, States

LEMMA SaveInit == Init => SaveInv
<1> SUFFICES ASSUME Init PROVE SaveInv
  OBVIOUS
<1>1. SaveTypes
  BY DEF Init, SaveTypes, Saves, Posts
<1>2. SavesAsked /\ PostAsked
  BY DEF Init, SavesAsked, PostAsked, NoPost
<1>3. SavesAreWhole
  BY DEF Init, SavesAreWhole
<1>4. QED
  BY <1>1, <1>2, <1>3 DEF SaveInv

\* What a step of one save does: it sets its pin to something asked for, by
\* adding it if need be, and the save goes on to its value or is over.
SaveStep(b, s) ==
  /\ pins' = [pins EXCEPT ![save[b].pin] = s]
  /\ s \in wanted'[save[b].pin]
  /\ \/ wanted' = wanted
     \/ wanted' = [wanted EXCEPT ![save[b].pin] = @ \cup {s}]
  /\ \/ save' = [save EXCEPT ![b] = NoSave]
     \/ /\ save[b].want \in Levels
        /\ save' = [save EXCEPT ![b] = [step |-> "value", pin |-> save[b].pin,
                                        want |-> save[b].want]]
  /\ post' = post

LEMMA SaveStepKeeps ==
  ASSUME SaveInv, NEW b \in Browsers, save[b] # NoSave, NEW s \in States, SaveStep(b, s)
  PROVE  SaveInv'
<1> DEFINE q == save[b].pin
<1>1. q \in Pins /\ save[b].want \in Options /\ Saving(q)
  BY SaveFields DEF SaveInv
<1>2. pins' \in [Pins -> States] /\ wanted' \in [Pins -> SUBSET States]
  BY <1>1 DEF SaveStep, SaveInv, SaveTypes
<1>3. save' \in [Browsers -> Saves]
  BY <1>1 DEF SaveStep, SaveInv, SaveTypes, Saves
<1>4. SaveTypes'
  BY <1>2, <1>3 DEF SaveStep, SaveInv, SaveTypes
<1>5. \A p \in Pins : wanted[p] \subseteq wanted'[p]
  BY <1>1 DEF SaveStep, SaveInv, SaveTypes
<1>6. pins'[q] \in wanted'[q]
  BY <1>1 DEF SaveStep, SaveInv, SaveTypes
<1>7. \A p \in Pins \ {q} : pins'[p] = pins[p] /\ wanted'[p] = wanted[p]
  BY <1>1 DEF SaveStep, SaveInv, SaveTypes
<1>8. ASSUME NEW c \in Browsers, save'[c] # NoSave
      PROVE  /\ save'[c].want \in wanted'[save'[c].pin]
             /\ save'[c].step = "value" => save'[c].want \in Levels
  <2>1. CASE c = b
    <3>1. save[b].want \in Levels /\ save'[b] = [step |-> "value", pin |-> q, want |-> save[b].want]
      BY <1>8, <2>1 DEF SaveStep, SaveInv, SaveTypes
    <3>2. save[b].want \in wanted[q]
      BY DEF SaveInv, SavesAsked
    <3>3. QED
      BY <1>1, <1>5, <2>1, <3>1, <3>2
  <2>2. CASE c # b
    <3>1. save'[c] = save[c]
      BY <2>2 DEF SaveStep, SaveInv, SaveTypes
    <3>2. save[c].pin \in Pins
      BY <1>8, <3>1, SaveFields DEF SaveInv
    <3>3. QED
      BY <1>5, <1>8, <3>1, <3>2 DEF SaveInv, SavesAsked
  <2>3. QED
    BY <2>1, <2>2
<1>9. SavesAsked'
  BY <1>8 DEF SavesAsked
<1>10. PostAsked'
  <2>1. SUFFICES ASSUME post.state = "sent", post.drive # "none"
                 PROVE  post.drive \in wanted'[post.pin]
    BY DEF PostAsked, SaveStep
  <2>2. post.pin \in Pins
    BY <2>1, Sent, PostFields DEF SaveInv
  <2>3. QED
    BY <1>5, <2>1, <2>2 DEF SaveInv, PostAsked
<1>11. ASSUME NEW p \in Pins, LeftAlone(p)', wanted'[p] # {} PROVE pins'[p] \in wanted'[p]
  <2>1. CASE p = q
    BY <1>6, <2>1
  <2>2. CASE p # q
    <3>1. LeftAlone(p)
      <4>1. ~(Posting(p) /\ post.drive # "none")
        BY <1>11 DEF LeftAlone, Posting, SaveStep
      <4>2. ASSUME NEW c \in Browsers, save[c].pin = p PROVE FALSE
        <5>1. c # b
          BY <2>2, <4>2
        <5>2. save'[c] = save[c]
          BY <5>1 DEF SaveStep, SaveInv, SaveTypes
        <5>3. QED
          BY <1>11, <4>2, <5>2 DEF LeftAlone, Saving
      <4>3. QED
        BY <4>1, <4>2 DEF LeftAlone, Saving
    <3>2. QED
      BY <1>7, <1>11, <2>2, <3>1 DEF SaveInv, SavesAreWhole
  <2>3. QED
    BY <2>1, <2>2
<1>12. SavesAreWhole'
  BY <1>11 DEF SavesAreWhole
<1>13. QED
  BY <1>4, <1>9, <1>10, <1>12 DEF SaveInv

LEMMA ServeModeIsStep ==
  ASSUME SaveInv, NEW b \in Browsers, ServeMode(b)
  PROVE  save[b] # NoSave /\ save[b].want \in States /\ SaveStep(b, save[b].want)
<1>1. save[b] # NoSave
  BY DEF ServeMode, NoSave
<1>2. save[b].step = "mode" /\ save[b].want \in Options /\ save[b].want \in States
  BY <1>1, SaveFields DEF SaveInv, ServeMode
<1>3. save[b].want \in wanted[save[b].pin]
  BY <1>1 DEF SaveInv, SavesAsked
<1>4. save[b] = [step |-> save[b].step, pin |-> save[b].pin, want |-> save[b].want]
  BY <1>1 DEF SaveInv, SaveTypes, Saves
<1>5. CASE save[b].want = "input"
  <2>1. save' = [save EXCEPT ![b] = NoSave]
    BY <1>5 DEF ServeMode
  <2>2. QED
    BY <1>1, <1>2, <1>3, <2>1 DEF ServeMode, SaveStep, Set, board, bounded
<1>6. CASE save[b].want # "input"
  <2>1. save[b].want \in Levels
    BY <1>2, <1>6 DEF Options, Levels
  <2>2. save' = [save EXCEPT ![b] = [save[b] EXCEPT !.step = "value"]]
    BY <1>6 DEF ServeMode
  <2>3. [save[b] EXCEPT !.step = "value"] =
          [step |-> "value", pin |-> save[b].pin, want |-> save[b].want]
    BY <1>4
  <2>4. QED
    BY <1>1, <1>2, <1>3, <2>1, <2>2, <2>3 DEF ServeMode, SaveStep, Set
<1>7. QED
  BY <1>5, <1>6

LEMMA ServeValueIsStep ==
  ASSUME SaveInv, NEW b \in Browsers, ServeValue(b)
  PROVE  save[b] # NoSave /\ save[b].want \in States /\ SaveStep(b, save[b].want)
<1>1. save[b] # NoSave
  BY DEF ServeValue, NoSave
<1>2. save[b].want \in Levels /\ save[b].want \in wanted[save[b].pin]
  BY <1>1 DEF SaveInv, SavesAsked, ServeValue
<1>3. (IF save[b].want = "high" THEN "high" ELSE "low") = save[b].want
  BY <1>2 DEF Levels
<1>4. save' = [save EXCEPT ![b] = NoSave] /\ UNCHANGED <<wanted, post>>
  BY DEF ServeValue
<1>5. pins' = [pins EXCEPT ![save[b].pin] = save[b].want]
  BY <1>3 DEF ServeValue, Set
<1>6. QED
  BY <1>1, <1>2, <1>4, <1>5, StatesOf DEF SaveStep

LEMMA SaveFailsIsStep ==
  ASSUME SaveInv, NEW b \in Browsers, SaveFails(b)
  PROVE  save[b] # NoSave /\ \E s \in States : SaveStep(b, s)
<1>1. save[b] # NoSave /\ save' = [save EXCEPT ![b] = NoSave] /\ post' = post
  BY DEF SaveFails
<1>2. save[b].pin \in Pins /\ save[b].want \in States
  BY <1>1, SaveFields DEF SaveInv
<1>3. PICK s \in {pins[save[b].pin], save[b].want} :
        /\ pins' = [pins EXCEPT ![save[b].pin] = s]
        /\ wanted' = [wanted EXCEPT ![save[b].pin] = @ \cup {s}]
  BY DEF SaveFails, Set
<1>4. s \in States
  BY <1>2 DEF SaveInv, SaveTypes
<1>5. s \in wanted'[save[b].pin]
  BY <1>2, <1>3 DEF SaveInv, SaveTypes
<1>6. SaveStep(b, s)
  BY <1>1, <1>3, <1>5 DEF SaveStep
<1>7. QED
  BY <1>1, <1>4, <1>6

\* Asking for something adds it to what a pin was asked for, and starts that
\* afresh when the pin was left alone.
LEMMA AskKeeps ==
  ASSUME SaveInv, NEW q \in Pins, NEW W \in SUBSET States, Ask(q, W)
  PROVE  /\ wanted' \in [Pins -> SUBSET States]
         /\ W \subseteq wanted'[q]
         /\ ~LeftAlone(q) => wanted[q] \subseteq wanted'[q]
         /\ \A p \in Pins \ {q} : wanted'[p] = wanted[p]
BY DEF Ask, SaveInv, SaveTypes

LEMMA ChooseKeeps ==
  ASSUME SaveInv, NEW b \in Browsers, NEW q \in Pins, NEW w \in Options, Choose(b, q, w)
  PROVE  SaveInv'
<1>1. /\ save[b] = NoSave /\ UNCHANGED <<pins, post>> /\ Ask(q, {w})
      /\ save' = [save EXCEPT ![b] = [step |-> "mode", pin |-> q, want |-> w]]
  BY DEF Choose
<1>2. /\ wanted' \in [Pins -> SUBSET States] /\ w \in wanted'[q]
      /\ ~LeftAlone(q) => wanted[q] \subseteq wanted'[q]
      /\ \A p \in Pins \ {q} : wanted'[p] = wanted[p]
  BY <1>1, AskKeeps, StatesOf
<1>3. [step |-> "mode", pin |-> q, want |-> w] \in Saves
  BY DEF Saves
<1>4. save'[b] = [step |-> "mode", pin |-> q, want |-> w]
      /\ \A c \in Browsers \ {b} : save'[c] = save[c]
  BY <1>1 DEF SaveInv, SaveTypes
<1>5. SaveTypes'
  BY <1>1, <1>2, <1>3 DEF SaveInv, SaveTypes
<1>6. \A p \in Pins : ~LeftAlone(p) => wanted[p] \subseteq wanted'[p]
  BY <1>2
<1>7. ASSUME NEW c \in Browsers, save'[c] # NoSave
      PROVE  /\ save'[c].want \in wanted'[save'[c].pin]
             /\ save'[c].step = "value" => save'[c].want \in Levels
  <2>1. CASE c = b
    BY <1>2, <1>4, <2>1
  <2>2. CASE c # b
    <3>1. save'[c] = save[c]
      BY <1>4, <2>2
    <3>2. save[c].pin \in Pins /\ ~LeftAlone(save[c].pin)
      BY <1>7, <3>1, SaveFields DEF SaveInv, LeftAlone
    <3>3. QED
      BY <1>6, <1>7, <3>1, <3>2 DEF SaveInv, SavesAsked
  <2>3. QED
    BY <2>1, <2>2
<1>8. SavesAsked'
  BY <1>7 DEF SavesAsked
<1>9. PostAsked'
  <2>1. SUFFICES ASSUME post.state = "sent", post.drive # "none"
                 PROVE  post.drive \in wanted'[post.pin]
    BY <1>1 DEF PostAsked
  <2>2. post.pin \in Pins /\ ~LeftAlone(post.pin)
    BY <2>1, Sent, PostFields DEF SaveInv, LeftAlone, Posting
  <2>3. wanted[post.pin] \subseteq wanted'[post.pin]
    BY <1>6, <2>2
  <2>4. QED
    BY <2>1, <2>3 DEF SaveInv, PostAsked
<1>10. ASSUME NEW p \in Pins, LeftAlone(p)', wanted'[p] # {} PROVE pins'[p] \in wanted'[p]
  <2>1. p # q
    BY <1>4, <1>10 DEF LeftAlone, Saving
  <2>2. \A c \in Browsers : save[c].pin = p => save'[c].pin = p
    BY <1>1, <1>4, PinsAssumption DEF NoSave
  <2>3. LeftAlone(p)
    BY <1>1, <1>10, <2>2 DEF LeftAlone, Saving, Posting
  <2>4. QED
    BY <1>1, <1>2, <1>10, <2>1, <2>3 DEF SaveInv, SavesAreWhole
<1>11. QED
  BY <1>5, <1>8, <1>9, <1>10 DEF SaveInv, SavesAreWhole

LEMMA SaveAttrsKeeps ==
  ASSUME SaveInv, FormInv, SaveAttrs
  PROVE  SaveInv'
<1> DEFINE q == current
           drive == IF cache[current] = "output" THEN field ELSE "none"
<1>1. /\ post = NoPost /\ UNCHANGED <<pins, save>>
      /\ IF drive = "none" THEN wanted' = wanted ELSE Ask(q, {drive})
      /\ post' = [state |-> "sent", pin |-> q, drive |-> drive]
  BY DEF SaveAttrs
<1>2. q \in Pins
  BY DEF SaveAttrs, FormInv
<1>3. drive \in Levels \cup {"none"}
  BY DEF FormInv
<1> HIDE DEF q, drive
<1>4. /\ wanted' \in [Pins -> SUBSET States] /\ (drive # "none" => drive \in wanted'[q])
      /\ ~LeftAlone(q) => wanted[q] \subseteq wanted'[q]
      /\ \A p \in Pins \ {q} : wanted'[p] = wanted[p]
  <2>1. CASE drive = "none"
    BY <1>1, <2>1 DEF SaveInv, SaveTypes
  <2>2. CASE drive # "none"
    <3>1. Ask(q, {drive})
      BY <1>1, <2>2
    <3>2. {drive} \in SUBSET States
      BY <1>3, <2>2, StatesOf
    <3>3. QED
      BY <1>2, <3>1, <3>2, AskKeeps
  <2>3. QED
    BY <2>1, <2>2
<1>5. SaveTypes'
  BY <1>1, <1>2, <1>3, <1>4 DEF SaveInv, SaveTypes, Posts
<1>6. ASSUME NEW c \in Browsers, save[c] # NoSave
      PROVE  /\ save[c].want \in wanted'[save[c].pin]
             /\ save[c].step = "value" => save[c].want \in Levels
  <2>1. save[c].pin \in Pins /\ ~LeftAlone(save[c].pin)
    BY <1>6, SaveFields DEF SaveInv, LeftAlone
  <2>2. wanted[save[c].pin] \subseteq wanted'[save[c].pin]
    BY <1>4, <2>1
  <2>3. QED
    BY <1>6, <2>2 DEF SaveInv, SavesAsked
<1>7. SavesAsked'
  BY <1>1, <1>6 DEF SavesAsked
<1>8. PostAsked'
  BY <1>1, <1>4 DEF PostAsked
<1>9. ASSUME NEW p \in Pins, LeftAlone(p)', wanted'[p] # {} PROVE pins'[p] \in wanted'[p]
  <2>1. LeftAlone(p)
    BY <1>1, <1>9 DEF LeftAlone, Saving, Posting, NoPost
  <2>2. wanted'[p] = wanted[p]
    <3>1. CASE p = q
      <4>1. drive = "none"
        BY <1>1, <1>9, <3>1 DEF LeftAlone, Posting
      <4>2. QED
        BY <1>1, <4>1
    <3>2. CASE p # q
      BY <1>4, <3>2
    <3>3. QED
      BY <3>1, <3>2
  <2>3. QED
    BY <1>1, <1>9, <2>1, <2>2 DEF SaveInv, SavesAreWhole
<1>10. QED
  BY <1>5, <1>7, <1>8, <1>9 DEF SaveInv, SavesAreWhole

\* What the end of a POST at the server does: its pin is one of what the saves
\* have asked for, or has not changed in a POST that asks for no drive.
PostStep(s, W) ==
  /\ post.state = "sent" /\ post'.state # "sent" /\ post' \in Posts
  /\ pins' = [pins EXCEPT ![post.pin] = s]
  /\ wanted' = [wanted EXCEPT ![post.pin] = @ \cup W]
  /\ s \in wanted[post.pin] \cup W \/ (post.drive = "none" /\ s = pins[post.pin] /\ W = {})
  /\ save' = save

LEMMA PostStepKeeps ==
  ASSUME SaveInv, NEW s \in States, NEW W \in SUBSET States, PostStep(s, W)
  PROVE  SaveInv'
<1> DEFINE q == post.pin
<1>1. q \in Pins
  BY Sent, PostFields DEF SaveInv, PostStep
<1>2. SaveTypes'
  BY <1>1 DEF PostStep, SaveInv, SaveTypes
<1>3. \A p \in Pins : wanted[p] \subseteq wanted'[p]
  BY <1>1 DEF PostStep, SaveInv, SaveTypes
<1>4. pins'[q] = s /\ wanted'[q] = wanted[q] \cup W
  BY <1>1 DEF PostStep, SaveInv, SaveTypes
<1>5. \A p \in Pins \ {q} : pins'[p] = pins[p] /\ wanted'[p] = wanted[p]
  BY <1>1 DEF PostStep, SaveInv, SaveTypes
<1>6. ASSUME NEW c \in Browsers, save[c] # NoSave
      PROVE  /\ save[c].want \in wanted'[save[c].pin]
             /\ save[c].step = "value" => save[c].want \in Levels
  <2>1. save[c].pin \in Pins
    BY <1>6, SaveFields DEF SaveInv
  <2>2. QED
    BY <1>3, <1>6, <2>1 DEF SaveInv, SavesAsked
<1>7. SavesAsked'
  BY <1>6 DEF SavesAsked, PostStep
<1>8. PostAsked'
  BY DEF PostAsked, PostStep
<1>9. ASSUME NEW p \in Pins, LeftAlone(p)', wanted'[p] # {} PROVE pins'[p] \in wanted'[p]
  <2>1. ~Saving(p)
    BY <1>9 DEF LeftAlone, Saving, PostStep
  <2>2. CASE p = q /\ s \in wanted[q] \cup W
    BY <1>4, <2>2
  <2>3. CASE p = q /\ post.drive = "none" /\ s = pins[q] /\ W = {}
    <3>1. LeftAlone(p)
      BY <2>1, <2>3 DEF LeftAlone
    <3>2. QED
      BY <1>4, <1>9, <2>3, <3>1 DEF SaveInv, SavesAreWhole
  <2>4. CASE p # q
    <3>1. LeftAlone(p)
      BY <2>1, <2>4 DEF LeftAlone, Posting
    <3>2. QED
      BY <1>5, <1>9, <2>4, <3>1 DEF SaveInv, SavesAreWhole
  <2>5. QED
    BY <2>2, <2>3, <2>4 DEF PostStep
<1>10. QED
  BY <1>2, <1>7, <1>8, <1>9 DEF SaveInv, SavesAreWhole

\* What the two parts of a POST may make of a pin.
LEMMA PostEffects ==
  ASSUME SaveTypes, NEW p \in Pins, NEW drive \in Levels \cup {"none"}
  PROVE  /\ pins[p] \in States /\ Pulled(p) \in States /\ Driven(p, drive) \in States
         /\ Pulled(p) = pins[p] \/ (pins[p] = "other" /\ Pulled(p) = "input")
         /\ \/ Driven(p, drive) = Pulled(p)
            \/ Driven(p, drive) = drive /\ pins[p] \in Levels
<1>1. pins[p] \in States
  BY DEF SaveTypes
<1>2. Pulled(p) \in States /\ (Pulled(p) = pins[p] \/ (pins[p] = "other" /\ Pulled(p) = "input"))
  BY <1>1 DEF Pulled, States, Options
<1>3. Pulled(p) \in Levels => pins[p] \in Levels
  BY DEF Pulled, Levels
<1>4. \/ Driven(p, drive) = Pulled(p)
      \/ Driven(p, drive) = drive /\ pins[p] \in Levels /\ drive \in Levels
  BY <1>3 DEF Driven
<1>5. QED
  BY <1>1, <1>2, <1>4, StatesOf

LEMMA PostEnds ==
  ASSUME SaveTypes, post.state = "sent", NEW r \in {"ok", "failed"},
         post' = [post EXCEPT !.state = r]
  PROVE  post'.state = r /\ post' \in Posts
<1>1. post = [state |-> post.state, pin |-> post.pin, drive |-> post.drive]
      /\ post.pin \in Pins /\ post.drive \in Levels \cup {"none"}
  BY Sent, PostFields
<1>2. post' = [state |-> r, pin |-> post.pin, drive |-> post.drive]
  BY <1>1
<1>3. QED
  BY <1>1, <1>2 DEF Posts

LEMMA ServePostIsStep ==
  ASSUME SaveInv, ServePost
  PROVE  \E s \in States, W \in SUBSET States : PostStep(s, W)
<1> DEFINE q == post.pin
           after == Driven(q, post.drive)
           asked == IF post.drive = "none" THEN pins[q] ELSE post.drive
           W == {after} \ {asked}
<1>1. post.state = "sent" /\ save' = save /\ post' = [post EXCEPT !.state = "ok"]
  BY DEF ServePost
<1>2. q \in Pins /\ post.drive \in Levels \cup {"none"}
  BY <1>1, Sent, PostFields DEF SaveInv
<1>3. post'.state = "ok" /\ post' \in Posts
  BY <1>1, PostEnds DEF SaveInv
<1>4. after \in States /\ W \in SUBSET States
  BY <1>2, PostEffects DEF SaveInv
<1>5. /\ pins' = [pins EXCEPT ![q] = after]
      /\ wanted' = [wanted EXCEPT ![q] = @ \cup W]
  BY DEF ServePost, Set
<1>6. post.drive # "none" => post.drive \in wanted[q]
  BY <1>1 DEF SaveInv, PostAsked
<1>7. after \in wanted[q] \cup W \/ (post.drive = "none" /\ after = pins[q] /\ W = {})
  <2> HIDE DEF after
  <2>1. CASE post.drive = "none"
    BY <2>1
  <2>2. CASE post.drive # "none"
    BY <1>6, <2>2
  <2>3. QED
    BY <2>1, <2>2
<1> HIDE DEF after, W
<1>8. PostStep(after, W)
  BY <1>1, <1>3, <1>5, <1>7 DEF PostStep
<1>9. QED
  BY <1>4, <1>8

LEMMA PostFailsIsStep ==
  ASSUME SaveInv, PostFails
  PROVE  \E s \in States, W \in SUBSET States : PostStep(s, W)
<1> DEFINE q == post.pin
<1>1. post.state = "sent" /\ save' = save /\ post' = [post EXCEPT !.state = "failed"]
  BY DEF PostFails
<1>2. q \in Pins /\ post.drive \in Levels \cup {"none"}
  BY <1>1, Sent, PostFields DEF SaveInv
<1>3. post'.state = "failed" /\ post' \in Posts
  BY <1>1, PostEnds DEF SaveInv
<1>4. PICK s \in {pins[q], Pulled(q), Driven(q, post.drive)} :
        pins' = [pins EXCEPT ![q] = s] /\ wanted' = [wanted EXCEPT ![q] = @ \cup {s}]
  BY DEF PostFails, Set
<1>5. s \in States
  BY <1>2, PostEffects DEF SaveInv
<1>6. PostStep(s, {s})
  BY <1>1, <1>3, <1>4 DEF PostStep
<1>7. QED
  BY <1>5, <1>6

\* What the page does with the reply changes no pin.
LEMMA ReplyKeeps ==
  ASSUME SaveInv, AttrsReload \/ AttrsSaved \/ AttrsNotSaved
  PROVE  SaveInv'
<1>1. post.state # "sent" /\ UNCHANGED <<pins, wanted, save>>
  BY DEF AttrsReload, AttrsSaved, AttrsNotSaved, board
<1>2. post'.state # "sent" /\ post' \in Posts
  <2>1. CASE AttrsReload
    <3>1. post # NoPost /\ post' = [post EXCEPT !.state = "loaded"]
      BY <2>1 DEF AttrsReload, NoPost
    <3>2. post = [state |-> post.state, pin |-> post.pin, drive |-> post.drive]
          /\ post.pin \in Pins /\ post.drive \in Levels \cup {"none"}
      BY <3>1, PostFields DEF SaveInv
    <3>3. post' = [state |-> "loaded", pin |-> post.pin, drive |-> post.drive]
      BY <3>1, <3>2
    <3>4. QED
      BY <3>2, <3>3 DEF Posts
  <2>2. CASE AttrsSaved \/ AttrsNotSaved
    BY <2>2 DEF AttrsSaved, AttrsNotSaved, Posts, NoPost
  <2>3. QED
    BY <2>1, <2>2
<1>3. SaveTypes'
  BY <1>1, <1>2 DEF SaveInv, SaveTypes
<1>4. SavesAsked' /\ PostAsked'
  BY <1>1, <1>2 DEF SaveInv, SavesAsked, PostAsked
<1>5. SavesAreWhole'
  BY <1>1, <1>2 DEF SaveInv, SavesAreWhole, LeftAlone, Saving, Posting
<1>6. QED
  BY <1>3, <1>4, <1>5 DEF SaveInv

\* What another process makes of a pin counts as asked for.
LEMMA OtherProcessKeeps ==
  ASSUME SaveInv, NEW q \in Pins, OtherProcess(q)
  PROVE  SaveInv'
<1>1. /\ pins' = [pins EXCEPT ![q] = "other"]
      /\ wanted' = [wanted EXCEPT ![q] = @ \cup {"other"}]
      /\ UNCHANGED <<save, post>>
  BY DEF OtherProcess, Set
<1>2. SaveTypes'
  BY <1>1 DEF SaveInv, SaveTypes, States
<1>3. \A p \in Pins : wanted[p] \subseteq wanted'[p]
  BY <1>1 DEF SaveInv, SaveTypes
<1>4. SavesAsked'
  BY <1>1, <1>3, SaveFields DEF SaveInv, SavesAsked
<1>5. PostAsked'
  BY <1>1, <1>3, Sent, PostFields DEF SaveInv, PostAsked
<1>6. ASSUME NEW p \in Pins, LeftAlone(p)', wanted'[p] # {} PROVE pins'[p] \in wanted'[p]
  <2>1. CASE p = q
    BY <1>1, <2>1 DEF SaveInv, SaveTypes
  <2>2. CASE p # q
    <3>1. LeftAlone(p)
      BY <1>1, <1>6 DEF LeftAlone, Saving, Posting
    <3>2. QED
      BY <1>1, <1>6, <2>2, <3>1 DEF SaveInv, SaveTypes, SavesAreWhole
  <2>3. QED
    BY <2>1, <2>2
<1>7. QED
  BY <1>2, <1>4, <1>5, <1>6 DEF SaveInv, SavesAreWhole

\* Only these steps touch the pins, the saves and the POST.
LEMMA SaveSteps ==
  ASSUME [Next]_vars
  PROVE  \/ Menu
         \/ SaveAttrs \/ ServePost \/ PostFails
         \/ AttrsReload \/ AttrsSaved \/ AttrsNotSaved
         \/ \E p \in Pins : OtherProcess(p)
         \/ UNCHANGED <<board, save, post>>
BY DEF Next, Network, Form, vars, OpenPage, LeavePage, SocketOpens, SocketCloses, Refresh,
       ShowForm, ServeFetch, FetchFails, FillForm, EditDrive, Cancel

LEMMA SaveNext == SaveInv /\ FormInv /\ [Next]_vars => SaveInv'
<1> SUFFICES ASSUME SaveInv, FormInv, [Next]_vars PROVE SaveInv'
  OBVIOUS
<1>1. CASE Menu
  <2>1. PICK b \in Browsers :
          \/ \E p \in Pins, w \in Options : Choose(b, p, w)
          \/ ServeMode(b) \/ ServeValue(b) \/ SaveFails(b)
    BY <1>1 DEF Menu
  <2>2. CASE \E p \in Pins, w \in Options : Choose(b, p, w)
    BY <2>2, ChooseKeeps
  <2>3. CASE ServeMode(b)
    BY <2>3, ServeModeIsStep, SaveStepKeeps
  <2>4. CASE ServeValue(b)
    BY <2>4, ServeValueIsStep, SaveStepKeeps
  <2>5. CASE SaveFails(b)
    BY <2>5, SaveFailsIsStep, SaveStepKeeps
  <2>6. QED
    BY <2>1, <2>2, <2>3, <2>4, <2>5
<1>2. CASE SaveAttrs
  BY <1>2, SaveAttrsKeeps
<1>3. CASE ServePost
  BY <1>3, ServePostIsStep, PostStepKeeps
<1>4. CASE PostFails
  BY <1>4, PostFailsIsStep, PostStepKeeps
<1>5. CASE AttrsReload \/ AttrsSaved \/ AttrsNotSaved
  BY <1>5, ReplyKeeps
<1>6. CASE \E p \in Pins : OtherProcess(p)
  BY <1>6, OtherProcessKeeps
<1>7. CASE UNCHANGED <<board, save, post>>
  BY <1>7 DEF board, SaveInv, SaveTypes, SavesAsked, PostAsked, SavesAreWhole, LeftAlone, Saving,
              Posting
<1>8. QED
  BY <1>1, <1>2, <1>3, <1>4, <1>5, <1>6, <1>7, SaveSteps

LEMMA SaveAlways == Spec => []SaveInv
  BY SaveInit, SaveNext, FormAlways, PTL DEF Spec

\* A save of the menu takes two requests, and another browser or the form may be
\* served between them: still a pin that is left alone is one of what the
\* saves that overlapped asked for, never a mixture. What a failed request,
\* another process, a pull of such a process's pin or a skipped drive has left
\* counts as asked for; a POST without a drive takes nothing away.
THEOREM SavesEndWhole == Spec => []SavesAreWhole
<1>1. SaveInv => SavesAreWhole
  BY DEF SaveInv
<1>2. QED
  BY <1>1, SaveAlways, PTL

LEMMA StepAskedFor ==
  SaveInv /\ [Next]_vars => \A p \in Pins : pins'[p] # pins[p] => AskedFor(p)
<1> SUFFICES ASSUME SaveInv, [Next]_vars, NEW p \in Pins, pins'[p] # pins[p]
             PROVE  AskedFor(p)
  OBVIOUS
<1>1. ASSUME NEW b \in Browsers, ServeMode(b) \/ ServeValue(b) PROVE AskedFor(p)
  <2>1. save[b].pin \in Pins /\ SaveStep(b, save[b].want)
    BY <1>1, ServeModeIsStep, ServeValueIsStep, SaveFields DEF SaveInv
  <2>2. save[b].pin = p /\ save[b].want = pins'[p]
    BY <2>1 DEF SaveStep, SaveInv, SaveTypes
  <2>3. QED
    BY <2>2 DEF AskedFor
<1>2. ASSUME NEW b \in Browsers, SaveFails(b) PROVE AskedFor(p)
  <2>1. save[b] # NoSave
    BY <1>2 DEF SaveFails
  <2>2. save[b].pin \in Pins
    BY <2>1, SaveFields DEF SaveInv
  <2>3. PICK s \in {pins[save[b].pin], save[b].want} :
          pins' = [pins EXCEPT ![save[b].pin] = s]
    BY <1>2 DEF SaveFails, Set
  <2>4. save[b].pin = p /\ save[b].want = pins'[p]
    BY <2>2, <2>3 DEF SaveInv, SaveTypes
  <2>5. QED
    BY <2>4 DEF AskedFor
<1>3. CASE ServePost \/ PostFails
  <2>1. post.state = "sent"
    BY <1>3 DEF ServePost, PostFails
  <2>2. post.pin \in Pins /\ post.drive \in Levels \cup {"none"}
    BY <2>1, Sent, PostFields DEF SaveInv
  <2>3. PICK s \in {pins[post.pin], Pulled(post.pin), Driven(post.pin, post.drive)} :
          pins' = [pins EXCEPT ![post.pin] = s]
    BY <1>3 DEF ServePost, PostFails, Set
  <2>4. p = post.pin /\ pins'[p] = s
    BY <2>2, <2>3 DEF SaveInv, SaveTypes
  <2>5. Posting(p)
    BY <2>1, <2>4 DEF Posting
  <2>6. \/ pins[p] = "other" /\ s = "input"
        \/ pins[p] \in Levels /\ s = post.drive
    BY <2>2, <2>3, <2>4, PostEffects DEF SaveInv
  <2>7. QED
    BY <2>4, <2>5, <2>6 DEF AskedFor
<1>4. CASE Menu
  <2>1. PICK b \in Browsers : ServeMode(b) \/ ServeValue(b) \/ SaveFails(b)
    BY <1>4 DEF Menu, Choose
  <2>2. QED
    BY <1>1, <1>2, <2>1
<1>5. CASE SaveAttrs \/ AttrsReload \/ AttrsSaved \/ AttrsNotSaved
  BY <1>5 DEF SaveAttrs, AttrsReload, AttrsSaved, AttrsNotSaved, board
<1>6. ASSUME NEW q \in Pins, OtherProcess(q) PROVE AskedFor(p)
  <2>1. pins' = [pins EXCEPT ![q] = "other"]
    BY <1>6 DEF OtherProcess, Set
  <2>2. pins'[p] = "other"
    BY <2>1 DEF SaveInv, SaveTypes
  <2>3. QED
    BY <2>2 DEF AskedFor
<1>7. CASE UNCHANGED <<board, save, post>>
  BY <1>7 DEF board
<1>8. QED
  BY <1>3, <1>4, <1>5, <1>6, <1>7, SaveSteps

\* A pin becomes nothing, not even for a moment, that no save under way asks for,
\* except an input by a pull of a pin in another function; and the form's
\* drive makes an output of no pin.
THEOREM PinsBecomeWhatIsAsked == Spec => PinsAreAskedFor
<1>1. SaveInv /\ [Next]_vars => [\A p \in Pins : pins'[p] # pins[p] => AskedFor(p)]_vars
  BY StepAskedFor
<1>2. QED
  BY <1>1, SaveAlways, PTL DEF Spec, PinsAreAskedFor

-----------------------------------------------------------------------------
(* Types. *)

CacheInv == cache \in [Pins -> Modes \cup {"unknown"}]
BoundInv == clicks \in 0 .. MaxClicks /\ faults \in 0 .. MaxFaults

LEMMA RestInit == Init => CacheInv /\ BoundInv
BY BoundsAssumption DEF Init, CacheInv, BoundInv

LEMMA CacheNext == CacheInv /\ SaveInv /\ [Next]_vars => CacheInv'
<1> SUFFICES ASSUME CacheInv, SaveInv, [Next]_vars PROVE CacheInv'
  OBVIOUS
<1>1. CASE Refresh \/ AttrsReload
  <2>1. \A p \in Pins : Mode(pins[p]) \in Modes
    BY DEF SaveInv, SaveTypes, Modes
  <2>2. QED
    BY <1>1, <2>1 DEF Refresh, AttrsReload, CacheInv
<1>2. Refresh \/ AttrsReload \/ UNCHANGED cache
  BY DEF Next, Network, Menu, Form, vars, OpenPage, LeavePage, SocketOpens, SocketCloses,
         Choose, ServeMode, ServeValue, SaveFails, ShowForm, ServeFetch, FetchFails, FillForm,
         EditDrive, Cancel, SaveAttrs, ServePost, PostFails, AttrsSaved, AttrsNotSaved,
         OtherProcess
<1>3. QED
  BY <1>1, <1>2 DEF CacheInv

LEMMA BoundNext == BoundInv /\ [Next]_vars => BoundInv'
<1>1. [Next]_vars => Click \/ Fault \/ UNCHANGED bounded
  BY DEF Next, Network, Menu, Form, vars, OpenPage, LeavePage, SocketOpens, SocketCloses,
         Refresh, Choose, ServeMode, ServeValue, SaveFails, ShowForm, ServeFetch, FetchFails,
         FillForm, EditDrive, Cancel, SaveAttrs, ServePost, PostFails, AttrsReload,
         AttrsSaved, AttrsNotSaved, OtherProcess
<1>2. QED
  BY <1>1, ClickType DEF BoundInv, bounded

Inv == LiveInv /\ FormInv /\ FlagsInv /\ SaveInv /\ CacheInv /\ BoundInv

LEMMA InvTypes == Inv => TypeOK
<1> SUFFICES ASSUME Inv PROVE TypeOK
  OBVIOUS
<1>1. /\ page \in {"gpio", "other"}
      /\ \A i \in 1 .. Len(sockets) :
           sockets[i] \in {"connecting", "open", "closing", "closed"}
      /\ socket \in 0 .. Len(sockets)
      /\ orphans \subseteq 1 .. Len(sockets)
  BY DEF Inv, LiveInv, SocketStates
<1>2. /\ {current, label, source} \subseteq Pins \cup {NoPin}
      /\ {shown, overlap} \subseteq BOOLEAN /\ field \in Levels
      /\ \A i \in 1 .. Len(fetches) : fetches[i] \in Fetches
  BY DEF Inv, FormInv, FlagsInv
<1>3. /\ pins \in [Pins -> States] /\ wanted \in [Pins -> SUBSET States]
      /\ save \in [Browsers -> Saves] /\ post \in Posts
  BY DEF Inv, SaveInv, SaveTypes
<1>4. /\ cache \in [Pins -> Modes \cup {"unknown"}]
      /\ clicks \in 0 .. MaxClicks /\ faults \in 0 .. MaxFaults
  BY DEF Inv, CacheInv, BoundInv
<1>5. QED
  BY <1>1, <1>2, <1>3, <1>4 DEF TypeOK

\* Every variable stays in its type.
THEOREM TypeCorrect == Spec => []TypeOK
<1>1. Spec => [](CacheInv /\ BoundInv)
  BY RestInit, CacheNext, BoundNext, SaveAlways, PTL DEF Spec
<1>2. Spec => []Inv
  BY <1>1, LiveAlways, FormAlways, SaveAlways, PTL DEF Inv
<1>3. QED
  BY <1>2, InvTypes, PTL

=============================================================================
