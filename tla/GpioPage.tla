------------------------------ MODULE GpioPage ------------------------------
(***************************************************************************)
(* The GPIO page of app.js in one browser: its websocket, which callbacks  *)
(* of earlier websockets may clear, the menu that saves a pin in two       *)
(* requests, and the form for pull and drive, which is opened and closed   *)
(* after an await. Another browser uses the menu too, and another process  *)
(* may give a pin a function the page knows nothing of.                    *)
(*                                                                         *)
(* The server is what PinBoard promises: a request is done at once, or it  *)
(* fails; a process that comes between its parts is the subject of Gpio.   *)
(* What a page shows, and how late, is the subject of GpioStream: here     *)
(* only the modes in gpioStatusCache matter, of some earlier moment. Of    *)
(* the attributes drive is followed, which is the level of a pin, and of   *)
(* a pull what it makes of the pin's function.                             *)
(***************************************************************************)
EXTENDS Integers, Sequences, SequencesExt

CONSTANTS
  Pins,        \* configurable pins
  NoPin,       \* null
  Browsers,    \* browsers that save with the menu
  Me,          \* the browser whose page is followed
  MaxSockets,  \* bound on the websockets that are created
  MaxClicks,   \* bound on what users and other processes do
  MaxFaults    \* bound on the requests that fail

ASSUME PinsAssumption     == NoPin \notin Pins
ASSUME BrowsersAssumption == Me \in Browsers
ASSUME BoundsAssumption   == {MaxSockets, MaxClicks, MaxFaults} \subseteq Nat

VARIABLES
  pins,            \* what every pin is
  page,            \* currentPage
  sockets,         \* every websocket created so far, by number
  socket,          \* gpioSocket, 0 for null
  cache,           \* the modes in gpioStatusCache
  save,            \* the save of every browser
  current, label,  \* currentAttrGpio, and the pin the form names
  shown,           \* the form is not hidden
  field,           \* the drive in the form
  fetches,         \* GETs of attributes under way
  post,            \* the POST of attributes under way
  clicks, faults,  \* counted against the bounds
  (* history *)
  orphans,  \* sockets that were in the global when another's onclose cleared it
  source,   \* the pin whose attributes filled the form
  overlap,  \* the form was asked for while an earlier use was under way
  wanted    \* per pin, what the saves since it was last left alone have asked for

live    == <<page, sockets, socket, orphans>>
form    == <<current, label, shown, field, source, overlap>>
bounded == <<clicks, faults>>
board   == <<pins, wanted>>
vars    == <<board, live, cache, save, form, fetches, post, bounded>>

Options == {"input", "high", "low"}   \* In, Out High and Out Low of the menu
States  == Options \cup {"other"}
Levels  == {"high", "low"}
Mode(s) == IF s \in Levels THEN "output" ELSE s
Modes   == {Mode(s) : s \in States}

NoSave == [step |-> "idle", pin |-> NoPin, want |-> "none"]
Saves  == [step : {"mode", "value"}, pin : Pins, want : Options] \cup {NoSave}

\* drive is "none" when the POST carries only a pull.
NoPost == [state |-> "idle", pin |-> NoPin, drive |-> "none"]
Posts  == [state : {"sent", "ok", "loaded", "failed"}, pin : Pins, drive : Levels \cup {"none"}]
            \cup {NoPost}
Fetches == [state : {"sent", "done"}, pin : Pins, drive : Levels]

Init ==
  /\ pins \in [Pins -> States]
  /\ page = "other" /\ sockets = <<>> /\ socket = 0
  /\ cache = [p \in Pins |-> "unknown"]
  /\ save = [b \in Browsers |-> NoSave]
  /\ current = NoPin /\ label = NoPin /\ shown = FALSE /\ field = "high"
  /\ fetches = <<>> /\ post = NoPost
  /\ clicks = 0 /\ faults = 0
  /\ orphans = {} /\ source = NoPin /\ overlap = FALSE
  /\ wanted = [p \in Pins |-> {}]

Click == clicks < MaxClicks /\ clicks' = clicks + 1 /\ UNCHANGED faults
Fault == faults < MaxFaults /\ faults' = faults + 1 /\ UNCHANGED clicks

-----------------------------------------------------------------------------
(* switchPage, updateGpioPollingState and ensureGpioSocket. *)

InUse(i) == i # 0 /\ sockets[i] \in {"connecting", "open"}

\* The form covers the page, and the menu that leads elsewhere.
Covered == page = "gpio" /\ shown

OpenPage ==
  /\ ~Covered
  /\ Click
  /\ page' = "gpio"
  /\ IF InUse(socket)
       THEN UNCHANGED <<sockets, socket>>
       ELSE /\ Len(sockets) < MaxSockets
            /\ sockets' = Append(sockets, "connecting")
            /\ socket' = Len(sockets) + 1
  /\ UNCHANGED <<board, orphans, cache, save, form, fetches, post>>

LeavePageKeepingSocket ==
  /\ ~Covered
  /\ page' = "other"
  /\ socket' = 0
  /\ UNCHANGED <<board, sockets, orphans, cache, save, form, fetches, post, bounded>>
LeavePage ==
  /\ ~Covered
  /\ page' = "other"
  /\ sockets' = IF InUse(socket) THEN [sockets EXCEPT ![socket] = "closing"] ELSE sockets
  /\ socket' = 0
  /\ UNCHANGED <<board, orphans, cache, save, form, fetches, post, bounded>>

SocketOpens(i) ==
  /\ sockets[i] = "connecting"
  /\ sockets' = [sockets EXCEPT ![i] = "open"]
  /\ UNCHANGED <<board, page, socket, orphans, cache, save, form, fetches,
                 post, bounded>>

\* onclose, after close() or because the server or the network has gone. It
\* clears the global whichever websocket is there by now.
SocketCloses(i) ==
  /\ sockets[i] # "closed"
  /\ sockets' = [sockets EXCEPT ![i] = "closed"]
  /\ socket' = 0
  /\ orphans' = (IF socket \in {0, i} THEN orphans ELSE orphans \cup {socket}) \ {i}
  /\ UNCHANGED <<board, page, cache, save, form, fetches, post, bounded>>

\* A push, or the reply to a GET of the status, which the timer, opening the page
\* and every successful save send.
Refresh ==
  /\ page = "gpio" \/ \E i \in 1 .. Len(sockets) : sockets[i] = "open"
  /\ cache' = [p \in Pins |-> Mode(pins[p])]
  /\ UNCHANGED <<board, live, save, form, fetches, post, bounded>>

-----------------------------------------------------------------------------
(* applyGpioConfig: POST mode with the level, then, for an output, POST    *)
(* value. A reply is on its way back together with the next request.       *)

Saving(p)    == \E b \in Browsers : save[b].pin = p
Posting(p)   == post.state = "sent" /\ post.pin = p
LeftAlone(p) == ~Saving(p) /\ ~(Posting(p) /\ post.drive # "none")
Ask(p, want) ==
  wanted' = [wanted EXCEPT ![p] = (IF LeftAlone(p) THEN {} ELSE @) \cup want]
Set(p, s)    == pins' = [pins EXCEPT ![p] = s]

Choose(b, p, w) ==
  /\ save[b] = NoSave
  /\ b = Me => page = "gpio" /\ ~shown
  /\ Click
  /\ save' = [save EXCEPT ![b] = [step |-> "mode", pin |-> p, want |-> w]]
  /\ Ask(p, {w})
  /\ UNCHANGED <<pins, live, cache, form, fetches, post>>

ServeModeThenValue(b) ==
  /\ save[b].step = "mode"
  /\ Set(save[b].pin, save[b].want)
  /\ save' = [save EXCEPT ![b].step = "value"]
  /\ UNCHANGED <<wanted, live, cache, form, fetches, post, bounded>>
ServeMode(b) ==
  /\ save[b].step = "mode"
  /\ Set(save[b].pin, save[b].want)
  /\ save' = [save EXCEPT ![b] =
       IF @.want = "input" THEN NoSave ELSE [@ EXCEPT !.step = "value"]]
  /\ UNCHANGED <<wanted, live, cache, form, fetches, post, bounded>>

\* gpio_set_value makes an output of the pin whatever it is by now.
ServeValue(b) ==
  /\ save[b].step = "value"
  /\ Set(save[b].pin, IF save[b].want = "high" THEN "high" ELSE "low")
  /\ save' = [save EXCEPT ![b] = NoSave]
  /\ UNCHANGED <<wanted, live, cache, form, fetches, post, bounded>>

\* The server reports an error, or the network fails before or after the server
\* has done it. What the pin is then counts as one possible end.
SaveFails(b) ==
  /\ save[b] # NoSave
  /\ Fault
  /\ \E s \in {pins[save[b].pin], save[b].want} :
       /\ Set(save[b].pin, s)
       /\ wanted' = [wanted EXCEPT ![save[b].pin] = @ \cup {s}]
  /\ save' = [save EXCEPT ![b] = NoSave]
  /\ UNCHANGED <<live, cache, form, fetches, post>>

-----------------------------------------------------------------------------
(* The form for pull and drive. *)

Attributes(p) == cache[p] \in {"input", "output"}   \* canConfigureAttrs

\* showGpioAttrsForm up to its await.
ShowFormAtOnce(p) ==
  /\ page = "gpio" /\ ~shown
  /\ Attributes(p)
  /\ Click
  /\ current' = p /\ label' = p /\ shown' = TRUE
  /\ fetches' = Append(fetches, [state |-> "sent", pin |-> p, drive |-> "low"])
  /\ overlap' = (fetches # <<>> \/ post # NoPost)
  /\ UNCHANGED <<board, live, cache, save, field, source, post>>
ShowForm(p) ==
  /\ page = "gpio" /\ ~shown
  /\ Attributes(p)
  /\ Click
  /\ current' = p /\ label' = p
  /\ fetches' = Append(fetches, [state |-> "sent", pin |-> p, drive |-> "low"])
  /\ overlap' = (fetches # <<>> \/ post # NoPost)
  /\ UNCHANGED <<board, live, cache, save, shown, field, source, post>>

\* GET attrs. Without an output there is no drive, and the form takes low.
ServeFetch(i) ==
  /\ fetches[i].state = "sent"
  /\ fetches' = [fetches EXCEPT ![i] =
       [state |-> "done", pin |-> @.pin,
        drive |-> IF pins[@.pin] = "high" THEN "high" ELSE "low"]]
  /\ UNCHANGED <<board, live, cache, save, form, post, bounded>>

FetchFailsUnfilled(i) ==
  /\ fetches[i].state = "sent"
  /\ Fault
  /\ fetches' = [fetches EXCEPT ![i].state = "done", ![i].drive = "none"]
  /\ UNCHANGED <<board, live, cache, save, form, post>>
FetchFails(i) ==
  /\ fetches[i].state = "sent"
  /\ Fault
  /\ fetches' = [fetches EXCEPT ![i].state = "done"]
  /\ UNCHANGED <<board, live, cache, save, form, post>>

\* The rest of showGpioAttrsForm, for the pin it was called for.
FillForm(i) ==
  /\ fetches[i].state = "done"
  /\ field' = fetches[i].drive /\ source' = fetches[i].pin
  /\ shown' = TRUE
  /\ fetches' = RemoveAt(fetches, i)
  /\ UNCHANGED <<board, live, cache, save, current, label, overlap, post, bounded>>

EditDrive ==
  /\ Covered
  /\ Click
  /\ field' = IF field = "high" THEN "low" ELSE "high"
  /\ UNCHANGED <<board, live, cache, save, current, label, shown, source, overlap,
                 fetches, post>>

Close == shown' = FALSE /\ current' = NoPin /\ UNCHANGED <<label, field, source, overlap>>

Cancel ==
  /\ Covered
  /\ Close
  /\ UNCHANGED <<board, live, cache, save, fetches, post, bounded>>

\* saveGpioAttrs up to its await: the drive goes along when the cache says that
\* the pin is an output. With no current pin the button does nothing.
SaveAttrs ==
  /\ Covered
  /\ current # NoPin /\ Attributes(current)
  /\ post = NoPost
  /\ Click
  /\ LET drive == IF cache[current] = "output" THEN field ELSE "none" IN
       /\ post' = [state |-> "sent", pin |-> current, drive |-> drive]
       /\ IF drive = "none" THEN UNCHANGED wanted ELSE Ask(current, {drive})
  /\ UNCHANGED <<pins, live, cache, save, form, fetches>>

\* handle_gpio_attrs: the pull, which makes an input of a pin in another
\* function, then the drive, which is skipped unless the pin is an output. Both
\* succeed whatever the pin is.
Pulled(p)        == IF pins[p] = "other" THEN "input" ELSE pins[p]
Driven(p, drive) == IF drive # "none" /\ Pulled(p) \in Levels THEN drive ELSE Pulled(p)

\* What the user has been told, that the attributes are saved, may be less than
\* true: what the pin has become instead of what was asked counts as asked for.
ServePostDriving ==
  /\ post.state = "sent"
  /\ Set(post.pin, IF post.drive = "none" THEN Pulled(post.pin) ELSE post.drive)
  /\ post' = [post EXCEPT !.state = "ok"]
  /\ UNCHANGED <<wanted, live, cache, save, form, fetches, bounded>>
ServePost ==
  /\ post.state = "sent"
  /\ LET p     == post.pin
         after == Driven(p, post.drive)
         asked == IF post.drive = "none" THEN pins[p] ELSE post.drive
     IN /\ Set(p, after)
        /\ wanted' = [wanted EXCEPT ![p] = @ \cup ({after} \ {asked})]
  /\ post' = [post EXCEPT !.state = "ok"]
  /\ UNCHANGED <<live, cache, save, form, fetches, bounded>>

\* The server reports an error, after nothing or the pull has been done, or the
\* request or its reply is lost.
PostFails ==
  /\ post.state = "sent"
  /\ Fault
  /\ \E s \in {pins[post.pin], Pulled(post.pin), Driven(post.pin, post.drive)} :
       /\ Set(post.pin, s)
       /\ wanted' = [wanted EXCEPT ![post.pin] = @ \cup {s}]
  /\ post' = [post EXCEPT !.state = "failed"]
  /\ UNCHANGED <<live, cache, save, form, fetches>>

\* After a reply of success, loadGpioStatus, which swallows its own failure.
AttrsReload ==
  /\ post.state = "ok"
  /\ post' = [post EXCEPT !.state = "loaded"]
  /\ cache' \in {cache, [p \in Pins |-> Mode(pins[p])]}
  /\ UNCHANGED <<board, live, save, form, fetches, bounded>>

\* The rest of saveGpioAttrs. It closes the form, whichever it has become.
AttrsSaved ==
  /\ post.state = "loaded"
  /\ post' = NoPost
  /\ Close
  /\ UNCHANGED <<board, live, cache, save, fetches, bounded>>

AttrsNotSaved ==
  /\ post.state = "failed"
  /\ post' = NoPost
  /\ UNCHANGED <<board, live, cache, save, form, fetches, bounded>>

-----------------------------------------------------------------------------
\* Another process on the machine gives a pin another function, between two
\* requests.
OtherProcess(p) ==
  /\ pins[p] # "other"
  /\ Click
  /\ Set(p, "other")
  /\ wanted' = [wanted EXCEPT ![p] = @ \cup {"other"}]
  /\ UNCHANGED <<live, cache, save, form, fetches, post>>

Network ==
  \/ \E i \in 1 .. Len(sockets) : SocketOpens(i) \/ SocketCloses(i)
  \/ Refresh

Menu ==
  \E b \in Browsers :
    \/ \E p \in Pins, w \in Options : Choose(b, p, w)
    \/ ServeMode(b) \/ ServeValue(b) \/ SaveFails(b)

Form ==
  \/ \E p \in Pins : ShowForm(p)
  \/ \E i \in 1 .. Len(fetches) : ServeFetch(i) \/ FetchFails(i) \/ FillForm(i)
  \/ EditDrive \/ Cancel
  \/ SaveAttrs \/ ServePost \/ PostFails
  \/ AttrsReload \/ AttrsSaved \/ AttrsNotSaved

Next ==
  \/ OpenPage \/ LeavePage \/ Network
  \/ Menu \/ Form
  \/ \E p \in Pins : OtherProcess(p)

Spec == Init /\ [][Next]_vars

-----------------------------------------------------------------------------
TypeOK ==
  /\ pins \in [Pins -> States]
  /\ page \in {"gpio", "other"}
  /\ \A i \in 1 .. Len(sockets) :
       sockets[i] \in {"connecting", "open", "closing", "closed"}
  /\ socket \in 0 .. Len(sockets)
  /\ cache \in [Pins -> Modes \cup {"unknown"}]
  /\ save \in [Browsers -> Saves]
  /\ {current, label, source} \subseteq Pins \cup {NoPin}
  /\ {shown, overlap} \subseteq BOOLEAN /\ field \in Levels
  /\ \A i \in 1 .. Len(fetches) : fetches[i] \in Fetches
  /\ post \in Posts
  /\ clicks \in 0 .. MaxClicks /\ faults \in 0 .. MaxFaults
  /\ orphans \subseteq 1 .. Len(sockets)
  /\ wanted \in [Pins -> SUBSET States]

\* A websocket that is in use is the one in gpioSocket, and so is closed when the
\* page is left, except one that the onclose of an earlier websocket has
\* removed from there.
SocketsAreHeld ==
  \A i \in 1 .. Len(sockets) : InUse(i) => i = socket \/ i \in orphans

\* A save of the menu takes two requests, and another browser may be served
\* between them, or the form: still the pin ends as one of the saves that
\* overlapped has asked for, never as a mixture. A save of the form that posts
\* no drive asks for nothing and disturbs nothing. What counts besides is what a
\* request that failed has left; "other", which another process made of the pin,
\* or the input that a pull of the form then makes of it; and what the pin is
\* when the form's drive is skipped because the pin is no output.
SavesAreWhole ==
  \A p \in Pins : LeftAlone(p) /\ wanted[p] # {} => pins[p] \in wanted[p]

AskedFor(p) ==
  \/ \E b \in Browsers : save[b].pin = p /\ save[b].want = pins'[p]
  \/ Posting(p) /\ post.drive = pins'[p] /\ pins[p] \in Levels
  \/ Posting(p) /\ pins[p] = "other" /\ pins'[p] = "input"
  \/ pins'[p] = "other"

\* A pin becomes nothing, not even for a moment, that no save under way asks for.
\* The form's drive changes the level of an output and makes an output of no
\* other pin, whatever the page's cache said; the form's pull changes the function
\* of a pin only from one that is neither input nor output. Only other processes
\* give a pin such a function.
PinsAreAskedFor == [][\A p \in Pins : pins'[p] # pins[p] => AskedFor(p)]_vars

\* When the form shows, its Save button posts to the pin that the form names, or
\* does nothing; and unless the form was asked for while an earlier fetch or save
\* of it was under way, it does post, and posts what was fetched for that pin.
FormMatchesTarget ==
  shown => /\ current \in {label, NoPin}
           /\ ~overlap => current # NoPin /\ source = current

=============================================================================
