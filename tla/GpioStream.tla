----------------------------- MODULE GpioStream -----------------------------
(***************************************************************************)
(* How the GPIO page of a browser comes to show the pins.                  *)
(*                                                                         *)
(* The server reads a snapshot of all pins, one pinctrl process per pin    *)
(* for mode and value and then one per pin for pull and drive, while the   *)
(* pins go on changing. It does so for GET /api/gpio/status, and at most   *)
(* every 500 ms for the websocket clients, to which it pushes a snapshot   *)
(* that differs from the last one pushed. A page renders whatever arrives, *)
(* a push or a reply, in the order of arrival.                             *)
(***************************************************************************)
EXTENDS Integers, Sequences, FiniteSets

CONSTANTS
  NumPins,     \* the supported pins are 0 .. NumPins - 1, in order
  States,      \* what a read of mode and value may find
  Attrs,       \* what a read of pull and drive may find
  Unknown,     \* what a read that failed leaves
  Pages,       \* browsers that may have the GPIO page open
  NoSnapshot,  \* there is none yet
  MaxChanges,  \* bound on the changes of the pins
  MaxFailures  \* bound on the reads that fail

ASSUME NumPinsAssumption == NumPins \in Nat \ {0}
ASSUME BoundsAssumption  == MaxChanges \in Nat /\ MaxFailures \in Nat
ASSUME UnknownAssumption == Unknown \notin States \cup Attrs

Pins      == 0 .. NumPins - 1
Pin       == [state : States, attrs : Attrs]
PinShown  == [state : States \cup {Unknown}, attrs : Attrs \cup {Unknown}]
Snapshots == [Pins -> PinShown]
Sights    == [Pins -> [state : SUBSET States, attrs : SUBSET Attrs]]
Blank     == [p \in Pins |-> [state |-> Unknown, attrs |-> Unknown]]

\* What the pins have been, when there is no snapshot at work.
Nothing == [p \in Pins |-> [state |-> {}, attrs |-> {}]]

ASSUME NoSnapshotAssumption == NoSnapshot \notin Snapshots

Ticker == "ticker"   \* the snapshot at work is for router_broadcast_...
Nobody == "nobody"   \* no snapshot is at work

ASSUME PagesAssumption == Ticker \notin Pages /\ Nobody \notin Pages

VARIABLES
  world,     \* what the pins are
  changes, failures,   \* counted against the bounds
  (* the server *)
  turn,      \* where the event loop stands: "poll", "broadcast" or "read"
  due,       \* 500 ms have passed since last_gpio_ws_check_ms
  job,       \* for whom the snapshot at work is read
  next,      \* the read to do next: NumPins states, then NumPins attrs
  snap,      \* the snapshot at work
  cache,     \* last_gpio_ws_json
  streams,   \* pages whose websocket the server holds open
  ghost,     \* the server holds a websocket that its page has dropped
  (* the network and the pages *)
  pushed,    \* pushes on their way to a page
  asked,     \* pages whose GET is on its way
  replies,   \* the reply on its way to a page
  view,      \* what a page shows
  (* history *)
  sent,      \* the last push of the websocket that a page has open
  seen       \* what the pins have been since the snapshot at work was begun

environment == <<world, changes, failures>>
reading     == <<job, next, snap, seen>>
loop        == <<turn, due, reading>>
network     == <<pushed, asked, replies>>
vars == <<environment, loop, cache, streams, ghost, network, view, sent>>

-----------------------------------------------------------------------------
Init ==
  /\ world \in [Pins -> Pin]
  /\ changes = 0 /\ failures = 0
  /\ turn = "poll" /\ due = FALSE
  /\ job = Nobody /\ next = 0 /\ snap = Blank
  /\ cache = NoSnapshot
  /\ streams = {} /\ ghost = FALSE
  /\ pushed = [g \in Pages |-> <<>>]
  /\ asked = {}
  /\ replies = [g \in Pages |-> <<>>]
  /\ view = [g \in Pages |-> NoSnapshot]
  /\ sent = [g \in Pages |-> NoSnapshot]
  /\ seen = Nothing

(* The pins and the clock. *)

Change(p, new) ==
  /\ changes < MaxChanges
  /\ new # world[p]
  /\ changes' = changes + 1
  /\ world' = [world EXCEPT ![p] = new]
  /\ seen' = IF turn # "read" THEN seen
             ELSE [seen EXCEPT ![p] = [state |-> @.state \cup {new.state},
                                       attrs |-> @.attrs \cup {new.attrs}]]
  /\ UNCHANGED <<failures, turn, due, job, next, snap, cache, streams, ghost, network,
                 view, sent>>

Clock ==
  /\ ~due
  /\ due' = TRUE
  /\ UNCHANGED <<environment, turn, reading, cache, streams, ghost, network, view,
                 sent>>

-----------------------------------------------------------------------------
(* The server: mg_mgr_poll, then router_broadcast_gpio_if_changed, forever. *)

\* A snapshot begins: gpio_get_all_status.
Now == [p \in Pins |-> [state |-> {world[p].state}, attrs |-> {world[p].attrs}]]

StartReadingOverCache(for) ==
  /\ turn' = "read"
  /\ job' = for
  /\ next' = 0
  /\ snap' = IF cache = NoSnapshot THEN Blank ELSE cache
  /\ seen' = Now
StartReading(for) ==
  /\ turn' = "read"
  /\ job' = for
  /\ next' = 0
  /\ snap' = Blank
  /\ seen' = Now

StopReadingKeepingJob ==
  /\ turn' = "poll"
  /\ UNCHANGED job
  /\ next' = 0
  /\ snap' = Blank
  /\ seen' = Nothing
StopReading ==
  /\ turn' = "poll"
  /\ job' = Nobody
  /\ next' = 0
  /\ snap' = Blank
  /\ seen' = Nothing

\* mg_mgr_poll ends: nothing, or nothing more, to serve.
EndPoll ==
  /\ turn = "poll"
  /\ turn' = "broadcast"
  /\ UNCHANGED <<environment, due, reading, cache, streams, ghost, network, view,
                 sent>>

\* The upgrade of /ws/gpio: the client is marked, and nothing is sent to it.
Upgrade(g) ==
  /\ turn = "poll"
  /\ g \notin streams
  /\ streams' = streams \cup {g}
  /\ UNCHANGED <<environment, loop, cache, ghost, network, view, sent>>

\* mg_mgr_poll finds a connection closed.
Reap ==
  /\ turn = "poll"
  /\ ghost
  /\ ghost' = FALSE
  /\ UNCHANGED <<environment, loop, cache, streams, network, view, sent>>

\* handle_gpio_status
TakeGet(g) ==
  /\ turn = "poll"
  /\ g \in asked
  /\ asked' = asked \ {g}
  /\ StartReading(g)
  /\ UNCHANGED <<environment, due, cache, streams, ghost, pushed, replies, view,
                 sent>>

\* has_gpio_ws_clients
Listened == streams # {} \/ ghost

\* router_broadcast_gpio_if_changed up to its snapshot.
Broadcast ==
  /\ turn = "broadcast"
  /\ due' = FALSE
  /\ IF due /\ Listened
       THEN StartReading(Ticker)
       ELSE turn' = "poll" /\ UNCHANGED reading
  /\ UNCHANGED <<environment, cache, streams, ghost, network, view, sent>>

\* One pinctrl process: pinctrl_get_state first, for every pin, and then
\* gpio_get_attrs for every pin, inside gpio_status_to_json.
Record(part) == /\ next' = next + 1
                /\ snap' = part
                /\ UNCHANGED <<turn, due, job, seen>>

ReadState ==
  /\ turn = "read" /\ next < NumPins
  /\ Record([snap EXCEPT ![next].state = world[next].state])
  /\ UNCHANGED <<environment, cache, streams, ghost, network, view, sent>>

ReadAttrs ==
  /\ turn = "read" /\ next \in NumPins .. 2 * NumPins - 1
  /\ Record([snap EXCEPT ![next - NumPins].attrs = world[next - NumPins].attrs])
  /\ UNCHANGED <<environment, cache, streams, ghost, network, view, sent>>

ReadFails ==
  /\ turn = "read" /\ next < 2 * NumPins
  /\ failures < MaxFailures
  /\ failures' = failures + 1
  /\ Record(snap)
  /\ UNCHANGED <<world, changes, cache, streams, ghost, network, view, sent>>

Complete == turn = "read" /\ next = 2 * NumPins

\* The same poll goes on, with other connections to serve or with none.
AnswerGet ==
  /\ Complete /\ job \in Pages
  /\ replies' = [replies EXCEPT ![job] = Append(@, snap)]
  /\ StopReading
  /\ UNCHANGED <<environment, due, cache, streams, ghost, pushed, asked, view,
                 sent>>

\* The rest of router_broadcast_gpio_if_changed.
UnchangedNever == FALSE
UnchangedStates ==
  cache # NoSnapshot /\ \A p \in Pins : cache[p].state = snap[p].state
Unchanged == cache = snap

ReceiversUninformed == {g \in streams : sent[g] = NoSnapshot}
Receivers == streams

SkipPush ==
  /\ Complete /\ job = Ticker
  /\ Unchanged
  /\ StopReading
  /\ UNCHANGED <<environment, due, cache, streams, ghost, network, view, sent>>

Push ==
  /\ Complete /\ job = Ticker
  /\ ~Unchanged
  /\ cache' = snap
  /\ pushed' = [g \in Pages |->
                  IF g \in Receivers THEN Append(pushed[g], snap) ELSE pushed[g]]
  /\ sent' = [g \in Pages |-> IF g \in Receivers THEN snap ELSE sent[g]]
  /\ StopReading
  /\ UNCHANGED <<environment, due, streams, ghost, asked, replies, view>>

-----------------------------------------------------------------------------
(* The pages. *)

\* loadGpioStatus: on opening the page, on Refresh, after a save, and as the
\* fallback poll. One at a time is enough to overtake a push.
Fetch(g) ==
  /\ g \notin asked /\ replies[g] = <<>> /\ job # g
  /\ asked' = asked \cup {g}
  /\ UNCHANGED <<environment, loop, cache, streams, ghost, pushed, replies, view,
                 sent>>

RenderReply(g) ==
  /\ replies[g] # <<>>
  /\ view' = [view EXCEPT ![g] = Head(replies[g])]
  /\ replies' = [replies EXCEPT ![g] = Tail(@)]
  /\ UNCHANGED <<environment, loop, cache, streams, ghost, pushed, asked, sent>>

\* gpioSocket.onmessage
RenderPushUnlessAsked(g) ==
  /\ pushed[g] # <<>>
  /\ view' = [view EXCEPT ![g] = IF g \in asked THEN @ ELSE Head(pushed[g])]
  /\ pushed' = [pushed EXCEPT ![g] = Tail(@)]
  /\ UNCHANGED <<environment, loop, cache, streams, ghost, asked, replies, sent>>
RenderPush(g) ==
  /\ pushed[g] # <<>>
  /\ view' = [view EXCEPT ![g] = Head(pushed[g])]
  /\ pushed' = [pushed EXCEPT ![g] = Tail(@)]
  /\ UNCHANGED <<environment, loop, cache, streams, ghost, asked, replies, sent>>

\* The page is left or the connection is lost. The server learns of it later.
Disconnect(g) ==
  /\ g \in streams
  /\ streams' = streams \ {g}
  /\ ghost' = TRUE
  /\ pushed' = [pushed EXCEPT ![g] = <<>>]
  /\ sent' = [sent EXCEPT ![g] = NoSnapshot]
  /\ UNCHANGED <<environment, loop, cache, asked, replies, view>>

Server ==
  \/ EndPoll \/ Reap
  \/ \E g \in Pages : Upgrade(g) \/ TakeGet(g)
  \/ Broadcast
  \/ ReadState \/ ReadAttrs \/ ReadFails
  \/ AnswerGet \/ SkipPush \/ Push

Render(g) == RenderReply(g) \/ RenderPush(g)

Next ==
  \/ \E p \in Pins, new \in Pin : Change(p, new)
  \/ Clock
  \/ Server
  \/ \E g \in Pages : Fetch(g) \/ Render(g) \/ Disconnect(g)

Spec == Init /\ [][Next]_vars

\* The event loop never stops, a poll serves every connection that is ready and,
\* as mg_mgr_poll goes through its connections once, comes to its end however
\* many GETs it has served; time passes, and what is on its way arrives.
Fairness ==
  /\ WF_vars(Server) /\ SF_vars(EndPoll)
  /\ WF_vars(Clock)
  /\ \A g \in Pages :
       SF_vars(TakeGet(g)) /\ WF_vars(RenderReply(g)) /\ WF_vars(RenderPush(g))

FairSpec == Spec /\ Fairness

-----------------------------------------------------------------------------
TypeOK ==
  /\ world \in [Pins -> Pin]
  /\ changes \in 0 .. MaxChanges /\ failures \in 0 .. MaxFailures
  /\ turn \in {"poll", "broadcast", "read"}
  /\ due \in BOOLEAN /\ ghost \in BOOLEAN
  /\ job \in Pages \cup {Ticker, Nobody}
  /\ (job = Nobody) = (turn # "read")
  /\ next \in 0 .. 2 * NumPins
  /\ snap \in Snapshots
  /\ cache \in Snapshots \cup {NoSnapshot}
  /\ streams \subseteq Pages
  /\ asked \subseteq Pages
  /\ pushed \in [Pages -> Seq(Snapshots)]
  /\ replies \in [Pages -> Seq(Snapshots)]
  /\ view \in [Pages -> Snapshots \cup {NoSnapshot}]
  /\ sent \in [Pages -> Snapshots \cup {NoSnapshot}]
  /\ seen \in Sights

\* The cache stands for what every client of the stream has been told, however
\* they come and go: the comparison in router_broadcast_gpio_if_changed is one
\* for all of them.
PushedIsCache == \A g \in streams : sent[g] \in {NoSnapshot, cache}

\* A page that has just caught up with its pushes shows the server's cache: no
\* older push can come last.
CaughtUpShowsCache ==
  [][\A g \in Pages : g \in streams' /\ pushed[g] # <<>> /\ pushed'[g] = <<>>
       => view'[g] = cache']_vars

\* No client is sent the same snapshot twice in a row.
PushesDiffer ==
  [][\A g \in Pages : Len(pushed'[g]) > Len(pushed[g]) => sent'[g] # sent[g]]_vars

\* Every snapshot that is published or answers a page holds of every pin what it
\* was while the snapshot was read, although it is read in many steps, some of
\* which fail, and in memory that held another; it goes to all who listen,
\* in order, unless it is what they have been told last. This is what PinFeed
\* says.
Feed == INSTANCE PinFeed WITH last <- cache, listeners <- streams, queue <- pushed
ImplementsFeed == Feed!Spec

\* Once the pins stay as they are, the cache becomes true of them while a page
\* stays connected, and so does the last push of every page that got one, even
\* if snapshots were torn by a change or spoilt by a failed read before.
PushesConverge ==
  \A g \in Pages :
    <>[](g \in streams) => <>[](cache = world /\ sent[g] \in {NoSnapshot, world})

\* What the comment "no change, skip push" and the page's "Realtime connected"
\* claim: a page that stays connected comes to show the pins as they are.
ConnectedViewConverges ==
  \A g \in Pages :
    <>[](g \in streams) => <>[](view[g] \in {NoSnapshot, world})

=============================================================================
