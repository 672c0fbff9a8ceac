-------------------------- MODULE GpioStream_proofs --------------------------
(***************************************************************************)
(* Proofs about GpioStream for any number of pins and browsers, any states *)
(* and attributes, and any number of changes and failures.                 *)
(***************************************************************************)
EXTENDS GpioStream, SequenceTheorems, TLAPS

(* Lemmas on snapshots and on queues of them. *)

LEMMA BlankType == Blank \in Snapshots
  BY DEF Blank, Snapshots, PinShown

LEMMA SightTypes ==
  /\ Nothing \in Sights
  /\ world \in [Pins -> Pin] => Now \in Sights
BY DEF Nothing, Now, Sights, Pin

LEMMA WorldIsSnapshot == ASSUME NEW w \in [Pins -> Pin] PROVE w \in Snapshots
  BY DEF Pin, PinShown, Snapshots

\* A read replaces one part of one pin.
LEMMA PartType ==
  ASSUME NEW s \in Snapshots, NEW w \in [Pins -> Pin], NEW p \in Pins
  PROVE  /\ [s EXCEPT ![p].state = w[p].state] \in Snapshots
         /\ [s EXCEPT ![p].attrs = w[p].attrs] \in Snapshots
<1>1. s[p] \in PinShown /\ w[p] \in Pin
  BY DEF Snapshots
<1>2. /\ [s[p] EXCEPT !.state = w[p].state] \in PinShown
      /\ [s[p] EXCEPT !.attrs = w[p].attrs] \in PinShown
  BY <1>1 DEF Pin, PinShown
<1>3. QED
  BY <1>2 DEF Snapshots

LEMMA AppendLast ==
  ASSUME NEW S, NEW q \in Seq(S), NEW x \in S
  PROVE  /\ Append(q, x) \in Seq(S) /\ Append(q, x) # <<>>
         /\ Append(q, x)[Len(Append(q, x))] = x
         /\ Len(Append(q, x)) > Len(q)
  OBVIOUS

\* A queue that is consumed keeps its last element to the end.
LEMMA TailLast ==
  ASSUME NEW S, NEW q \in Seq(S), q # <<>>
  PROVE  /\ Head(q) \in S /\ Tail(q) \in Seq(S)
         /\ Len(Tail(q)) < Len(q)
         /\ Tail(q) = <<>> => Head(q) = q[Len(q)]
         /\ Tail(q) # <<>> => Tail(q)[Len(Tail(q))] = q[Len(q)]
<1>1. Len(q) \in Nat \ {0}
  BY EmptySeq
<1>2. /\ Head(q) \in S /\ Tail(q) \in Seq(S) /\ Len(Tail(q)) = Len(q) - 1
      /\ \A i \in 1 .. Len(Tail(q)) : Tail(q)[i] = q[i + 1]
  BY HeadTailProperties
<1>3. Tail(q) = <<>> => Head(q) = q[Len(q)]
  <2>1. Tail(q) = <<>> => Len(Tail(q)) = 0
    BY EmptySeq
  <2>2. Head(q) = q[1]
    OBVIOUS
  <2>3. QED
    BY <1>1, <1>2, <2>1, <2>2
<1>4. Tail(q) # <<>> => Tail(q)[Len(Tail(q))] = q[Len(q)]
  <2>1. Tail(q) # <<>> => Len(Tail(q)) \in Nat \ {0}
    BY <1>2, EmptySeq
  <2>2. QED
    BY <1>1, <1>2, <2>1
<1>5. QED
  BY <1>1, <1>2, <1>3, <1>4

-----------------------------------------------------------------------------
(* The inductive invariant. *)

\* A page without a websocket has been sent nothing on it; the last push on its
\* way to a page is the cache.
QueueInv ==
  \A g \in Pages :
    /\ g \notin streams => pushed[g] = <<>> /\ sent[g] = NoSnapshot
    /\ pushed[g] # <<>> => pushed[g][Len(pushed[g])] = cache

Inv == TypeOK /\ QueueInv /\ PushedIsCache

LEMMA InvInit == Init => Inv
<1> SUFFICES ASSUME Init PROVE Inv
  OBVIOUS
<1> USE DEF Init
<1>1. TypeOK
  <2>1. 0 \in 0 .. MaxChanges /\ 0 \in 0 .. MaxFailures /\ 0 \in 0 .. 2 * NumPins
    BY BoundsAssumption, NumPinsAssumption
  <2>2. pushed \in [Pages -> Seq(Snapshots)] /\ replies \in [Pages -> Seq(Snapshots)]
    OBVIOUS
  <2>3. /\ view \in [Pages -> Snapshots \cup {NoSnapshot}]
        /\ sent \in [Pages -> Snapshots \cup {NoSnapshot}]
    OBVIOUS
  <2>4. QED
    BY <2>1, <2>2, <2>3, BlankType, SightTypes DEF TypeOK
<1>2. QueueInv /\ PushedIsCache
  BY DEF QueueInv, PushedIsCache
<1>3. QED
  BY <1>1, <1>2 DEF Inv

-----------------------------------------------------------------------------
(* Steps that touch no queue of pushes. *)

Quiet == UNCHANGED <<cache, pushed, sent>> /\ (streams' = streams)

LEMMA QuietInv ==
  ASSUME Inv, Quiet PROVE QueueInv' /\ PushedIsCache'
  BY DEF Inv, Quiet, QueueInv, PushedIsCache

LEMMA EnvironmentInv ==
  Inv /\ (Clock \/ \E p \in Pins, new \in Pin : Change(p, new)) => Inv'
<1> USE DEF Inv
<1>1. ASSUME Inv, Clock PROVE Inv'
  <2>1. TypeOK'
    BY <1>1 DEF Clock, environment, reading, network, TypeOK
  <2>2. Quiet
    BY <1>1 DEF Clock, network, Quiet
  <2>3. QED
    BY <1>1, <2>1, <2>2, QuietInv
<1>2. ASSUME Inv, NEW p \in Pins, NEW new \in Pin, Change(p, new) PROVE Inv'
  <2>1. seen' \in Sights
    <3> DEFINE s == [state |-> seen[p].state \cup {new.state},
                     attrs |-> seen[p].attrs \cup {new.attrs}]
    <3>0. seen \in Sights
      BY <1>2 DEF TypeOK
    <3>1. s \in [state : SUBSET States, attrs : SUBSET Attrs]
      <4>1. seen[p] \in [state : SUBSET States, attrs : SUBSET Attrs]
        BY <3>0 DEF Sights
      <4>2. new.state \in States /\ new.attrs \in Attrs
        BY DEF Pin
      <4>3. QED
        BY <4>1, <4>2
    <3>2. seen' = seen \/ seen' = [seen EXCEPT ![p] = s]
      BY <1>2 DEF Change
    <3> HIDE DEF s
    <3>3. QED
      BY <3>0, <3>1, <3>2 DEF Sights
  <2>2. changes' \in 0 .. MaxChanges /\ world' \in [Pins -> Pin]
    BY <1>2, BoundsAssumption DEF Change, TypeOK
  <2>3. TypeOK'
    BY <1>2, <2>1, <2>2 DEF Change, network, TypeOK
  <2>4. Quiet
    BY <1>2 DEF Change, network, Quiet
  <2>5. QED
    BY <1>2, <2>3, <2>4, QuietInv
<1>3. QED
  BY <1>1, <1>2

\* The places of the event loop where no snapshot is complete.
LEMMA LoopInv ==
  Inv /\ (EndPoll \/ Reap \/ Broadcast \/ ReadState \/ ReadAttrs \/ ReadFails) => Inv'
<1> SUFFICES ASSUME Inv, EndPoll \/ Reap \/ Broadcast \/ ReadState \/ ReadAttrs \/ ReadFails
             PROVE  Inv'
  OBVIOUS
<1> USE DEF Inv
<1>1. Quiet
  BY DEF EndPoll, Reap, Broadcast, ReadState, ReadAttrs, ReadFails, network, loop, reading, Quiet
<1>2. QueueInv' /\ PushedIsCache'
  BY <1>1, QuietInv
<1>3. CASE EndPoll
  BY <1>2, <1>3 DEF EndPoll, environment, reading, network, TypeOK
<1>4. CASE Reap
  BY <1>2, <1>4 DEF Reap, environment, loop, reading, network, TypeOK
<1>5. CASE Broadcast
  <2>1. CASE StartReading(Ticker)
    <3>1. next' \in 0 .. 2 * NumPins /\ snap' \in Snapshots /\ seen' \in Sights
      BY <2>1, BlankType, SightTypes, NumPinsAssumption DEF StartReading, TypeOK
    <3>2. TypeOK'
      BY <1>5, <2>1, <3>1
         DEF Broadcast, StartReading, environment, network, TypeOK, Ticker, Nobody
    <3>3. QED
      BY <1>2, <3>2
  <2>2. CASE turn' = "poll" /\ UNCHANGED reading
    <3>1. TypeOK'
      BY <1>5, <2>2 DEF Broadcast, environment, reading, network, TypeOK
    <3>2. QED
      BY <1>2, <3>1
  <2>3. QED
    BY <1>5, <2>1, <2>2 DEF Broadcast
<1>6. CASE ReadState
  <2>1. next \in Pins /\ next' \in 0 .. 2 * NumPins
    BY <1>6, NumPinsAssumption DEF ReadState, Record, TypeOK, Pins
  <2>2. snap' \in Snapshots
    BY <1>6, <2>1, PartType DEF ReadState, Record, TypeOK
  <2>3. TypeOK'
    BY <1>6, <2>1, <2>2 DEF ReadState, Record, environment, network, TypeOK
  <2>4. QED
    BY <1>2, <2>3
<1>7. CASE ReadAttrs
  <2>1. next - NumPins \in Pins /\ next' \in 0 .. 2 * NumPins
    BY <1>7, NumPinsAssumption DEF ReadAttrs, Record, TypeOK, Pins
  <2>2. snap' \in Snapshots
    BY <1>7, <2>1, PartType DEF ReadAttrs, Record, TypeOK
  <2>3. TypeOK'
    BY <1>7, <2>1, <2>2 DEF ReadAttrs, Record, environment, network, TypeOK
  <2>4. QED
    BY <1>2, <2>3
<1>8. CASE ReadFails
  <2>1. next' \in 0 .. 2 * NumPins /\ failures' \in 0 .. MaxFailures
    BY <1>8, NumPinsAssumption, BoundsAssumption DEF ReadFails, Record, TypeOK
  <2>2. TypeOK'
    BY <1>8, <2>1 DEF ReadFails, Record, network, TypeOK
  <2>3. QED
    BY <1>2, <2>2
<1>9. QED
  BY <1>3, <1>4, <1>5, <1>6, <1>7, <1>8

\* GETs: taken, answered, sent and rendered.
LEMMA GetInv ==
  ASSUME Inv, NEW g \in Pages, TakeGet(g) \/ AnswerGet \/ Fetch(g) \/ RenderReply(g)
  PROVE  Inv'
<1> USE DEF Inv
<1>1. Quiet
  BY DEF TakeGet, AnswerGet, Fetch, RenderReply, environment, loop, reading, Quiet
<1>2. QueueInv' /\ PushedIsCache'
  BY <1>1, QuietInv
<1>3. CASE TakeGet(g)
  <2>1. /\ job' # Nobody /\ next' \in 0 .. 2 * NumPins /\ snap' \in Snapshots
        /\ seen' \in Sights
    BY <1>3, BlankType, SightTypes, NumPinsAssumption, PagesAssumption
       DEF TakeGet, StartReading, TypeOK
  <2>2. TypeOK'
    BY <1>3, <2>1 DEF TakeGet, StartReading, environment, TypeOK
  <2>3. QED
    BY <1>2, <2>2
<1>4. CASE AnswerGet
  <2>1. next' \in 0 .. 2 * NumPins /\ snap' \in Snapshots /\ seen' \in Sights
    BY <1>4, BlankType, SightTypes, NumPinsAssumption DEF AnswerGet, StopReading
  <2>2. replies' \in [Pages -> Seq(Snapshots)]
    <3>1. replies[job] \in Seq(Snapshots) /\ snap \in Snapshots
      BY <1>4 DEF AnswerGet, TypeOK
    <3>2. Append(replies[job], snap) \in Seq(Snapshots)
      BY <3>1, AppendLast
    <3>3. QED
      BY <1>4, <3>2 DEF AnswerGet, TypeOK
  <2>3. TypeOK'
    BY <1>4, <2>1, <2>2 DEF AnswerGet, StopReading, environment, TypeOK
  <2>4. QED
    BY <1>2, <2>3
<1>5. CASE Fetch(g)
  BY <1>2, <1>5 DEF Fetch, environment, loop, reading, TypeOK
<1>6. CASE RenderReply(g)
  <2>1. replies[g] \in Seq(Snapshots) /\ replies[g] # <<>>
    BY <1>6 DEF RenderReply, TypeOK
  <2>2. Head(replies[g]) \in Snapshots /\ Tail(replies[g]) \in Seq(Snapshots)
    BY <2>1, TailLast
  <2>3. /\ view' \in [Pages -> Snapshots \cup {NoSnapshot}]
        /\ replies' \in [Pages -> Seq(Snapshots)]
    BY <1>6, <2>2 DEF RenderReply, TypeOK
  <2>4. TypeOK'
    BY <1>6, <2>3 DEF RenderReply, environment, loop, reading, TypeOK
  <2>5. QED
    BY <1>2, <2>4
<1>7. QED
  BY <1>3, <1>4, <1>5, <1>6

-----------------------------------------------------------------------------
(* Websockets and pushes. *)

LEMMA SocketInv ==
  ASSUME Inv, NEW g \in Pages, Upgrade(g) \/ Disconnect(g)
  PROVE  Inv'
<1> USE DEF Inv
<1>1. CASE Upgrade(g)
  <2>1. TypeOK'
    BY <1>1 DEF Upgrade, environment, loop, reading, network, TypeOK
  <2>2. QueueInv' /\ PushedIsCache'
    BY <1>1 DEF Upgrade, network, QueueInv, PushedIsCache
  <2>3. QED
    BY <2>1, <2>2
<1>2. CASE Disconnect(g)
  <2>1. /\ pushed' \in [Pages -> Seq(Snapshots)]
        /\ sent' \in [Pages -> Snapshots \cup {NoSnapshot}]
    BY <1>2 DEF Disconnect, TypeOK
  <2>2. TypeOK'
    BY <1>2, <2>1 DEF Disconnect, environment, loop, reading, TypeOK
  <2>3. QueueInv' /\ PushedIsCache'
    BY <1>2 DEF Disconnect, QueueInv, PushedIsCache, TypeOK
  <2>4. QED
    BY <2>2, <2>3
<1>3. QED
  BY <1>1, <1>2

LEMMA SkipInv == Inv /\ SkipPush => Inv'
<1> SUFFICES ASSUME Inv, SkipPush PROVE Inv'
  OBVIOUS
<1> USE DEF Inv
<1>1. next' \in 0 .. 2 * NumPins /\ snap' \in Snapshots /\ seen' \in Sights
  BY BlankType, SightTypes, NumPinsAssumption DEF SkipPush, StopReading
<1>2. TypeOK'
  BY <1>1 DEF SkipPush, StopReading, environment, network, TypeOK
<1>3. Quiet
  BY DEF SkipPush, network, Quiet
<1>4. QED
  BY <1>2, <1>3, QuietInv

LEMMA PushInv == Inv /\ Push => Inv'
<1> SUFFICES ASSUME Inv, Push PROVE Inv'
  OBVIOUS
<1> USE DEF Inv
<1>1. snap \in Snapshots /\ cache' = snap /\ streams' = streams
  BY DEF Push, TypeOK
<1>2. ASSUME NEW g \in Pages
      PROVE  /\ pushed'[g] \in Seq(Snapshots)
             /\ sent'[g] \in Snapshots \cup {NoSnapshot}
             /\ g \in streams => /\ pushed'[g][Len(pushed'[g])] = snap
                                 /\ sent'[g] = snap
             /\ g \notin streams => pushed'[g] = <<>> /\ sent'[g] = NoSnapshot
  <2>1. pushed[g] \in Seq(Snapshots) /\ sent[g] \in Snapshots \cup {NoSnapshot}
    BY DEF TypeOK
  <2>2. /\ Append(pushed[g], snap) \in Seq(Snapshots)
        /\ Append(pushed[g], snap)[Len(Append(pushed[g], snap))] = snap
    BY <1>1, <2>1, AppendLast
  <2>3. /\ pushed'[g] = IF g \in streams THEN Append(pushed[g], snap) ELSE pushed[g]
        /\ sent'[g] = IF g \in streams THEN snap ELSE sent[g]
    BY DEF Push, Receivers
  <2>4. g \notin streams => pushed[g] = <<>> /\ sent[g] = NoSnapshot
    BY DEF QueueInv
  <2>5. QED
    BY <1>1, <2>1, <2>2, <2>3, <2>4
<1>3. TypeOK'
  <2>1. next' \in 0 .. 2 * NumPins /\ snap' \in Snapshots /\ seen' \in Sights
    BY BlankType, SightTypes, NumPinsAssumption DEF Push, StopReading
  <2>2. /\ pushed' \in [Pages -> Seq(Snapshots)]
        /\ sent' \in [Pages -> Snapshots \cup {NoSnapshot}]
    <3>1. /\ pushed' = [g \in Pages |-> pushed'[g]]
          /\ sent' = [g \in Pages |-> sent'[g]]
      BY DEF Push
    <3>2. QED
      BY <1>2, <3>1
  <2>3. QED
    BY <1>1, <2>1, <2>2 DEF Push, StopReading, environment, TypeOK
<1>4. QueueInv' /\ PushedIsCache'
  BY <1>1, <1>2 DEF QueueInv, PushedIsCache, TypeOK
<1>5. QED
  BY <1>3, <1>4

LEMMA RenderPushInv ==
  ASSUME Inv, NEW g \in Pages, RenderPush(g)
  PROVE  Inv'
<1> USE DEF Inv
<1>1. pushed[g] \in Seq(Snapshots) /\ pushed[g] # <<>>
  BY DEF RenderPush, TypeOK
<1>2. /\ Head(pushed[g]) \in Snapshots /\ Tail(pushed[g]) \in Seq(Snapshots)
      /\ Tail(pushed[g]) # <<>> =>
           Tail(pushed[g])[Len(Tail(pushed[g]))] = pushed[g][Len(pushed[g])]
  BY <1>1, TailLast
<1>3. /\ pushed' = [pushed EXCEPT ![g] = Tail(pushed[g])]
      /\ view' = [view EXCEPT ![g] = Head(pushed[g])]
      /\ UNCHANGED <<cache, streams, sent>>
  BY DEF RenderPush
<1>4. TypeOK'
  <2>1. /\ pushed' \in [Pages -> Seq(Snapshots)]
        /\ view' \in [Pages -> Snapshots \cup {NoSnapshot}]
    BY <1>2, <1>3 DEF TypeOK
  <2>2. QED
    BY <2>1 DEF RenderPush, environment, loop, reading, TypeOK
<1>5. QueueInv'
  <2>1. g \in streams /\ pushed[g][Len(pushed[g])] = cache
    BY <1>1 DEF QueueInv
  <2>2. ASSUME NEW h \in Pages
        PROVE  /\ h \notin streams' => pushed'[h] = <<>> /\ sent'[h] = NoSnapshot
               /\ pushed'[h] # <<>> => pushed'[h][Len(pushed'[h])] = cache'
    <3>1. CASE h = g
      BY <1>2, <1>3, <2>1, <3>1 DEF TypeOK
    <3>2. CASE h # g
      BY <1>3, <3>2 DEF QueueInv, TypeOK
    <3>3. QED
      BY <3>1, <3>2
  <2>3. QED
    BY <2>2 DEF QueueInv
<1>6. PushedIsCache'
  BY <1>3 DEF PushedIsCache
<1>7. QED
  BY <1>4, <1>5, <1>6

-----------------------------------------------------------------------------
LEMMA InvNext == Inv /\ [Next]_vars => Inv'
<1> SUFFICES ASSUME Inv, [Next]_vars PROVE Inv'
  OBVIOUS
<1>1. CASE Clock \/ \E p \in Pins, new \in Pin : Change(p, new)
  BY <1>1, EnvironmentInv
<1>2. CASE Server
  <2>1. CASE EndPoll \/ Reap \/ Broadcast \/ ReadState \/ ReadAttrs \/ ReadFails
    BY <2>1, LoopInv
  <2>2. CASE \E g \in Pages : Upgrade(g) \/ TakeGet(g)
    BY <2>2, SocketInv, GetInv
  <2>3. CASE AnswerGet
    <3>1. job \in Pages
      BY <2>3 DEF AnswerGet
    <3>2. QED
      BY <2>3, <3>1, GetInv
  <2>4. CASE SkipPush \/ Push
    BY <2>4, SkipInv, PushInv
  <2>5. QED
    BY <1>2, <2>1, <2>2, <2>3, <2>4 DEF Server
<1>3. CASE \E g \in Pages : Fetch(g) \/ Render(g) \/ Disconnect(g)
  BY <1>3, GetInv, RenderPushInv, SocketInv DEF Render
<1>4. CASE UNCHANGED vars
  <2>1. TypeOK'
    BY <1>4 DEF vars, environment, loop, reading, network, Inv, TypeOK
  <2>2. Quiet
    BY <1>4 DEF vars, network, Quiet
  <2>3. QED
    BY <2>1, <2>2, QuietInv DEF Inv
<1>5. QED
  BY <1>1, <1>2, <1>3, <1>4 DEF Next

LEMMA InvAlways == Spec => []Inv
  BY InvInit, InvNext, PTL DEF Spec

\* Every snapshot that is built, stored, sent or shown has an entry for every pin,
\* and one is being read exactly while the loop is in a read.
THEOREM TypeCorrect == Spec => []TypeOK
<1>1. Inv => TypeOK
  BY DEF Inv
<1>2. QED
  BY <1>1, InvAlways, PTL

\* One last_gpio_ws_json is enough for all clients: each of them has been sent
\* nothing yet, or last what is in there, for any number of clients that come and
\* go between any two steps of the loop.
THEOREM CacheStandsForClients == Spec => []PushedIsCache
<1>1. Inv => PushedIsCache
  BY DEF Inv
<1>2. QED
  BY <1>1, InvAlways, PTL

\* Only Push lengthens a queue, and it sends what is not in the cache.
LEMMA PushDiffers ==
  ASSUME Inv, [Next]_vars, NEW g \in Pages, Len(pushed'[g]) > Len(pushed[g])
  PROVE  sent'[g] # sent[g]
<1>1. pushed[g] \in Seq(Snapshots) /\ Len(pushed[g]) \in Nat
  BY DEF Inv, TypeOK
<1>2. pushed' # pushed
  BY <1>1
<1>3. CASE Push
  <2>1. snap \in Snapshots /\ cache # snap /\ snap # NoSnapshot
    BY <1>3, NoSnapshotAssumption DEF Push, Unchanged, Inv, TypeOK
  <2>2. /\ pushed'[g] = IF g \in streams THEN Append(pushed[g], snap) ELSE pushed[g]
        /\ sent'[g] = IF g \in streams THEN snap ELSE sent[g]
    BY <1>3 DEF Push, Receivers
  <2>3. g \in streams
    BY <1>1, <2>2
  <2>4. QED
    BY <2>1, <2>2, <2>3 DEF Inv, PushedIsCache
<1>4. ASSUME NEW h \in Pages, RenderPush(h) PROVE FALSE
  <2>1. pushed' = [pushed EXCEPT ![h] = Tail(pushed[h])] /\ pushed[h] # <<>>
    BY <1>4 DEF RenderPush
  <2>2. pushed[h] \in Seq(Snapshots) /\ pushed \in [Pages -> Seq(Snapshots)]
    BY DEF Inv, TypeOK
  <2>3. Len(Tail(pushed[h])) < Len(pushed[h])
    BY <2>1, <2>2, TailLast
  <2>4. Len(Tail(pushed[h])) \in Nat
    BY <2>1, <2>2, TailLast
  <2>5. QED
    BY <1>1, <2>1, <2>2, <2>3, <2>4
<1>5. ASSUME NEW h \in Pages, Disconnect(h) PROVE FALSE
  <2>1. pushed' = [pushed EXCEPT ![h] = <<>>] /\ pushed \in [Pages -> Seq(Snapshots)]
    BY <1>5 DEF Disconnect, Inv, TypeOK
  <2>2. QED
    BY <1>1, <2>1
<1>6. CASE UNCHANGED vars
  BY <1>2, <1>6 DEF vars, network
<1>7. QED
  BY <1>2, <1>3, <1>4, <1>5, <1>6
     DEF Next, Server, Render, Change, Clock, EndPoll, Reap, Upgrade, TakeGet, Broadcast,
         ReadState, ReadAttrs, ReadFails, AnswerGet, SkipPush, Fetch, RenderReply, network

\* No client is sent the same snapshot twice in a row.
THEOREM PushesAreNews == Spec => PushesDiffer
<1>1. Inv /\ [Next]_vars =>
        [\A g \in Pages : Len(pushed'[g]) > Len(pushed[g]) => sent'[g] # sent[g]]_vars
  BY PushDiffers
<1>2. QED
  BY <1>1, InvAlways, PTL DEF Spec, PushesDiffer

\* The queue of a page that stays connected gets empty by rendering only.
LEMMA CatchingUp ==
  ASSUME Inv, [Next]_vars, NEW g \in Pages,
         g \in streams', pushed[g] # <<>>, pushed'[g] = <<>>
  PROVE  view'[g] = cache'
<1>1. pushed[g] \in Seq(Snapshots) /\ pushed' # pushed
  BY DEF Inv, TypeOK
<1>2. CASE Push
  <2>1. pushed'[g] = IF g \in streams THEN Append(pushed[g], snap) ELSE pushed[g]
    BY <1>2 DEF Push, Receivers
  <2>2. snap \in Snapshots
    BY DEF Inv, TypeOK
  <2>3. Append(pushed[g], snap) # <<>>
    BY <1>1, <2>2, AppendLast
  <2>4. QED
    BY <2>1, <2>3
<1>3. ASSUME NEW h \in Pages, RenderPush(h) PROVE view'[g] = cache'
  <2>1. /\ pushed' = [pushed EXCEPT ![h] = Tail(pushed[h])]
        /\ view' = [view EXCEPT ![h] = Head(pushed[h])] /\ cache' = cache
    BY <1>3 DEF RenderPush
  <2>2. pushed \in [Pages -> Seq(Snapshots)] /\ DOMAIN view = Pages
    BY DEF Inv, TypeOK
  <2>3. h = g /\ Tail(pushed[g]) = <<>>
    BY <2>1, <2>2
  <2>4. Head(pushed[g]) = pushed[g][Len(pushed[g])]
    BY <1>1, <2>3, TailLast
  <2>5. pushed[g][Len(pushed[g])] = cache
    BY DEF Inv, QueueInv
  <2>6. QED
    BY <2>1, <2>2, <2>3, <2>4, <2>5
<1>4. ASSUME NEW h \in Pages, Disconnect(h) PROVE FALSE
  <2>1. /\ pushed' = [pushed EXCEPT ![h] = <<>>] /\ streams' = streams \ {h}
        /\ pushed \in [Pages -> Seq(Snapshots)]
    BY <1>4 DEF Disconnect, Inv, TypeOK
  <2>2. QED
    BY <2>1
<1>5. CASE UNCHANGED vars
  BY <1>1, <1>5 DEF vars, network
<1>6. QED
  BY <1>1, <1>2, <1>3, <1>4, <1>5
     DEF Next, Server, Render, Change, Clock, EndPoll, Reap, Upgrade, TakeGet, Broadcast,
         ReadState, ReadAttrs, ReadFails, AnswerGet, SkipPush, Fetch, RenderReply, network

\* A page that has taken up all its pushes shows what is in the server's cache: no
\* push overtakes another, and none is left out.
THEOREM CaughtUpPagesAgree == Spec => CaughtUpShowsCache
<1>1. Inv /\ [Next]_vars =>
        [\A g \in Pages : g \in streams' /\ pushed[g] # <<>> /\ pushed'[g] = <<>>
           => view'[g] = cache']_vars
  BY CatchingUp
<1>2. QED
  BY <1>1, InvAlways, PTL DEF Spec, CaughtUpShowsCache

-----------------------------------------------------------------------------
(* GpioStream implements PinFeed. *)

LEMMA SameSets == Feed!Nothing = Nothing /\ Feed!Pin = Pin /\ Feed!PinShown = PinShown
  BY DEF Feed!Nothing, Nothing, Feed!Pin, Pin, Feed!PinShown, PinShown

\* What a pin is now it has been while the snapshot is read, and the snapshot holds
\* of it only what it has been.
SightOf(p) ==
  /\ world[p].state \in seen[p].state
  /\ world[p].attrs \in seen[p].attrs
  /\ snap[p].state \in seen[p].state \cup {Unknown}
  /\ snap[p].attrs \in seen[p].attrs \cup {Unknown}

SeenInv ==
  /\ turn # "read" => seen = Nothing
  /\ turn = "read" => \A p \in Pins : SightOf(p)

LEMMA SeenSomething ==
  ASSUME SeenInv, turn = "read"
  PROVE  seen # Nothing
<1>1. 0 \in Pins
  BY NumPinsAssumption DEF Pins
<1>2. world[0].state \in seen[0].state
  BY <1>1 DEF SeenInv, SightOf
<1>3. QED
  BY <1>1, <1>2 DEF Nothing

\* The parts of a snapshot of which one is replaced.
LEMMA PartFields ==
  ASSUME NEW s \in Snapshots, NEW p \in Pins, NEW q \in Pins, NEW x
  PROVE  /\ [s EXCEPT ![p].state = x][q].state = (IF p = q THEN x ELSE s[q].state)
         /\ [s EXCEPT ![p].state = x][q].attrs = s[q].attrs
         /\ [s EXCEPT ![p].attrs = x][q].attrs = (IF p = q THEN x ELSE s[q].attrs)
         /\ [s EXCEPT ![p].attrs = x][q].state = s[q].state
<1>1. s[p] \in PinShown /\ DOMAIN s = Pins
  BY DEF Snapshots
<1>2. /\ [s[p] EXCEPT !.state = x].state = x
      /\ [s[p] EXCEPT !.state = x].attrs = s[p].attrs
      /\ [s[p] EXCEPT !.attrs = x].attrs = x
      /\ [s[p] EXCEPT !.attrs = x].state = s[p].state
  BY <1>1 DEF PinShown
<1>3. QED
  BY <1>1, <1>2

LEMMA SeenInit == Init => SeenInv
  BY DEF Init, SeenInv

LEMMA SeenStart ==
  ASSUME Inv, NEW for, StartReading(for), UNCHANGED world
  PROVE  SeenInv'
<1>1. turn' = "read" /\ snap' = Blank /\ seen' = Now /\ world' = world
  BY DEF StartReading
<1>2. ASSUME NEW p \in Pins PROVE SightOf(p)'
  <2>1. /\ Now[p].state = {world[p].state} /\ Now[p].attrs = {world[p].attrs}
        /\ Blank[p].state = Unknown /\ Blank[p].attrs = Unknown
    BY DEF Now, Blank
  <2>2. QED
    BY <1>1, <2>1 DEF SightOf
<1>3. QED
  BY <1>1, <1>2 DEF SeenInv

LEMMA SeenStop ==
  ASSUME StopReading
  PROVE  SeenInv'
BY DEF StopReading, SeenInv

LEMMA SeenChange ==
  ASSUME Inv, SeenInv, NEW p \in Pins, NEW new \in Pin, Change(p, new)
  PROVE  SeenInv'
<1>1. world' = [world EXCEPT ![p] = new] /\ turn' = turn /\ snap' = snap
  BY DEF Change
<1>2. world \in [Pins -> Pin] /\ seen \in Sights
  BY DEF Inv, TypeOK
<1>3. CASE turn = "read"
  <2>1. seen' = [seen EXCEPT ![p] = [state |-> seen[p].state \cup {new.state},
                                     attrs |-> seen[p].attrs \cup {new.attrs}]]
    BY <1>3 DEF Change
  <2>2. ASSUME NEW q \in Pins PROVE SightOf(q)'
    <3>1. SightOf(q)
      BY <1>3 DEF SeenInv
    <3>2. CASE q = p
      <4>1. /\ world'[q] = new /\ seen'[q].state = seen[q].state \cup {new.state}
            /\ seen'[q].attrs = seen[q].attrs \cup {new.attrs}
        BY <1>1, <1>2, <2>1, <3>2 DEF Sights
      <4>2. QED
        BY <1>1, <3>1, <4>1 DEF SightOf
    <3>3. CASE q # p
      <4>1. world'[q] = world[q] /\ seen'[q] = seen[q]
        BY <1>1, <1>2, <2>1, <3>3 DEF Sights
      <4>2. QED
        BY <1>1, <3>1, <4>1 DEF SightOf
    <3>4. QED
      BY <3>2, <3>3
  <2>3. QED
    BY <1>1, <1>3, <2>2 DEF SeenInv
<1>4. CASE turn # "read"
  BY <1>1, <1>4 DEF Change, SeenInv
<1>5. QED
  BY <1>3, <1>4

LEMMA SeenRead ==
  ASSUME Inv, SeenInv, ReadState \/ ReadAttrs \/ ReadFails
  PROVE  SeenInv' /\ turn = "read" /\ UNCHANGED <<world, seen, turn>>
<1>1. turn = "read" /\ UNCHANGED <<world, seen, turn>>
  BY DEF ReadState, ReadAttrs, ReadFails, Record, environment
<1>2. snap \in Snapshots
  BY DEF Inv, TypeOK
<1>3. ASSUME NEW q \in Pins PROVE SightOf(q)'
  <2>1. SightOf(q)
    BY <1>1 DEF SeenInv
  <2>2. CASE ReadState
    <3>1. next \in Pins /\ snap' = [snap EXCEPT ![next].state = world[next].state]
      BY <2>2, NumPinsAssumption DEF ReadState, Record, Inv, TypeOK, Pins
    <3>2. /\ snap'[q].state = (IF next = q THEN world[next].state ELSE snap[q].state)
          /\ snap'[q].attrs = snap[q].attrs
      BY <1>2, <3>1, PartFields
    <3>3. QED
      BY <1>1, <2>1, <3>2 DEF SightOf
  <2>3. CASE ReadAttrs
    <3> DEFINE p == next - NumPins
    <3>1. p \in Pins /\ snap' = [snap EXCEPT ![p].attrs = world[p].attrs]
      BY <2>3, NumPinsAssumption DEF ReadAttrs, Record, Inv, TypeOK, Pins
    <3> HIDE DEF p
    <3>2. /\ snap'[q].attrs = (IF p = q THEN world[p].attrs ELSE snap[q].attrs)
          /\ snap'[q].state = snap[q].state
      BY <1>2, <3>1, PartFields
    <3>3. QED
      BY <1>1, <2>1, <3>2 DEF SightOf
  <2>4. CASE ReadFails
    BY <1>1, <2>1, <2>4 DEF ReadFails, Record, SightOf
  <2>5. QED
    BY <2>2, <2>3, <2>4
<1>4. QED
  BY <1>1, <1>3 DEF SeenInv

LEMMA SeenSame ==
  ASSUME SeenInv, UNCHANGED <<turn, world, snap, seen>>
  PROVE  SeenInv'
BY DEF SeenInv, SightOf

LEMMA SeenNext == Inv /\ SeenInv /\ [Next]_vars => SeenInv'
<1> SUFFICES ASSUME Inv, SeenInv, [Next]_vars PROVE SeenInv'
  OBVIOUS
<1>1. CASE \E p \in Pins, new \in Pin : Change(p, new)
  BY <1>1, SeenChange
<1>2. ASSUME NEW g \in Pages, TakeGet(g) PROVE SeenInv'
  BY <1>2, SeenStart DEF TakeGet, environment
<1>3. CASE Broadcast
  <2>1. CASE StartReading(Ticker)
    BY <1>3, <2>1, SeenStart DEF Broadcast, environment
  <2>2. CASE turn' = "poll" /\ UNCHANGED reading
    BY <1>3, <2>2 DEF Broadcast, reading, SeenInv
  <2>3. QED
    BY <1>3, <2>1, <2>2 DEF Broadcast
<1>4. CASE ReadState \/ ReadAttrs \/ ReadFails
  BY <1>4, SeenRead
<1>5. CASE AnswerGet \/ SkipPush \/ Push
  BY <1>5, SeenStop DEF AnswerGet, SkipPush, Push
<1>6. CASE EndPoll
  BY <1>6 DEF EndPoll, reading, SeenInv
<1>7. CASE Clock \/ Reap \/ UNCHANGED vars
  BY <1>7, SeenSame DEF Clock, Reap, vars, environment, loop, reading
<1>8. ASSUME NEW g \in Pages, Upgrade(g) \/ Fetch(g) \/ Render(g) \/ Disconnect(g)
      PROVE  SeenInv'
  BY <1>8, SeenSame
     DEF Upgrade, Fetch, Render, RenderReply, RenderPush, Disconnect, environment, loop, reading
<1>9. QED
  BY <1>1, <1>2, <1>3, <1>4, <1>5, <1>6, <1>7, <1>8 DEF Next, Server

LEMMA SnapIsPicture ==
  ASSUME Inv, SeenInv, turn = "read"
  PROVE  snap \in Feed!Pictures
<1>1. snap \in [Pins -> PinShown]
  BY DEF Inv, TypeOK, Snapshots
<1>2. \A p \in Pins : /\ snap[p].state \in seen[p].state \cup {Unknown}
                      /\ snap[p].attrs \in seen[p].attrs \cup {Unknown}
  BY DEF SeenInv, SightOf
<1>3. QED
  BY <1>1, <1>2, SameSets DEF Feed!Pictures

LEMMA FeedInit == Init => Feed!Init
  BY SameSets DEF Init, Feed!Init

\* Where a snapshot is complete, the look of the feed ends.
LEMMA FeedLookEnds ==
  ASSUME Inv, SeenInv, Complete, StopReading
  PROVE  Feed!LookEnds /\ snap \in Feed!Pictures
<1>1. turn = "read" /\ seen' = Nothing
  BY DEF Complete, StopReading
<1>2. QED
  BY <1>1, SeenSomething, SnapIsPicture, SameSets DEF Feed!LookEnds

LEMMA FeedNext == Inv /\ SeenInv /\ [Next]_vars => [Feed!Next]_Feed!vars
<1> SUFFICES ASSUME Inv, SeenInv, [Next]_vars PROVE [Feed!Next]_Feed!vars
  OBVIOUS
<1>1. ASSUME NEW p \in Pins, NEW new \in Pin, Change(p, new) PROVE Feed!Next
  <2>1. turn = "read" <=> seen # Nothing
    BY SeenSomething DEF SeenInv
  <2>2. Feed!Change(p, new)
    BY <1>1, <2>1, SameSets DEF Change, network, Feed!Change
  <2>3. QED
    BY <2>2, SameSets DEF Feed!Next
<1>2. ASSUME NEW for, StartReading(for), turn # "read",
             UNCHANGED <<world, cache, streams, pushed, replies, view>>
      PROVE  Feed!Look
  BY <1>2, SameSets DEF StartReading, Now, SeenInv, Feed!Look
<1>3. ASSUME NEW g \in Pages, TakeGet(g) PROVE Feed!Look
  BY <1>2, <1>3 DEF TakeGet, environment
<1>4. CASE Broadcast
  <2>1. CASE StartReading(Ticker)
    BY <1>2, <1>4, <2>1 DEF Broadcast, environment, network, Feed!Next
  <2>2. CASE turn' = "poll" /\ UNCHANGED reading
    BY <1>4, <2>2 DEF Broadcast, reading, environment, network, Feed!vars
  <2>3. QED
    BY <1>4, <2>1, <2>2 DEF Broadcast
<1>5. CASE ReadState \/ ReadAttrs \/ ReadFails
  <2>1. UNCHANGED <<world, seen>>
    BY <1>5, SeenRead
  <2>2. QED
    BY <1>5, <2>1 DEF ReadState, ReadAttrs, ReadFails, network, Feed!vars
<1>6. CASE AnswerGet
  <2>1. Feed!LookEnds /\ snap \in Feed!Pictures
    BY <1>6, FeedLookEnds DEF AnswerGet
  <2>2. job \in Pages /\ Feed!Answer(job, snap)
    BY <1>6, <2>1 DEF AnswerGet, environment, Feed!Answer
  <2>3. QED
    BY <2>1, <2>2 DEF Feed!Next
<1>7. CASE SkipPush
  <2>1. Feed!LookEnds /\ snap \in Feed!Pictures
    BY <1>7, FeedLookEnds DEF SkipPush
  <2>2. Feed!Skip
    BY <1>7, <2>1 DEF SkipPush, Unchanged, environment, network, Feed!Skip
  <2>3. QED
    BY <2>2 DEF Feed!Next
<1>8. CASE Push
  <2>1. Feed!LookEnds /\ snap \in Feed!Pictures
    BY <1>8, FeedLookEnds DEF Push
  <2>2. Feed!Publish(snap)
    BY <1>8, <2>1 DEF Push, Unchanged, Receivers, environment, Feed!Publish
  <2>3. QED
    BY <2>1, <2>2 DEF Feed!Next
<1>9. ASSUME NEW g \in Pages, Upgrade(g) PROVE Feed!Listen(g)
  BY <1>9 DEF Upgrade, environment, loop, reading, network, Feed!Listen
<1>10. ASSUME NEW g \in Pages, Disconnect(g) PROVE Feed!HangUp(g)
  BY <1>10 DEF Disconnect, environment, loop, reading, Feed!HangUp
<1>11. ASSUME NEW g \in Pages, RenderPush(g) PROVE Feed!ShowPicture(g)
  BY <1>11 DEF RenderPush, environment, loop, reading, Feed!ShowPicture
<1>12. ASSUME NEW g \in Pages, RenderReply(g) PROVE Feed!ShowAnswer(g)
  BY <1>12 DEF RenderReply, environment, loop, reading, Feed!ShowAnswer
<1>13. ASSUME Clock \/ EndPoll \/ Reap \/ UNCHANGED vars \/ \E g \in Pages : Fetch(g)
       PROVE  UNCHANGED Feed!vars
  BY <1>13 DEF Clock, EndPoll, Reap, Fetch, vars, environment, loop, reading, network, Feed!vars
<1>14. QED
  BY <1>1, <1>3, <1>4, <1>5, <1>6, <1>7, <1>8, <1>9, <1>10, <1>11, <1>12, <1>13
     DEF Next, Server, Render, Feed!Next

\* The loop, with its snapshots read pin by pin and part by part while the pins
\* change and reads fail, one cache for all clients and two channels to each page, does
\* what PinFeed promises: everything published or answered was so while the server
\* looked, and who listens misses nothing.
THEOREM StreamImplementsFeed == Spec => ImplementsFeed
<1>1. Spec => []SeenInv
  BY SeenInit, SeenNext, InvAlways, PTL DEF Spec
<1>2. QED
  BY <1>1, FeedInit, FeedNext, InvAlways, PTL DEF Spec, ImplementsFeed, Feed!Spec

=============================================================================
