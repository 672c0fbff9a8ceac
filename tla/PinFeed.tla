------------------------------- MODULE PinFeed -------------------------------
(***************************************************************************)
(* What the status stream promises the pages. The server looks at the pins *)
(* now and then. A look comes to one picture, in which every part of every *)
(* pin is something it was during that look, or is unknown. A picture is   *)
(* published to all who listen at that moment unless it is the one         *)
(* published last, and no other way of ending a look is open to it than to *)
(* publish or to answer the page that asked. Who listens gets what is      *)
(* published in order and without gaps. GpioStream implements this with    *)
(* snapshots that are read pin by pin while the pins change.               *)
(***************************************************************************)
EXTENDS Sequences

CONSTANTS Pins, States, Attrs, Unknown, Pages, NoSnapshot

VARIABLES
  world,      \* what the pins are
  seen,       \* what they have been since the look at work began
  last,       \* the picture published last
  listeners,  \* pages that listen
  queue,      \* pictures published, on their way to a page
  replies,    \* answers on their way to a page
  view        \* what a page shows

vars == <<world, seen, last, listeners, queue, replies, view>>

Pin      == [state : States, attrs : Attrs]
PinShown == [state : States \cup {Unknown}, attrs : Attrs \cup {Unknown}]

\* There is no look at work.
Nothing == [p \in Pins |-> [state |-> {}, attrs |-> {}]]

Pictures ==
  {s \in [Pins -> PinShown] :
     \A p \in Pins : /\ s[p].state \in seen[p].state \cup {Unknown}
                     /\ s[p].attrs \in seen[p].attrs \cup {Unknown}}

Init ==
  /\ world \in [Pins -> Pin]
  /\ seen = Nothing
  /\ last = NoSnapshot
  /\ listeners = {}
  /\ queue = [g \in Pages |-> <<>>]
  /\ replies = [g \in Pages |-> <<>>]
  /\ view = [g \in Pages |-> NoSnapshot]

Change(p, new) ==
  /\ world' = [world EXCEPT ![p] = new]
  /\ seen' = IF seen = Nothing THEN seen
             ELSE [seen EXCEPT ![p] = [state |-> @.state \cup {new.state},
                                       attrs |-> @.attrs \cup {new.attrs}]]
  /\ UNCHANGED <<last, listeners, queue, replies, view>>

Look ==
  /\ seen = Nothing
  /\ seen' = [p \in Pins |-> [state |-> {world[p].state}, attrs |-> {world[p].attrs}]]
  /\ UNCHANGED <<world, last, listeners, queue, replies, view>>

LookEnds == seen # Nothing /\ seen' = Nothing

Publish(s) ==
  /\ LookEnds
  /\ s # last
  /\ last' = s
  /\ queue' = [g \in Pages |-> IF g \in listeners THEN Append(queue[g], s) ELSE queue[g]]
  /\ UNCHANGED <<world, listeners, replies, view>>

\* Nothing new: the picture is the one published last.
Skip ==
  /\ LookEnds
  /\ last \in Pictures
  /\ UNCHANGED <<world, last, listeners, queue, replies, view>>

Answer(g, s) ==
  /\ LookEnds
  /\ replies' = [replies EXCEPT ![g] = Append(@, s)]
  /\ UNCHANGED <<world, last, listeners, queue, view>>

Listen(g) ==
  /\ listeners' = listeners \cup {g}
  /\ UNCHANGED <<world, seen, last, queue, replies, view>>

\* What has not arrived by then never does.
HangUp(g) ==
  /\ listeners' = listeners \ {g}
  /\ queue' = [queue EXCEPT ![g] = <<>>]
  /\ UNCHANGED <<world, seen, last, replies, view>>

ShowPicture(g) ==
  /\ queue[g] # <<>>
  /\ view' = [view EXCEPT ![g] = Head(queue[g])]
  /\ queue' = [queue EXCEPT ![g] = Tail(@)]
  /\ UNCHANGED <<world, seen, last, listeners, replies>>

ShowAnswer(g) ==
  /\ replies[g] # <<>>
  /\ view' = [view EXCEPT ![g] = Head(replies[g])]
  /\ replies' = [replies EXCEPT ![g] = Tail(@)]
  /\ UNCHANGED <<world, seen, last, listeners, queue>>

Next ==
  \/ \E p \in Pins, new \in Pin : Change(p, new)
  \/ Look
  \/ \E s \in Pictures : Publish(s) \/ \E g \in Pages : Answer(g, s)
  \/ Skip
  \/ \E g \in Pages : Listen(g) \/ HangUp(g) \/ ShowPicture(g) \/ ShowAnswer(g)

Spec == Init /\ [][Next]_vars

=============================================================================
