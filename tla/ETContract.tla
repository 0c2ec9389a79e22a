----------------------------- MODULE ETContract -----------------------------
(***************************************************************************)
(* What the ET system promises to minervadaq and the event builder, with   *)
(* its lists, conductor threads, mutexes and crash repair hidden.          *)
(*                                                                         *)
(* Events are buffers of a fixed pool.  The producer takes a free one and  *)
(* puts it into a first-in first-out stream.  An attached user gets the    *)
(* head of the stream and returns it to the pool.  When the user detaches, *)
(* or is cleaned up after, the events that waited at its station return to *)
(* the pool; those still on their way there are dropped while nobody is    *)
(* attached, or go to the next user.                                       *)
(***************************************************************************)
EXTENDS Naturals, Sequences

CONSTANTS
  NEvents,              \* size of the event pool
  Msgs                  \* what an event can carry

VARIABLES
  filling,              \* events the producer has taken and not yet put
  stream,               \* events on their way to the user, oldest first
  using,                \* events the user has and must return
  attached              \* is there a user?

cVars == <<filling, stream, using, attached>>

Free == NEvents - filling - Len(stream) - Len(using)

Init ==
  /\ filling = 0
  /\ stream = <<>>
  /\ using = <<>>
  /\ attached = FALSE

New ==
  /\ Free > 0
  /\ filling' = filling + 1
  /\ UNCHANGED <<stream, using, attached>>

Put ==
  /\ filling > 0
  /\ filling' = filling - 1
  /\ \E m \in Msgs : stream' = Append(stream, m)
  /\ UNCHANGED <<using, attached>>

\* The producer ends with new events in its hands.
GiveUp ==
  /\ filling > 0
  /\ filling' = 0
  /\ UNCHANGED <<stream, using, attached>>

\* Nobody is attached: the oldest k events of the stream return to the pool.
Drop(k) ==
  /\ ~attached
  /\ stream' = SubSeq(stream, k + 1, Len(stream))
  /\ UNCHANGED <<filling, using, attached>>

Attach ==
  /\ ~attached
  /\ attached' = TRUE
  /\ UNCHANGED <<filling, stream, using>>

Get ==
  /\ attached
  /\ stream # <<>>
  /\ using = <<>>
  /\ using' = <<Head(stream)>>
  /\ stream' = Tail(stream)
  /\ UNCHANGED <<filling, attached>>

Return ==
  /\ using # <<>>
  /\ using' = <<>>
  /\ UNCHANGED <<filling, stream, attached>>

\* The user leaves or is cleaned up after: what it held and the k events that
\* waited at its station return to the pool.
Detach(k) ==
  /\ attached
  /\ attached' = FALSE
  /\ using' = <<>>
  /\ stream' = SubSeq(stream, k + 1, Len(stream))
  /\ UNCHANGED filling

Next ==
  \/ New \/ Put \/ GiveUp
  \/ Attach \/ Get \/ Return
  \/ \E k \in 0..Len(stream) : Drop(k) \/ Detach(k)

Spec == Init /\ [][Next]_cVars

=============================================================================
