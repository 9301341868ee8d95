---------------------------- MODULE EventStream ----------------------------
(***************************************************************************)
(* The event streams by which the enshrined bifrost tells bifrost what a   *)
(* block has confirmed (x/switchly/ebifrost/ebifrost.go).  Every gRPC      *)
(* client has a goroutine (SubscribeToEvents) that waits on an unbuffered  *)
(* channel; every confirmed message starts a goroutine (broadcastEvent)    *)
(* that copies the list of channels under subscribersMu and sends to them  *)
(* after it has let the mutex go.                                          *)
(***************************************************************************)
EXTENDS Sequences

CONSTANTS
    Client,         \* gRPC streams; each has its own channel
    EventType,      \* the keys of the map subscribers
    Broadcast       \* goroutines started by MarkQuorum...AttestationsConfirmed

VARIABLES
    subscribers,    \* event type -> sequence of clients (their channels)
    handler,        \* where the client's SubscribeToEvents call is
    closed,         \* the clients whose channel is closed
    begun, sending, \* the broadcasts that began; the channels each has still to send to
    crashed         \* a goroutine panicked, and the node with it

vars == <<subscribers, handler, closed, begun, sending, crashed>>

Init ==
    /\ subscribers = [e \in EventType |-> <<>>]
    /\ handler = [c \in Client |-> "new"]
    /\ closed = {}
    /\ begun = {}
    /\ sending = [b \in Broadcast |-> <<>>]
    /\ crashed = FALSE

SubscribeToEvents(c, types) ==
    /\ handler[c] = "new"
    /\ subscribers' = [e \in EventType |->
                         IF e \in types THEN Append(subscribers[e], c) ELSE subscribers[e]]
    /\ handler' = [handler EXCEPT ![c] = "waiting"]
    /\ UNCHANGED <<closed, begun, sending, crashed>>

\* stream.Send returns: the goroutine waits again, or it ends with the error,
\* its channel still subscribed.
StreamSend(c) ==
    /\ handler[c] = "sending"
    /\ \E next \in {"waiting", "failed"} : handler' = [handler EXCEPT ![c] = next]
    /\ UNCHANGED <<subscribers, closed, begun, sending, crashed>>

\* stream.Context().Done(): the client has disconnected.
removeSubscriber(c) ==
    /\ handler[c] = "waiting"
    /\ subscribers' = [e \in EventType |-> SelectSeq(subscribers[e], LAMBDA d : d # c)]
    /\ closed' = closed \cup {c}
    /\ handler' = [handler EXCEPT ![c] = "done"]
    /\ UNCHANGED <<begun, sending, crashed>>

broadcastEvent(b, e) ==
    /\ b \notin begun
    /\ begun' = begun \cup {b}
    /\ sending' = [sending EXCEPT ![b] = subscribers[e]]
    /\ UNCHANGED <<subscribers, handler, closed, crashed>>

\* select { case ch <- event: ... default: ... }: a receiver that is waiting gets
\* the event, one that is not misses it, and a closed channel panics.
SendToSubscriber(b) ==
    /\ sending[b] # <<>>
    /\ LET c == Head(sending[b])
       IN  /\ handler' = IF handler[c] = "waiting" THEN [handler EXCEPT ![c] = "sending"] ELSE handler
           /\ crashed' = (c \in closed)
           /\ sending' = [sending EXCEPT ![b] = Tail(@)]
    /\ UNCHANGED <<subscribers, closed, begun>>

Next ==
    /\ ~crashed
    /\ \/ \E c \in Client, types \in SUBSET EventType \ {{}} : SubscribeToEvents(c, types)
       \/ \E c \in Client : StreamSend(c)
       \/ \E c \in Client : removeSubscriber(c)
       \/ \E b \in Broadcast, e \in EventType : broadcastEvent(b, e)
       \/ \E b \in Broadcast : SendToSubscriber(b)

Spec == Init /\ [][Next]_vars

-----------------------------------------------------------------------------
\* "Channel is full or closed, could implement cleanup here" (ebifrost.go:353)
\* says that broadcastEvent meets closed channels and passes over them: a client
\* that disconnects while an event is broadcast does no harm.
ClosedChannelIsPassedOver == ~crashed
=============================================================================
