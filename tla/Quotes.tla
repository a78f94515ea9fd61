------------------------------- MODULE Quotes -------------------------------
(***************************************************************************)
(* The quotes service (internal/quotes/quotes.go) for one symbol, with the *)
(* websocket handlers that subscribe to it (cmd/monolith/main.go).         *)
(*                                                                         *)
(* The generator publishes to Redis; the goroutine of subscribeToQuotes    *)
(* stores what it receives and then ranges over the slice of subscribers   *)
(* without the lock under which Subscribe and Unsubscribe change it.  The  *)
(* range sees the cells of the slice's backing array as they are when it   *)
(* gets there, for as long as append does not move the slice elsewhere.    *)
(* A channel is named by its client, who subscribes once.                  *)
(***************************************************************************)
EXTENDS Integers, Sequences

CONSTANTS
  Clients, Capacity, MaxQuotes,  \* as in Feed
  Readers,                       \* the clients whose connection takes what is written
  NoClient

ASSUME QuotesAssumption ==
  /\ Capacity \in Nat \ {0}
  /\ MaxQuotes \in Nat
  /\ Readers \subseteq Clients
  /\ NoClient \notin Clients

VARIABLES
  alive,        \* the process runs
  published,    \* the number of quotes that have been published
  wire,         \* those on their way through Redis
  latest,       \* s.quotes[symbol], 0 while there is none
  pc,           \* where updateQuote is
  view,         \* the cells of the slice it ranges over,
  old,          \*   with those that an Unsubscribe is overwriting just now
  shared,       \* whether view is still the backing array of the subscribers
  next,         \* the index it comes to next
  to,           \* the channel it is about to send to
  subscribers,  \* s.subscribers[symbol], a slice
  cap,          \* its capacity
  handler,      \* handler[c]: where the websocket handler of c is
  channel,      \* channel[c]: the buffer of c's channel
  \* Variables that only record history:
  seen,         \* seen[c]: the quotes that c's handler received
  due,          \* due[c]: the quotes for which updateQuote found c subscribed
  dropped,      \* the clients that missed a quote because their channel was full
  overlapped    \* whether an Unsubscribe changed a slice under updateQuote

range == <<pc, view, old, shared, next, to>>
history == <<seen, due, dropped, overlapped>>
vars == <<alive, published, wire, latest, range, subscribers, cap, handler, channel, history>>

\* Without Redis the client is nil: subscribeToQuotes and generateMockQuotes
\* dereference it in goroutines of their own, which ends the process.
Init ==
  /\ alive \in BOOLEAN
  /\ published = 0 /\ wire = <<>> /\ latest = 0
  /\ pc = "idle" /\ view = <<>> /\ old = <<>> /\ shared = FALSE
  /\ next = 1 /\ to = NoClient
  /\ subscribers = <<>> /\ cap = 0
  /\ handler = [c \in Clients |-> "new"]
  /\ channel = [c \in Clients |-> <<>>]
  /\ seen = [c \in Clients |-> <<>>]
  /\ due = [c \in Clients |-> <<>>]
  /\ dropped = {}
  /\ overlapped = FALSE

\* The clients whose channel Unsubscribe has closed.
Closed == {c \in Clients : handler[c] = "gone"}

\* Nobody is between the two steps of Unsubscribe, so subMutex is free.
Unlocked == \A c \in Clients : handler[c] # "removing"

Listed == {subscribers[i] : i \in 1..Len(subscribers)}

-----------------------------------------------------------------------------
(***************************************************************************)
(* The generator and the goroutine of subscribeToQuotes                    *)
(***************************************************************************)

\* publishQuote: an error is only logged, and Redis keeps no message for a
\* subscriber that is not connected.
Publish ==
  /\ alive
  /\ published < MaxQuotes
  /\ published' = published + 1
  /\ wire' \in {wire, Append(wire, published + 1)}
  /\ UNCHANGED <<alive, latest, range, subscribers, cap, handler, channel, history>>

\* updateQuote up to the first unlock.
StoreQuote ==
  /\ alive
  /\ pc = "idle"
  /\ wire # <<>>
  /\ latest' = Head(wire)
  /\ wire' = Tail(wire)
  /\ pc' = "stored"
  /\ UNCHANGED <<alive, published, view, old, shared, next, to, subscribers, cap,
                 handler, channel, history>>

\* The slice header is read under the lock, its cells are not.
ReadSubscribers ==
  /\ alive
  /\ pc = "stored"
  /\ Unlocked
  /\ pc' = "ranging"
  /\ view' = subscribers /\ old' = subscribers /\ shared' = TRUE
  /\ next' = 1
  /\ due' = [c \in Clients |-> IF c \in Listed THEN Append(due[c], latest) ELSE due[c]]
  /\ UNCHANGED <<alive, published, wire, latest, to, subscribers, cap, handler, channel,
                 seen, dropped, overlapped>>

\* A cell that Unsubscribe is overwriting is read before or after the write.
NextSubscriber ==
  /\ alive
  /\ pc = "ranging"
  /\ next <= Len(view)
  /\ to' \in {view[next], old[next]}
  /\ next' = next + 1
  /\ pc' = "sending"
  /\ UNCHANGED <<alive, published, wire, latest, view, old, shared, subscribers, cap,
                 handler, channel, history>>

\* Mutants of Send: a closed channel still takes the quote; waits for room in
\* the channel; the oldest quote makes room.
SendToClosed ==
  /\ alive
  /\ pc = "sending"
  /\ pc' = "ranging"
  /\ IF Len(channel[to]) < Capacity
     THEN channel' = [channel EXCEPT ![to] = Append(@, latest)] /\ UNCHANGED dropped
     ELSE dropped' = dropped \cup {to} /\ UNCHANGED channel
  /\ UNCHANGED <<alive, published, wire, latest, view, old, shared, next, to, subscribers, cap,
                 handler, seen, due, overlapped>>

SendWaits ==
  /\ alive
  /\ pc = "sending"
  /\ to \in Closed \/ Len(channel[to]) < Capacity
  /\ alive' = (to \notin Closed)
  /\ channel' = IF to \in Closed THEN channel ELSE [channel EXCEPT ![to] = Append(@, latest)]
  /\ pc' = "ranging"
  /\ UNCHANGED <<published, wire, latest, view, old, shared, next, to, subscribers, cap,
                 handler, history>>

SendDropsOldest ==
  /\ alive
  /\ pc = "sending"
  /\ to \notin Closed
  /\ channel' = [channel EXCEPT ![to] = Append(IF Len(@) < Capacity THEN @ ELSE Tail(@), latest)]
  /\ pc' = "ranging"
  /\ UNCHANGED <<alive, published, wire, latest, view, old, shared, next, to, subscribers, cap,
                 handler, history>>

\* A full channel is skipped; a closed one panics, and nothing recovers a
\* panic in this goroutine.
Send ==
  /\ alive
  /\ pc = "sending"
  /\ pc' = "ranging"
  /\ \/ /\ to \in Closed
        /\ alive' = FALSE
        /\ UNCHANGED <<channel, dropped>>
     \/ /\ to \notin Closed
        /\ Len(channel[to]) < Capacity
        /\ channel' = [channel EXCEPT ![to] = Append(@, latest)]
        /\ UNCHANGED <<alive, dropped>>
     \/ /\ to \notin Closed
        /\ Len(channel[to]) >= Capacity
        /\ dropped' = dropped \cup {to}
        /\ UNCHANGED <<alive, channel>>
  /\ UNCHANGED <<published, wire, latest, view, old, shared, next, to, subscribers, cap,
                 handler, seen, due, overlapped>>

EndRange ==
  /\ alive
  /\ pc = "ranging"
  /\ next > Len(view)
  /\ pc' = "idle"
  /\ view' = <<>> /\ old' = <<>> /\ shared' = FALSE
  /\ next' = 1 /\ to' = NoClient
  /\ UNCHANGED <<alive, published, wire, latest, subscribers, cap, handler, channel, history>>

UpdateStep == StoreQuote \/ ReadSubscribers \/ NextSubscriber \/ Send \/ EndRange

-----------------------------------------------------------------------------
(***************************************************************************)
(* The websocket handlers                                                  *)
(***************************************************************************)

\* The capacity of the array that append moves a full slice to; as a mutant,
\* without the case of the empty one.
GrownFromZero(n) == 2 * n

Grown(n) == IF n = 0 THEN 1 ELSE 2 * n

\* Subscribe: append writes the cell behind the slice or, at capacity, moves
\* the slice to a larger array.
Subscribe(c) ==
  /\ alive
  /\ handler[c] = "new"
  /\ Unlocked
  /\ handler' = [handler EXCEPT ![c] = "open"]
  /\ subscribers' = Append(subscribers, c)
  /\ LET n == Len(subscribers) + 1
     IN IF n <= cap
        THEN /\ view' = IF shared /\ n <= Len(view) THEN [view EXCEPT ![n] = c] ELSE view
             /\ old' = view'
             /\ UNCHANGED <<cap, shared>>
        ELSE /\ cap' = Grown(cap)
             /\ shared' = FALSE
             /\ UNCHANGED <<view, old>>
  /\ UNCHANGED <<alive, published, wire, latest, pc, next, to, channel, history>>

\* The handler takes a quote and writes it to the connection.
Receive(c) ==
  /\ alive
  /\ handler[c] = "open"
  /\ channel[c] # <<>>
  /\ channel' = [channel EXCEPT ![c] = Tail(@)]
  /\ seen' = [seen EXCEPT ![c] = Append(@, Head(channel[c]))]
  /\ UNCHANGED <<alive, published, wire, latest, range, subscribers, cap, handler, due, dropped,
                 overlapped>>

\* The write of a quote of this symbol or of the other one fails, with which
\* the handler returns.
WriteFails(c) ==
  /\ alive
  /\ handler[c] = "open"
  /\ handler' = [handler EXCEPT ![c] = "leaving"]
  /\ UNCHANGED <<alive, published, wire, latest, range, subscribers, cap, channel, history>>

\* The slice without its i-th cell, and the cells of its array after the move:
\* the last one keeps what it held.
Without(s, i) == [k \in 1 .. Len(s) - 1 |-> IF k < i THEN s[k] ELSE s[k + 1]]

Moved(s, i) == Append(Without(s, i), s[Len(s)])

\* Mutants of Remove: nothing is cut out; the next subscriber is.
RemoveNothing(c) ==
  /\ alive
  /\ handler[c] = "leaving"
  /\ Unlocked
  /\ handler' = [handler EXCEPT ![c] = "removing"]
  /\ overlapped' = (overlapped \/ pc \in {"ranging", "sending"})
  /\ UNCHANGED <<alive, published, wire, latest, range, subscribers, cap, channel, seen, due,
                 dropped>>

RemoveNext(c) ==
  /\ alive
  /\ handler[c] = "leaving"
  /\ Unlocked
  /\ handler' = [handler EXCEPT ![c] = "removing"]
  /\ \E i \in 1..Len(subscribers) :
       /\ subscribers[i] = c
       /\ subscribers' = Without(subscribers, IF i < Len(subscribers) THEN i + 1 ELSE i)
  /\ overlapped' = (overlapped \/ pc \in {"ranging", "sending"})
  /\ UNCHANGED <<alive, published, wire, latest, range, cap, channel, seen, due, dropped>>

\* Unsubscribe, deferred by the handler: the slice is moved together in place
\* under the lock ...
Remove(c) ==
  /\ alive
  /\ handler[c] = "leaving"
  /\ Unlocked
  /\ handler' = [handler EXCEPT ![c] = "removing"]
  /\ \E i \in 1..Len(subscribers) :
       /\ subscribers[i] = c
       /\ subscribers' = Without(subscribers, i)
       /\ view' = IF shared
                  THEN [k \in 1..Len(view) |-> IF k <= Len(subscribers)
                                               THEN Moved(subscribers, i)[k] ELSE view[k]]
                  ELSE view
  /\ overlapped' = (overlapped \/ pc \in {"ranging", "sending"})
  /\ UNCHANGED <<alive, published, wire, latest, pc, old, shared, next, to, cap, channel,
                 seen, due, dropped>>

\* ... and then the channel is closed.
Close(c) ==
  /\ alive
  /\ handler[c] = "removing"
  /\ handler' = [handler EXCEPT ![c] = "gone"]
  /\ old' = view
  /\ UNCHANGED <<alive, published, wire, latest, pc, view, shared, next, to, subscribers, cap,
                 channel, history>>

HandlerStep(c) == Receive(c) \/ WriteFails(c) \/ Remove(c) \/ Close(c)

Next == Publish \/ UpdateStep \/ \E c \in Clients : Subscribe(c) \/ HandlerStep(c)

Spec == Init /\ [][Next]_vars

\* The goroutines run; a handler goes on if its connection takes what it
\* writes, and what a handler does after a failed write waits for no
\* connection.
FairSpec ==
  /\ Spec
  /\ WF_vars(UpdateStep)
  /\ \A c \in Clients : WF_vars(Remove(c) \/ Close(c))
  /\ \A c \in Readers : WF_vars(Receive(c))

-----------------------------------------------------------------------------
(***************************************************************************)
(* Properties                                                              *)
(***************************************************************************)

\* Type invariant.
TypeOK ==
  /\ alive \in BOOLEAN /\ shared \in BOOLEAN /\ overlapped \in BOOLEAN
  /\ published \in 0..MaxQuotes /\ latest \in 0..MaxQuotes
  /\ wire \in Seq(1..MaxQuotes)
  /\ pc \in {"idle", "stored", "ranging", "sending"}
  /\ view \in Seq(Clients) /\ old \in Seq(Clients) /\ Len(old) = Len(view)
  /\ next \in 1 .. Len(view) + 1
  /\ to \in Clients \cup {NoClient}
  /\ pc = "sending" => to \in Clients
  /\ subscribers \in Seq(Clients)
  /\ cap \in Nat /\ Len(subscribers) <= cap
  /\ handler \in [Clients -> {"new", "open", "leaving", "removing", "gone"}]
  /\ channel \in [Clients -> Seq(1..MaxQuotes)]
  /\ seen \in [Clients -> Seq(1..MaxQuotes)]
  /\ due \in [Clients -> Seq(1..MaxQuotes)]
  /\ dropped \subseteq Clients

\* The list holds the clients that are being served, each once, whatever the
\* order in which they come and leave (quotes.go:66, quotes.go:78).
ListMatchesHandlers ==
  /\ Listed = {c \in Clients : handler[c] \in {"open", "leaving"}}
  /\ \A i, j \in 1..Len(subscribers) : subscribers[i] = subscribers[j] => i = j

\* A process that had Redis dies only of an Unsubscribe that came while
\* updateQuote was ranging (quotes.go:121): clients that leave between two
\* updates, slow clients and full channels never kill it.
DiesOnlyOfOverlap == published > 0 /\ ~alive => overlapped

\* A client whose channel was never full has got, or will find in its channel,
\* exactly the quotes that arrived since it subscribed, in their order, as long
\* as nobody left in the middle of an update (quotes.go:119-125).
NothingMissed ==
  pc = "idle" /\ ~overlapped =>
    \A c \in Clients \ dropped :
      handler[c] \in {"open", "leaving"} => seen[c] \o channel[c] = due[c]

\* The service implements a lossy, ordered subscription: whatever the range
\* meets, only the latest quote is put in a channel, and only between Subscribe
\* and the close.
F == INSTANCE Feed WITH
       member <- [c \in Clients |-> IF handler[c] = "new" THEN "out"
                                    ELSE IF handler[c] = "gone" THEN "left" ELSE "in"],
       queue <- channel,
       taken <- [c \in Clients |-> IF seen[c] = <<>> THEN 0 ELSE seen[c][Len(seen[c])]]

ImplementsFeed == F!Spec

\* No client gets a quote after a newer one.
InOrder == F!InOrder

\* A quote reaches every client that reads, unless its channel was full, it
\* leaves, or somebody left during an update; clients whose connection takes
\* nothing hold up nobody (quotes.go:120-124).
UpdatesArrive ==
  \A c \in Readers : \A q \in 1..MaxQuotes :
    (q \in {due[c][i] : i \in 1..Len(due[c])}) ~>
      \/ q \in {seen[c][i] : i \in 1..Len(seen[c])}
      \/ c \in dropped \/ overlapped \/ handler[c] # "open"

=============================================================================
