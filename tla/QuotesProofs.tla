----------------------------- MODULE QuotesProofs -----------------------------
(***************************************************************************)
(* Proofs about Quotes, for any number of clients and quotes and any       *)
(* capacity of the channels.                                               *)
(***************************************************************************)
EXTENDS Quotes, SequenceTheorems, TLAPS

Handlers == {"new", "open", "leaving", "removing", "gone"}

\* Those that the list ought to hold.
Served == {c \in Clients : handler[c] \in {"open", "leaving"}}

Ranging == pc \in {"ranging", "sending"}

\* The slice with its i-th cell cut out, and the cells that the range finds.
LEMMA WithoutProperties ==
  ASSUME NEW S, NEW s \in Seq(S), NEW i \in 1..Len(s)
  PROVE  /\ Without(s, i) \in Seq(S)
         /\ Len(Without(s, i)) = Len(s) - 1
         /\ \A k \in 1 .. Len(s) - 1 : Without(s, i)[k] = IF k < i THEN s[k] ELSE s[k + 1]
<1>1. Len(s) - 1 \in Nat /\ \A k \in 1..Len(s) : s[k] \in S
  BY LenProperties, ElementOfSeq
<1>2. Without(s, i) \in [1 .. Len(s) - 1 -> S]
  BY <1>1 DEF Without
<1>3. Without(s, i) \in Seq(S)
  BY <1>1, <1>2, SeqDef
<1>4. DOMAIN Without(s, i) = 1 .. Len(s) - 1
  BY DEF Without
<1>5. Len(Without(s, i)) = Len(s) - 1
  BY <1>1, <1>3, <1>4, LenProperties
<1> QED BY <1>3, <1>5 DEF Without

LEMMA MovedProperties ==
  ASSUME NEW S, NEW s \in Seq(S), NEW i \in 1..Len(s)
  PROVE  /\ Moved(s, i) \in Seq(S)
         /\ Len(Moved(s, i)) = Len(s)
         /\ \A k \in 1..Len(s) : \E j \in 1..Len(s) : Moved(s, i)[k] = s[j]
<1> DEFINE w == Without(s, i)
<1>1. Len(s) \in Nat /\ Len(s) \in 1..Len(s) /\ s[Len(s)] \in S
  BY LenProperties, ElementOfSeq
<1>2. w \in Seq(S) /\ Len(w) = Len(s) - 1
  BY WithoutProperties
<1>3. \A k \in 1 .. Len(s) - 1 : \E j \in 1..Len(s) : w[k] = s[j]
  <2> TAKE k \in 1 .. Len(s) - 1
  <2>1. k \in 1..Len(s) /\ k + 1 \in 1..Len(s)
    BY <1>1
  <2>2. w[k] = IF k < i THEN s[k] ELSE s[k + 1]
    BY WithoutProperties
  <2> QED BY <2>1, <2>2
<1> HIDE DEF w
<1>4. /\ Append(w, s[Len(s)]) \in Seq(S)
      /\ Len(Append(w, s[Len(s)])) = Len(w) + 1
      /\ \A k \in 1..Len(w) : Append(w, s[Len(s)])[k] = w[k]
      /\ Append(w, s[Len(s)])[Len(w) + 1] = s[Len(s)]
  BY <1>1, <1>2, AppendProperties
<1>5. ASSUME NEW k \in 1..Len(s)
      PROVE  \E j \in 1..Len(s) : Append(w, s[Len(s)])[k] = s[j]
  <2>1. CASE k = Len(s)
    BY <1>1, <1>2, <1>4, <2>1
  <2>2. CASE k # Len(s)
    <3>1. k \in 1 .. Len(s) - 1 /\ k \in 1..Len(w)
      BY ONLY <1>1, <1>2, <2>2, k \in 1..Len(s)
    <3>2. Append(w, s[Len(s)])[k] = w[k]
      BY ONLY <1>4, <3>1
    <3> QED BY ONLY <1>3, <3>1, <3>2
  <2> QED BY <2>1, <2>2
<1>6. Moved(s, i) = Append(w, s[Len(s)])
  BY DEF Moved, w
<1>7. Len(s) - 1 + 1 = Len(s)
  BY <1>1
<1>8. Len(Append(w, s[Len(s)])) = Len(s)
  BY ONLY <1>2, <1>4, <1>7
<1> QED BY ONLY <1>4, <1>5, <1>6, <1>8

-----------------------------------------------------------------------------
(***************************************************************************)
(* Types                                                                   *)
(***************************************************************************)

\* While updateQuote is under way there is a quote, and when it does not range
\* it has no cells.
UpdateOK ==
  /\ pc # "idle" => latest \in 1..MaxQuotes
  /\ ~Ranging => view = <<>> /\ shared = FALSE
  /\ Unlocked => old = view

TInv == TypeOK /\ UpdateOK

LEMMA InitTInv == Init => TInv
<1> SUFFICES ASSUME Init PROVE TInv
  OBVIOUS
<1>1. \A S : <<>> \in Seq(S) /\ Len(<<>>) = 0
  BY EmptySeq
<1>2. 0 \in 0..MaxQuotes
  BY QuotesAssumption
<1>3. 1 \in 1 .. Len(view) + 1
  BY <1>1 DEF Init
<1>4. TypeOK
  <2>1. /\ wire \in Seq(1..MaxQuotes) /\ view \in Seq(Clients) /\ old \in Seq(Clients)
        /\ Len(old) = Len(view) /\ subscribers \in Seq(Clients)
        /\ cap \in Nat /\ Len(subscribers) <= cap
    BY <1>1 DEF Init
  <2>2. /\ channel \in [Clients -> Seq(1..MaxQuotes)]
        /\ seen \in [Clients -> Seq(1..MaxQuotes)]
        /\ due \in [Clients -> Seq(1..MaxQuotes)]
    BY <1>1 DEF Init
  <2>3. handler \in [Clients -> {"new", "open", "leaving", "removing", "gone"}]
    BY DEF Init
  <2>4. next \in 1 .. Len(view) + 1
    BY <1>3 DEF Init
  <2> QED BY <1>2, <2>1, <2>2, <2>3, <2>4 DEF Init, TypeOK
<1>5. UpdateOK
  BY DEF Init, UpdateOK, Ranging
<1> QED BY <1>4, <1>5 DEF TInv

\* What is appended to one client's sequence.
LEMMA AppendAt ==
  ASSUME NEW S, NEW f \in [Clients -> Seq(S)], NEW c \in Clients, NEW e \in S
  PROVE  [f EXCEPT ![c] = Append(@, e)] \in [Clients -> Seq(S)]
<1>1. Append(f[c], e) \in Seq(S)
  BY AppendProperties
<1> QED BY <1>1

\* The cells that are read are clients.
LEMMA Cells ==
  ASSUME TypeOK
  PROVE  /\ Len(view) \in Nat /\ Len(old) = Len(view) /\ Len(subscribers) \in Nat
         /\ \A i \in 1..Len(view) : view[i] \in Clients /\ old[i] \in Clients
         /\ \A i \in 1..Len(subscribers) : subscribers[i] \in Clients
<1>1. view \in Seq(Clients) /\ old \in Seq(Clients) /\ subscribers \in Seq(Clients)
  BY DEF TypeOK
<1>2. Len(old) = Len(view)
  BY DEF TypeOK
<1> QED BY <1>1, <1>2, LenProperties, ElementOfSeq

\* Subscribe writes at most one cell of the view.
LEMMA SubscribeView ==
  ASSUME TInv, NEW c \in Clients, Subscribe(c)
  PROVE  /\ view' \in Seq(Clients) /\ Len(view') = Len(view) /\ old' = view'
         /\ \A i \in 1..Len(view) : view'[i] = view[i] \/ view'[i] = c
         /\ Len(view) <= Len(subscribers) => view' = view
<1> DEFINE n == Len(subscribers) + 1
<1>1. view \in Seq(Clients) /\ Len(view) \in Nat /\ Len(subscribers) \in Nat /\ old = view
  BY Cells DEF TInv, TypeOK, UpdateOK, Subscribe
<1>2. CASE n <= cap /\ shared /\ n <= Len(view)
  <2>1. n \in 1..Len(view)
    BY <1>1, <1>2
  <2>2. view' = [view EXCEPT ![n] = c] /\ old' = view'
    BY <1>2 DEF Subscribe
  <2> HIDE DEF n
  <2>3. /\ view' \in Seq(Clients) /\ Len(view') = Len(view)
        /\ \A i \in 1..Len(view) : view'[i] = IF i = n THEN c ELSE view[i]
    BY <1>1, <2>1, <2>2, ExceptSeq
  <2> QED BY <1>1, <1>2, <2>2, <2>3 DEF n
<1>3. CASE ~(n <= cap /\ shared /\ n <= Len(view))
  <2>1. view' = view /\ (old' = old \/ old' = view')
    <3>1. CASE n <= cap
      BY <1>3, <3>1 DEF Subscribe
    <3>2. CASE ~(n <= cap)
      BY <3>2 DEF Subscribe
    <3> QED BY <3>1, <3>2
  <2> QED BY <1>1, <2>1
<1> QED BY <1>2, <1>3

\* The cells of the view after Remove come from the view and from the list.
LEMMA RemoveView ==
  ASSUME TInv, NEW c \in Clients, Remove(c)
  PROVE  /\ view' \in Seq(Clients) /\ Len(view') = Len(view) /\ old' = old
         /\ \A k \in 1..Len(view) : view'[k] = view[k] \/ view'[k] \in Listed
<1>1. /\ view \in Seq(Clients) /\ Len(view) \in Nat
      /\ subscribers \in Seq(Clients) /\ Len(subscribers) \in Nat
  BY Cells DEF TInv, TypeOK
<1>2. PICK i \in 1..Len(subscribers) :
        view' = IF shared
                THEN [k \in 1..Len(view) |-> IF k <= Len(subscribers)
                                             THEN Moved(subscribers, i)[k] ELSE view[k]]
                ELSE view
  BY DEF Remove
<1>3. old' = old
  BY DEF Remove
<1>4. CASE ~shared
  BY <1>1, <1>2, <1>3, <1>4
<1>5. CASE shared
  <2> DEFINE m == Moved(subscribers, i)
             cells == [k \in 1..Len(view) |-> IF k <= Len(subscribers) THEN m[k] ELSE view[k]]
  <2>1. \A k \in 1..Len(subscribers) : \E j \in 1..Len(subscribers) : m[k] = subscribers[j]
    BY <1>1, MovedProperties
  <2> HIDE DEF m
  <2>2. \A k \in 1..Len(view) : cells[k] = view[k] \/ cells[k] \in Listed
    <3> TAKE k \in 1..Len(view)
    <3>1. CASE k <= Len(subscribers)
      <4>1. k \in 1..Len(subscribers)
        BY <1>1, <3>1
      <4> QED BY <2>1, <3>1, <4>1 DEF Listed
    <3>2. CASE ~(k <= Len(subscribers))
      BY <3>2
    <3> QED BY <3>1, <3>2
  <2>3. Listed \subseteq Clients /\ \A k \in 1..Len(view) : view[k] \in Clients
    BY Cells DEF TInv, Listed
  <2>4. cells \in [1..Len(view) -> Clients]
    BY <2>2, <2>3
  <2>5. view' = cells
    BY <1>2, <1>5 DEF m
  <2> HIDE DEF cells
  <2>6. cells \in Seq(Clients)
    BY <1>1, <2>4, SeqDef
  <2>7. DOMAIN cells = 1..Len(view)
    BY <2>4
  <2>8. Len(cells) = Len(view)
    BY <1>1, <2>6, <2>7, LenProperties
  <2> QED BY <1>3, <2>2, <2>5, <2>6, <2>8
<1> QED BY <1>4, <1>5

LEMMA PublishTInv == TInv /\ Publish => TInv'
<1> SUFFICES ASSUME TInv, Publish PROVE TInv'
  OBVIOUS
<1>1. /\ UNCHANGED <<alive, latest, range, subscribers, cap, handler, channel, history>>
      /\ published' = published + 1 /\ published' \in 1..MaxQuotes
      /\ wire' \in {wire, Append(wire, published')}
  BY QuotesAssumption DEF Publish, TInv, TypeOK
<1>2. wire' \in Seq(1..MaxQuotes)
  <2>1. wire \in Seq(1..MaxQuotes)
    BY DEF TInv, TypeOK
  <2>2. Append(wire, published') \in Seq(1..MaxQuotes)
    BY <1>1, <2>1, AppendProperties
  <2> QED BY <1>1, <2>1, <2>2
<1>3. TypeOK'
  BY <1>1, <1>2 DEF TInv, TypeOK, range, history
<1>4. UpdateOK'
  BY <1>1 DEF TInv, UpdateOK, Ranging, Unlocked, range, history
<1> QED BY <1>3, <1>4 DEF TInv

LEMMA UpdateStepTInv == TInv /\ UpdateStep => TInv'
<1> SUFFICES ASSUME TInv, UpdateStep PROVE TInv'
  OBVIOUS
<1> USE DEF TInv
<1>0. /\ UNCHANGED <<published, subscribers, cap, handler, seen>>
      /\ Unlocked' = Unlocked
  BY DEF UpdateStep, StoreQuote, ReadSubscribers, NextSubscriber, Send, EndRange, Unlocked, history
<1>1. CASE StoreQuote
  <2>1. /\ latest' = Head(wire) /\ wire' = Tail(wire) /\ pc = "idle" /\ pc' = "stored"
        /\ UNCHANGED <<alive, view, old, shared, next, to, channel, history>>
        /\ wire # <<>>
    BY <1>1 DEF StoreQuote
  <2>2. latest' \in 1..MaxQuotes /\ wire' \in Seq(1..MaxQuotes)
    BY <2>1, HeadTailProperties DEF TypeOK
  <2>3. TypeOK'
    <3>1. UNCHANGED <<alive, shared, published, view, old, next, to, subscribers, cap,
                      handler, channel, seen, due, dropped, overlapped>>
      BY ONLY <1>0, <2>1 DEF history
    <3>2. pc' \in {"idle", "stored", "ranging", "sending"} /\ pc' # "sending"
      BY ONLY <2>1
    <3> QED BY ONLY TypeOK, <2>2, <3>1, <3>2 DEF TypeOK
  <2>4. UpdateOK'
    BY ONLY UpdateOK, <1>0, <2>1, <2>2 DEF UpdateOK, Ranging, history
  <2> QED BY <2>3, <2>4
<1>2. CASE ReadSubscribers
  <2>1. /\ pc = "stored" /\ Unlocked /\ pc' = "ranging"
        /\ view' = subscribers /\ old' = subscribers /\ shared' = TRUE /\ next' = 1
        /\ due' = [c \in Clients |-> IF c \in Listed THEN Append(due[c], latest) ELSE due[c]]
        /\ UNCHANGED <<alive, wire, latest, to, channel, dropped, overlapped>>
    BY <1>2 DEF ReadSubscribers
  <2>2. due' \in [Clients -> Seq(1..MaxQuotes)]
    <3>1. latest \in 1..MaxQuotes /\ \A c \in Clients : due[c] \in Seq(1..MaxQuotes)
      BY <2>1 DEF TypeOK, UpdateOK
    <3>2. \A c \in Clients : Append(due[c], latest) \in Seq(1..MaxQuotes)
      BY <3>1, AppendProperties
    <3> QED BY <2>1, <3>1, <3>2
  <2>3. next' \in 1 .. Len(view') + 1
    BY <2>1, Cells
  <2>4. TypeOK'
    BY <1>0, <2>1, <2>2, <2>3 DEF TypeOK
  <2>5. UpdateOK'
    BY <1>0, <2>1 DEF UpdateOK, Ranging
  <2> QED BY <2>4, <2>5
<1>3. CASE NextSubscriber
  <2>1. /\ pc = "ranging" /\ next \in 1..Len(view) /\ to' \in {view[next], old[next]}
        /\ next' = next + 1 /\ pc' = "sending"
        /\ UNCHANGED <<alive, wire, latest, view, old, shared, channel, history>>
    BY <1>3, Cells DEF NextSubscriber, TypeOK
  <2>2. to' \in Clients /\ next' \in 1 .. Len(view) + 1
    BY <2>1, Cells
  <2>3. TypeOK'
    BY <1>0, <2>1, <2>2 DEF TypeOK, history
  <2>4. UpdateOK'
    BY <1>0, <2>1 DEF UpdateOK, Ranging
  <2> QED BY <2>3, <2>4
<1>4. CASE Send
  <2>1. /\ pc = "sending" /\ pc' = "ranging"
        /\ UNCHANGED <<wire, latest, view, old, shared, next, to, due, overlapped>>
        /\ alive' \in {alive, FALSE}
        /\ dropped' \in {dropped, dropped \cup {to}}
        /\ channel' \in {channel, [channel EXCEPT ![to] = Append(@, latest)]}
    BY <1>4 DEF Send
  <2>2. to \in Clients /\ latest \in 1..MaxQuotes
    BY <2>1 DEF TypeOK, UpdateOK
  <2>3. channel' \in [Clients -> Seq(1..MaxQuotes)]
    <3>1. channel \in [Clients -> Seq(1..MaxQuotes)]
      BY DEF TypeOK
    <3>2. [channel EXCEPT ![to] = Append(@, latest)] \in [Clients -> Seq(1..MaxQuotes)]
      BY <2>2, <3>1, AppendAt
    <3> QED BY <2>1, <3>1, <3>2
  <2>4. TypeOK'
    BY <1>0, <2>1, <2>2, <2>3 DEF TypeOK
  <2>5. UpdateOK'
    BY <1>0, <2>1 DEF UpdateOK, Ranging
  <2> QED BY <2>4, <2>5
<1>5. CASE EndRange
  <2>1. /\ pc' = "idle" /\ view' = <<>> /\ old' = <<>> /\ shared' = FALSE
        /\ next' = 1 /\ to' = NoClient
        /\ UNCHANGED <<alive, wire, latest, channel, history>>
    BY <1>5 DEF EndRange
  <2>2. <<>> \in Seq(Clients) /\ Len(<<>>) = 0
    BY EmptySeq
  <2>3. next' \in 1 .. Len(view') + 1
    BY <2>1, <2>2
  <2>4. TypeOK'
    BY <1>0, <2>1, <2>2, <2>3 DEF TypeOK, history
  <2>5. UpdateOK'
    BY <2>1 DEF UpdateOK, Ranging
  <2> QED BY <2>4, <2>5
<1> QED BY <1>1, <1>2, <1>3, <1>4, <1>5 DEF UpdateStep

LEMMA SubscribeTInv ==
  ASSUME TInv, NEW c \in Clients, Subscribe(c)
  PROVE  TInv'
<1> USE DEF TInv
<1>1. /\ handler' = [handler EXCEPT ![c] = "open"] /\ subscribers' = Append(subscribers, c)
      /\ Unlocked
      /\ UNCHANGED <<alive, published, wire, latest, pc, next, to, channel, history>>
  BY DEF Subscribe
<1>2. /\ view' \in Seq(Clients) /\ Len(view') = Len(view) /\ old' = view'
  BY SubscribeView
<1>3. subscribers' \in Seq(Clients) /\ Len(subscribers') = Len(subscribers) + 1
  BY <1>1, AppendProperties DEF TypeOK
<1>4. /\ shared' \in BOOLEAN /\ (shared = FALSE => shared' = FALSE)
      /\ cap' \in Nat /\ Len(subscribers') <= cap'
  <2>1. Len(subscribers) \in Nat /\ cap \in Nat /\ Len(subscribers) <= cap
    BY Cells DEF TypeOK
  <2>2. CASE Len(subscribers) + 1 <= cap
    <3>1. cap' = cap /\ shared' = shared
      BY <2>2 DEF Subscribe
    <3> QED BY <1>3, <2>1, <2>2, <3>1 DEF TypeOK
  <2>3. CASE ~(Len(subscribers) + 1 <= cap)
    <3>1. cap' = Grown(cap) /\ shared' = FALSE
      BY <2>3 DEF Subscribe
    <3>2. cap' \in Nat /\ cap + 1 <= cap'
      BY <2>1, <2>3, <3>1 DEF Grown
    <3>3. Len(subscribers') <= cap'
      BY <1>3, <2>1, <3>2
    <3> QED BY <3>1, <3>2, <3>3
  <2> QED BY <2>2, <2>3
<1>5. handler' \in [Clients -> {"new", "open", "leaving", "removing", "gone"}]
  BY <1>1 DEF TypeOK
<1>6. TypeOK'
  BY <1>1, <1>2, <1>3, <1>4, <1>5 DEF TypeOK, history
<1>7. UpdateOK'
  <2>1. ~Ranging' => view' = <<>>
    <3>1. view = <<>> => view' = view
      BY <1>2, EmptySeq DEF TypeOK
    <3> QED BY <1>1, <3>1 DEF UpdateOK, Ranging
  <2> QED BY <1>1, <1>2, <1>4, <2>1 DEF UpdateOK, Ranging
<1> QED BY <1>6, <1>7

LEMMA ReceiveTInv ==
  ASSUME TInv, NEW c \in Clients, Receive(c)
  PROVE  TInv'
<1> USE DEF TInv
<1>1. /\ handler[c] = "open" /\ channel[c] # <<>>
      /\ channel' = [channel EXCEPT ![c] = Tail(@)]
      /\ seen' = [seen EXCEPT ![c] = Append(@, Head(channel[c]))]
      /\ UNCHANGED <<alive, published, wire, latest, range, subscribers, cap, handler, due,
                     dropped, overlapped>>
  BY DEF Receive
<1>2. Tail(channel[c]) \in Seq(1..MaxQuotes) /\ Head(channel[c]) \in 1..MaxQuotes
  BY <1>1, HeadTailProperties DEF TypeOK
<1>3. channel' \in [Clients -> Seq(1..MaxQuotes)] /\ seen' \in [Clients -> Seq(1..MaxQuotes)]
  BY <1>1, <1>2, AppendAt DEF TypeOK
<1>4. TypeOK'
  BY <1>1, <1>3 DEF TypeOK, range
<1>5. UpdateOK'
  BY <1>1 DEF UpdateOK, Ranging, Unlocked, range
<1> QED BY <1>4, <1>5

LEMMA WriteFailsTInv ==
  ASSUME TInv, NEW c \in Clients, WriteFails(c)
  PROVE  TInv'
<1> USE DEF TInv
<1>1. /\ handler[c] = "open" /\ handler' = [handler EXCEPT ![c] = "leaving"]
      /\ UNCHANGED <<alive, published, wire, latest, range, subscribers, cap, channel, history>>
  BY DEF WriteFails
<1>2. handler' \in [Clients -> {"new", "open", "leaving", "removing", "gone"}]
  BY <1>1 DEF TypeOK
<1>3. TypeOK'
  BY <1>1, <1>2 DEF TypeOK, range, history
<1>4. Unlocked' = Unlocked
  BY <1>1, <1>2 DEF Unlocked, TypeOK
<1>5. UpdateOK'
  BY <1>1, <1>4 DEF UpdateOK, Ranging, range
<1> QED BY <1>3, <1>5

LEMMA RemoveTInv ==
  ASSUME TInv, NEW c \in Clients, Remove(c)
  PROVE  TInv'
<1> USE DEF TInv
<1>1. /\ handler' = [handler EXCEPT ![c] = "removing"]
      /\ overlapped' = (overlapped \/ pc \in {"ranging", "sending"})
      /\ UNCHANGED <<alive, published, wire, latest, pc, old, shared, next, to, cap, channel,
                     seen, due, dropped>>
  BY DEF Remove
<1>2. PICK i \in 1..Len(subscribers) : subscribers' = Without(subscribers, i)
  BY DEF Remove
<1>3. subscribers' \in Seq(Clients) /\ Len(subscribers') = Len(subscribers) - 1
  BY <1>2, WithoutProperties DEF TypeOK
<1>4. Len(subscribers') <= cap
  BY <1>3, Cells DEF TypeOK
<1>5. handler' \in [Clients -> {"new", "open", "leaving", "removing", "gone"}]
  BY <1>1 DEF TypeOK
<1>6. view' \in Seq(Clients) /\ Len(view') = Len(view)
  BY RemoveView
<1>7. TypeOK'
  <2>1. overlapped' \in BOOLEAN
    BY <1>1
  <2> QED BY <1>1, <1>3, <1>4, <1>5, <1>6, <2>1 DEF TypeOK
<1>8. ~Unlocked'
  BY <1>1 DEF Unlocked, TypeOK
<1>9. shared = FALSE => view' = view
  BY DEF Remove
<1>10. UpdateOK'
  BY <1>1, <1>8, <1>9 DEF UpdateOK, Ranging
<1> QED BY <1>7, <1>10

LEMMA CloseTInv ==
  ASSUME TInv, NEW c \in Clients, Close(c)
  PROVE  TInv'
<1> USE DEF TInv
<1>1. /\ handler' = [handler EXCEPT ![c] = "gone"] /\ old' = view
      /\ UNCHANGED <<alive, published, wire, latest, pc, view, shared, next, to, subscribers, cap,
                     channel, history>>
  BY DEF Close
<1>2. handler' \in [Clients -> {"new", "open", "leaving", "removing", "gone"}]
  BY <1>1 DEF TypeOK
<1>3. TypeOK'
  BY <1>1, <1>2 DEF TypeOK, history
<1>4. UpdateOK'
  BY <1>1 DEF UpdateOK, Ranging
<1> QED BY <1>3, <1>4

LEMMA NextTInv == TInv /\ [Next]_vars => TInv'
<1> SUFFICES ASSUME TInv, [Next]_vars PROVE TInv'
  OBVIOUS
<1>1. CASE UNCHANGED vars
  BY <1>1 DEF vars, range, history, TInv, TypeOK, UpdateOK, Ranging, Unlocked
<1> QED BY <1>1, PublishTInv, UpdateStepTInv, SubscribeTInv, ReceiveTInv, WriteFailsTInv,
           RemoveTInv, CloseTInv DEF Next, HandlerStep

-----------------------------------------------------------------------------
(***************************************************************************)
(* The list of subscribers                                                 *)
(***************************************************************************)

Elems(s) == {s[i] : i \in 1..Len(s)}

Distinct(s) == \A i, j \in 1..Len(s) : s[i] = s[j] => i = j

LEMMA AppendElems ==
  ASSUME NEW S, NEW s \in Seq(S), NEW e \in S
  PROVE  /\ Elems(Append(s, e)) = Elems(s) \cup {e}
         /\ Distinct(s) /\ e \notin Elems(s) => Distinct(Append(s, e))
<1> DEFINE t == Append(s, e)
<1>1. /\ Len(s) \in Nat /\ Len(t) = Len(s) + 1
      /\ \A i \in 1..Len(s) : t[i] = s[i]
      /\ t[Len(s) + 1] = e
  BY LenProperties, AppendProperties
<1> HIDE DEF t
<1>2. \A i \in 1..Len(t) : i \in 1..Len(s) \/ i = Len(s) + 1
  BY <1>1
<1>3. 1..Len(s) \subseteq 1..Len(t) /\ Len(s) + 1 \in 1..Len(t)
  BY <1>1
<1>4. Elems(t) = Elems(s) \cup {e}
  BY <1>1, <1>2, <1>3 DEF Elems
<1>5. Distinct(s) /\ e \notin Elems(s) => Distinct(t)
  BY <1>1, <1>2 DEF Elems, Distinct
<1> QED BY <1>4, <1>5 DEF t

LEMMA WithoutElems ==
  ASSUME NEW S, NEW s \in Seq(S), NEW i \in 1..Len(s), Distinct(s)
  PROVE  /\ Elems(Without(s, i)) = Elems(s) \ {s[i]}
         /\ Distinct(Without(s, i))
<1> DEFINE t == Without(s, i)
<1>1. /\ Len(s) \in Nat /\ Len(t) = Len(s) - 1
      /\ \A k \in 1..Len(t) : t[k] = IF k < i THEN s[k] ELSE s[k + 1]
  BY LenProperties, WithoutProperties
<1> HIDE DEF t
<1> DEFINE from(k) == IF k < i THEN k ELSE k + 1
<1>2. \A k \in 1..Len(t) : from(k) \in 1..Len(s) /\ from(k) # i /\ t[k] = s[from(k)]
  BY <1>1
<1>3. \A k, m \in 1..Len(t) : from(k) = from(m) => k = m
  BY <1>1
<1>4. ASSUME NEW j \in 1..Len(s), j # i
      PROVE  \E k \in 1..Len(t) : from(k) = j
  <2>1. CASE j < i
    <3>1. j \in 1..Len(t) /\ from(j) = j
      BY <1>1, <2>1
    <3> QED BY <3>1
  <2>2. CASE j > i
    <3>1. j - 1 \in 1..Len(t) /\ from(j - 1) = j
      BY <1>1, <2>2
    <3> QED BY <3>1
  <2> QED BY <1>4, <2>1, <2>2
<1> HIDE DEF from
<1>5. Distinct(t)
  BY <1>2, <1>3 DEF Distinct
<1>6. \A j \in 1..Len(s) : s[j] = s[i] => j = i
  BY DEF Distinct
<1>7. Elems(t) = Elems(s) \ {s[i]}
  <2>1. ASSUME NEW x \in Elems(t)
        PROVE  x \in Elems(s) \ {s[i]}
    BY <1>2, <1>6 DEF Elems
  <2>2. ASSUME NEW x \in Elems(s) \ {s[i]}
        PROVE  x \in Elems(t)
    <3>1. PICK j \in 1..Len(s) : x = s[j] /\ j # i
      BY DEF Elems
    <3>2. PICK k \in 1..Len(t) : from(k) = j
      BY <1>4, <3>1
    <3> QED BY <1>2, <3>1, <3>2 DEF Elems
  <2> QED BY <2>1, <2>2
<1> QED BY <1>5, <1>7 DEF t

LInv == TInv /\ ListMatchesHandlers

LEMMA ListDef == ListMatchesHandlers <=> (Elems(subscribers) = Served /\ Distinct(subscribers))
BY DEF ListMatchesHandlers, Listed, Elems, Served, Distinct

\* How the steps change what the handlers do.
LEMMA HandlerSteps ==
  ASSUME TInv, [Next]_vars
  PROVE  \/ UNCHANGED <<handler, subscribers>>
         \/ \E c \in Clients : Subscribe(c) \/ WriteFails(c) \/ Remove(c) \/ Close(c)
BY DEF Receive, Next, UpdateStep, StoreQuote, ReadSubscribers, NextSubscriber, Send, EndRange, Publish,
       HandlerStep, vars

LEMMA NextLInv == LInv /\ [Next]_vars => LInv'
<1> SUFFICES ASSUME LInv, [Next]_vars PROVE LInv'
  OBVIOUS
<1> USE DEF LInv
<1>1. TInv' /\ TInv
  BY NextTInv
<1>2. /\ subscribers \in Seq(Clients) /\ handler \in [Clients -> Handlers]
      /\ Elems(subscribers) = Served /\ Distinct(subscribers)
  BY ListDef DEF TInv, TypeOK, Handlers
<1>3. CASE UNCHANGED <<handler, subscribers>>
  <2>1. ListMatchesHandlers'
    BY <1>3 DEF ListMatchesHandlers, Listed
  <2> QED BY <1>1, <2>1
<1>4. ASSUME NEW c \in Clients, Subscribe(c)
      PROVE  ListMatchesHandlers'
  <2>1. /\ handler[c] = "new" /\ handler' = [handler EXCEPT ![c] = "open"]
        /\ subscribers' = Append(subscribers, c)
    BY <1>4 DEF Subscribe
  <2>2. Served' = Served \cup {c} /\ c \notin Served
    BY <1>2, <2>1 DEF Served
  <2>3. Elems(subscribers') = Served' /\ Distinct(subscribers')
    BY <1>2, <2>1, <2>2, AppendElems
  <2> QED BY <2>3 DEF ListMatchesHandlers, Listed, Elems, Served, Distinct
<1>5. ASSUME NEW c \in Clients, WriteFails(c)
      PROVE  ListMatchesHandlers'
  <2>1. /\ handler[c] = "open" /\ subscribers' = subscribers
        /\ handler' = [handler EXCEPT ![c] = "leaving"]
    BY <1>5 DEF WriteFails
  <2>2. Served' = Served
    BY <1>2, <2>1 DEF Served
  <2> QED BY <1>2, <2>1, <2>2 DEF ListMatchesHandlers, Listed, Elems, Served, Distinct
<1>6. ASSUME NEW c \in Clients, Remove(c)
      PROVE  ListMatchesHandlers'
  <2>1. handler[c] = "leaving" /\ handler' = [handler EXCEPT ![c] = "removing"]
    BY <1>6 DEF Remove
  <2>2. PICK i \in 1..Len(subscribers) :
          subscribers[i] = c /\ subscribers' = Without(subscribers, i)
    BY <1>6 DEF Remove
  <2>3. Served' = Served \ {c}
    BY <1>2, <2>1 DEF Served
  <2>4. Elems(subscribers') = Served' /\ Distinct(subscribers')
    BY <1>2, <2>2, <2>3, WithoutElems
  <2> QED BY <2>4 DEF ListMatchesHandlers, Listed, Elems, Served, Distinct
<1>7. ASSUME NEW c \in Clients, Close(c)
      PROVE  ListMatchesHandlers'
  <2>1. /\ handler[c] = "removing" /\ handler' = [handler EXCEPT ![c] = "gone"]
        /\ subscribers' = subscribers
    BY <1>7 DEF Close
  <2>2. Served' = Served
    BY <1>2, <2>1 DEF Served
  <2> QED BY <1>2, <2>1, <2>2 DEF ListMatchesHandlers, Listed, Elems, Served, Distinct
<1> QED BY <1>1, <1>3, <1>4, <1>5, <1>6, <1>7, HandlerSteps

LEMMA InitLInv == Init => LInv
<1> SUFFICES ASSUME Init PROVE LInv
  OBVIOUS
<1>1. TInv
  BY InitTInv
<1>2. 1..Len(subscribers) = {}
  BY EmptySeq DEF Init
<1>3. ListMatchesHandlers
  BY <1>2 DEF Init, ListMatchesHandlers, Listed
<1> QED BY <1>1, <1>3 DEF LInv
-----------------------------------------------------------------------------
(***************************************************************************)
(* What the range meets                                                    *)
(***************************************************************************)

\* A cell that the range may read never holds a client that has not come yet,
\* whatever Unsubscribe does to the cells.
CellsOK ==
  /\ \A i \in 1..Len(view) : handler[view[i]] # "new" /\ handler[old[i]] # "new"
  /\ pc = "sending" => handler[to] # "new"

\* While nobody leaves, the range meets each client that is served at most once
\* and no other.
Still ==
  /\ Unlocked
  /\ Elems(view) \subseteq Served
  /\ Distinct(view)
  /\ Len(view) <= Len(subscribers)
  /\ pc = "sending" => to \in Served /\ \A i \in next..Len(view) : view[i] # to

StillOK == alive /\ ~overlapped /\ Ranging => Still

\* The messages come in the order of their generation, and none that came
\* before.
WireOK ==
  /\ latest <= published
  /\ \A i \in 1..Len(wire) : latest < wire[i] /\ wire[i] <= published
  /\ \A i, j \in 1..Len(wire) : i < j => wire[i] < wire[j]

IInv == LInv /\ CellsOK /\ StillOK /\ DiesOnlyOfOverlap /\ WireOK

LEMMA InitIInv == Init => IInv
<1> SUFFICES ASSUME Init PROVE IInv
  OBVIOUS
<1>1. Len(view) = 0 /\ Len(wire) = 0 /\ 1..0 = {}
  BY EmptySeq DEF Init
<1>2. LInv
  BY InitLInv
<1>3. CellsOK /\ WireOK
  BY <1>1 DEF Init, CellsOK, WireOK
<1>4. StillOK /\ DiesOnlyOfOverlap
  BY DEF Init, StillOK, Ranging, DiesOnlyOfOverlap
<1> QED BY <1>2, <1>3, <1>4 DEF IInv

\* Nobody becomes new.
LEMMA NobodyNew ==
  ASSUME LInv, [Next]_vars, NEW c \in Clients, handler[c] # "new"
  PROVE  handler'[c] # "new"
<1>1. handler \in [Clients -> Handlers]
  BY DEF LInv, TInv, TypeOK, Handlers
<1>2. LInv /\ TInv
  BY DEF LInv
<1> QED BY <1>1, <1>2, HandlerSteps DEF Subscribe, WriteFails, Remove, Close

LEMMA ListedNotNew ==
  ASSUME LInv
  PROVE  /\ \A i \in 1..Len(subscribers) : handler[subscribers[i]] # "new"
         /\ \A c \in Listed : handler[c] # "new"
BY DEF LInv, ListMatchesHandlers, Listed

LEMMA NextCellsOK ==
  ASSUME IInv, [Next]_vars
  PROVE  CellsOK'
<1> USE DEF IInv
<1>0. /\ TInv /\ TypeOK /\ LInv
  BY DEF LInv, TInv
<1>1. /\ \A c \in Clients : handler[c] # "new" => handler'[c] # "new"
      /\ \A i \in 1..Len(view) : view[i] \in Clients /\ old[i] \in Clients
      /\ pc = "sending" => to \in Clients
  BY <1>0, NobodyNew, Cells DEF TypeOK
<1>2. CASE UNCHANGED <<view, old, pc, to>>
  BY <1>1, <1>2 DEF CellsOK
<1>3. CASE ReadSubscribers
  <2>1. view' = subscribers /\ old' = subscribers /\ handler' = handler /\ pc' = "ranging"
    BY <1>3 DEF ReadSubscribers
  <2> QED BY <1>0, <2>1, ListedNotNew DEF CellsOK
<1>4. CASE NextSubscriber
  <2>1. /\ next \in 1..Len(view) /\ to' \in {view[next], old[next]}
        /\ UNCHANGED <<view, old, handler>>
    BY <1>0, <1>4, Cells DEF NextSubscriber, TypeOK
  <2> QED BY <2>1 DEF CellsOK
<1>5. CASE Send
  <2>1. pc' = "ranging" /\ UNCHANGED <<view, old, handler>>
    BY <1>5 DEF Send
  <2> QED BY <2>1 DEF CellsOK
<1>6. CASE EndRange
  <2>1. pc' = "idle" /\ Len(view') = 0 /\ 1..0 = {}
    BY <1>6, EmptySeq DEF EndRange
  <2> QED BY <2>1 DEF CellsOK
<1>7. CASE StoreQuote
  <2>1. pc' = "stored" /\ UNCHANGED <<view, old, handler>>
    BY <1>7 DEF StoreQuote
  <2> QED BY <2>1 DEF CellsOK
<1>8. ASSUME NEW c \in Clients, Subscribe(c)
      PROVE  CellsOK'
  <2>1. /\ handler' = [handler EXCEPT ![c] = "open"] /\ handler \in [Clients -> Handlers]
        /\ UNCHANGED <<pc, to>>
    BY <1>0, <1>8 DEF Subscribe, TypeOK, Handlers
  <2>2. /\ Len(view') = Len(view) /\ old' = view'
        /\ \A i \in 1..Len(view) : view'[i] = view[i] \/ view'[i] = c
    BY <1>0, <1>8, SubscribeView
  <2>3. handler'[c] # "new"
    BY <2>1
  <2> QED BY <1>1, <2>1, <2>2, <2>3 DEF CellsOK
<1>9. ASSUME NEW c \in Clients, Remove(c)
      PROVE  CellsOK'
  <2>1. UNCHANGED <<pc, to>>
    BY <1>9 DEF Remove
  <2>2. /\ Len(view') = Len(view) /\ old' = old
        /\ \A k \in 1..Len(view) : view'[k] = view[k] \/ view'[k] \in Listed
    BY <1>0, <1>9, RemoveView
  <2>3. \A d \in Listed : d \in Clients /\ handler[d] # "new"
    BY <1>0, ListedNotNew, Cells DEF Listed
  <2> QED BY <1>1, <2>1, <2>2, <2>3 DEF CellsOK
<1>10. ASSUME NEW c \in Clients, Close(c)
       PROVE  CellsOK'
  <2>1. UNCHANGED <<pc, to, view>> /\ old' = view
    BY <1>10 DEF Close
  <2> QED BY <1>1, <2>1 DEF CellsOK
<1>11. CASE Publish \/ UNCHANGED vars \/ \E c \in Clients : Receive(c) \/ WriteFails(c)
  BY <1>2, <1>11 DEF Publish, Receive, WriteFails, vars, range
<1> QED BY <1>3, <1>4, <1>5, <1>6, <1>7, <1>8, <1>9, <1>10, <1>11
        DEF Next, UpdateStep, HandlerStep

LEMMA NextStillOK ==
  ASSUME IInv, [Next]_vars
  PROVE  StillOK'
<1> USE DEF IInv
<1>0. /\ TInv /\ TypeOK /\ LInv /\ UpdateOK
      /\ handler \in [Clients -> Handlers]
  BY DEF LInv, TInv, TypeOK, Handlers
<1> SUFFICES ASSUME alive', ~overlapped', Ranging' PROVE Still'
  BY DEF StillOK
<1>1. CASE UNCHANGED <<alive, overlapped, range, handler, subscribers>>
  BY <1>1 DEF StillOK, Still, Ranging, Unlocked, Served, Elems, Distinct, range
<1>2. CASE ReadSubscribers
  <2>1. /\ view' = subscribers /\ pc' = "ranging" /\ Unlocked
        /\ UNCHANGED <<handler, subscribers>>
    BY <1>2 DEF ReadSubscribers
  <2>2. Elems(subscribers) = Served /\ Distinct(subscribers)
    BY <1>0, ListDef DEF LInv
  <2> QED BY <1>0, <2>1, <2>2, Cells DEF Still, Unlocked, Served, Elems, Distinct
<1>3. CASE NextSubscriber
  <2>1. /\ next \in 1..Len(view) /\ to' \in {view[next], old[next]} /\ next' = next + 1
        /\ Ranging
        /\ UNCHANGED <<alive, overlapped, view, handler, subscribers>>
    BY <1>0, <1>3, Cells DEF NextSubscriber, TypeOK, Ranging, history
  <2>2. /\ Unlocked /\ Elems(view) \subseteq Served /\ Distinct(view)
        /\ Len(view) <= Len(subscribers)
    BY <2>1 DEF StillOK, Still
  <2>3. to' = view[next]
    BY <1>0, <2>1, <2>2 DEF UpdateOK
  <2>4. to' \in Served
    BY <2>1, <2>2, <2>3 DEF Elems
  <2>5. \A i \in next + 1 .. Len(view) : view[i] # to'
    <3>1. \A i \in next + 1 .. Len(view) : i \in 1..Len(view) /\ i # next
      BY <1>0, <2>1, Cells
    <3> QED BY <2>1, <2>2, <2>3, <3>1 DEF Distinct
  <2> QED BY <2>1, <2>2, <2>4, <2>5 DEF Still, Unlocked, Served, Elems, Distinct
<1>4. CASE Send
  <2>1. /\ alive /\ Ranging /\ pc' = "ranging"
        /\ UNCHANGED <<overlapped, view, handler, subscribers>>
    BY <1>4 DEF Send, Ranging
  <2> QED BY <2>1 DEF StillOK, Still, Unlocked, Served, Elems, Distinct
<1>5. CASE StoreQuote \/ EndRange
  BY <1>5 DEF StoreQuote, EndRange, Ranging
<1>6. ASSUME NEW c \in Clients, Subscribe(c)
      PROVE  Still'
  <2>1. /\ alive /\ handler[c] = "new" /\ handler' = [handler EXCEPT ![c] = "open"]
        /\ subscribers' = Append(subscribers, c)
        /\ UNCHANGED <<overlapped, pc, to, next>>
    BY <1>6 DEF Subscribe, history
  <2>2. /\ Unlocked /\ Elems(view) \subseteq Served /\ Distinct(view)
        /\ Len(view) <= Len(subscribers)
        /\ pc = "sending" => to \in Served /\ \A i \in next..Len(view) : view[i] # to
    BY <2>1 DEF StillOK, Still, Ranging
  <2>3. view' = view
    BY <1>0, <1>6, <2>2, SubscribeView
  <2>4. Len(view) \in Nat /\ Len(subscribers) \in Nat /\ Len(subscribers') = Len(subscribers) + 1
    BY <1>0, <2>1, Cells, AppendProperties DEF TypeOK
  <2>5. Served \subseteq Served'
    BY <1>0, <2>1 DEF Served
  <2>6. Unlocked'
    BY <1>0, <2>1, <2>2 DEF Unlocked
  <2> QED BY <2>1, <2>2, <2>3, <2>4, <2>5, <2>6 DEF Still, Elems, Distinct
<1>7. ASSUME NEW c \in Clients, WriteFails(c)
      PROVE  Still'
  <2>1. /\ handler[c] = "open" /\ handler' = [handler EXCEPT ![c] = "leaving"]
        /\ UNCHANGED <<alive, overlapped, range, subscribers>>
    BY <1>7 DEF WriteFails, history
  <2>2. Served' = Served /\ Unlocked' = Unlocked
    BY <1>0, <2>1 DEF Served, Unlocked
  <2> QED BY <2>1, <2>2 DEF StillOK, Still, Ranging, Elems, Distinct, range
<1>8. ASSUME NEW c \in Clients, Remove(c)
      PROVE  FALSE
  BY <1>8 DEF Remove, Ranging
<1>9. ASSUME NEW c \in Clients, Close(c)
      PROVE  FALSE
  <2>1. handler[c] = "removing" /\ UNCHANGED <<alive, overlapped, pc>>
    BY <1>9 DEF Close, history
  <2> QED BY <2>1 DEF StillOK, Still, Ranging, Unlocked
<1>10. CASE Publish \/ UNCHANGED vars \/ \E c \in Clients : Receive(c)
  BY <1>1, <1>10 DEF Publish, Receive, vars, history
<1> QED BY <1>2, <1>3, <1>4, <1>5, <1>6, <1>7, <1>8, <1>9, <1>10
        DEF Next, UpdateStep, HandlerStep
LEMMA NextDiesOnlyOfOverlap ==
  ASSUME IInv, [Next]_vars
  PROVE  DiesOnlyOfOverlap'
<1> USE DEF IInv
<1> SUFFICES ASSUME published' > 0, ~alive' PROVE overlapped'
  BY DEF DiesOnlyOfOverlap
<1>1. CASE UNCHANGED <<alive, published, overlapped>>
  BY <1>1 DEF DiesOnlyOfOverlap
<1>2. CASE Send
  <2>1. to \in Closed /\ alive /\ pc = "sending" /\ overlapped' = overlapped
    BY <1>2 DEF Send
  <2>2. CASE overlapped
    BY <2>1, <2>2 DEF LInv, TInv, TypeOK
  <2>3. CASE ~overlapped
    BY <2>1, <2>3 DEF StillOK, Still, Ranging, Served, Closed
  <2> QED BY <2>2, <2>3
<1>3. CASE Next /\ ~Send /\ ~UNCHANGED <<alive, published, overlapped>>
  BY <1>3 DEF Next, Publish, UpdateStep, StoreQuote, ReadSubscribers, NextSubscriber, EndRange,
              Subscribe, HandlerStep, Receive, WriteFails, Remove, Close, history
<1> QED BY <1>1, <1>2, <1>3 DEF vars, history

LEMMA NextWireOK ==
  ASSUME IInv, [Next]_vars
  PROVE  WireOK'
<1> USE DEF IInv
<1>1. /\ wire \in Seq(1..MaxQuotes) /\ Len(wire) \in Nat /\ MaxQuotes \in Nat
      /\ published \in 0..MaxQuotes /\ latest \in 0..MaxQuotes
      /\ \A i \in 1..Len(wire) : wire[i] \in 1..MaxQuotes
  <2>1. wire \in Seq(1..MaxQuotes)
    BY DEF LInv, TInv, TypeOK
  <2> QED BY <2>1, LenProperties, ElementOfSeq, QuotesAssumption DEF LInv, TInv, TypeOK
<1>2. CASE UNCHANGED <<wire, latest, published>>
  BY <1>2 DEF WireOK
<1>3. CASE Publish
  <2>1. /\ published' = published + 1 /\ published' \in 1..MaxQuotes /\ latest' = latest
        /\ wire' \in {wire, Append(wire, published')}
    BY <1>1, <1>3 DEF Publish
  <2>2. CASE wire' = wire
    BY <1>1, <2>1, <2>2 DEF WireOK
  <2>3. CASE wire' = Append(wire, published')
    <3>1. /\ Len(wire') = Len(wire) + 1
          /\ \A i \in 1..Len(wire) : wire'[i] = wire[i]
          /\ wire'[Len(wire) + 1] = published'
      BY <1>1, <2>1, <2>3, AppendProperties
    <3>2. \A i \in 1..Len(wire') : i \in 1..Len(wire) \/ i = Len(wire) + 1
      BY <1>1, <3>1
    <3>3. \A i \in 1..Len(wire') : latest' < wire'[i] /\ wire'[i] <= published'
      BY <1>1, <2>1, <3>1, <3>2 DEF WireOK
    <3>4. ASSUME NEW i \in 1..Len(wire'), NEW j \in 1..Len(wire'), i < j
          PROVE  wire'[i] < wire'[j]
      <4>1. i \in 1..Len(wire)
        BY <1>1, <3>1, <3>4
      <4>2. CASE j \in 1..Len(wire)
        BY <3>1, <3>4, <4>1, <4>2 DEF WireOK
      <4>3. CASE j = Len(wire) + 1
        BY <1>1, <2>1, <3>1, <4>1, <4>3 DEF WireOK
      <4> QED BY <3>2, <4>2, <4>3
    <3> QED BY <1>1, <2>1, <3>3, <3>4 DEF WireOK
  <2> QED BY <2>1, <2>2, <2>3
<1>4. CASE StoreQuote
  <2>1. wire # <<>> /\ latest' = Head(wire) /\ wire' = Tail(wire) /\ published' = published
    BY <1>4 DEF StoreQuote
  <2>2. /\ Len(wire') = Len(wire) - 1 /\ \A i \in 1..Len(wire') : wire'[i] = wire[i + 1]
        /\ Head(wire) = wire[1] /\ 1 \in 1..Len(wire)
    BY <1>1, <2>1, HeadTailProperties, EmptySeq
  <2>3. \A i \in 1..Len(wire') : i + 1 \in 1..Len(wire) /\ 1 < i + 1
    BY <1>1, <2>2
  <2>4. \A i, j \in 1..Len(wire') : i < j => i + 1 < j + 1
    OBVIOUS
  <2> QED BY <1>1, <2>1, <2>2, <2>3, <2>4 DEF WireOK
<1>5. CASE Next /\ ~Publish /\ ~StoreQuote
  <2>1. UNCHANGED <<wire, latest, published>>
    BY <1>5 DEF Next, UpdateStep, ReadSubscribers, NextSubscriber, Send, EndRange,
                Subscribe, HandlerStep, Receive, WriteFails, Remove, Close
  <2> QED BY <1>2, <2>1
<1> QED BY <1>2, <1>3, <1>4, <1>5 DEF vars

LEMMA Invariance == Spec => []IInv
<1>1. IInv /\ [Next]_vars => IInv'
  BY NextLInv, NextCellsOK, NextStillOK, NextDiesOnlyOfOverlap, NextWireOK DEF IInv
<1> QED BY <1>1, InitIInv, PTL DEF Spec

\* Type correctness.
THEOREM TypeCorrect == Spec => []TypeOK
<1>1. IInv => TypeOK
  BY DEF IInv, LInv, TInv
<1> QED BY <1>1, Invariance, PTL

\* The list of subscribers is right, however many come and leave.
THEOREM ListIsRight == Spec => []ListMatchesHandlers
<1>1. IInv => ListMatchesHandlers
  BY DEF IInv, LInv
<1> QED BY <1>1, Invariance, PTL

\* Only an Unsubscribe during an update kills the process.
THEOREM OnlyOverlapKills == Spec => []DiesOnlyOfOverlap
<1>1. IInv => DiesOnlyOfOverlap
  BY DEF IInv
<1> QED BY <1>1, Invariance, PTL

-----------------------------------------------------------------------------
(***************************************************************************)
(* The service implements the subscription of Feed                         *)
(***************************************************************************)

\* The last quote of a client, and the state in which its subscription is.
LastSeen(s) == IF s = <<>> THEN 0 ELSE s[Len(s)]

Member(h) == IF h = "new" THEN "out" ELSE IF h = "gone" THEN "left" ELSE "in"

LEMMA InitFeed == Init => F!Init
BY DEF Init, F!Init

LEMMA StepFeed ==
  ASSUME IInv, [Next]_vars
  PROVE  [F!Next]_(F!vars)
<1> USE DEF IInv
<1>0. /\ TypeOK /\ handler \in [Clients -> Handlers]
      /\ channel \in [Clients -> Seq(1..MaxQuotes)] /\ seen \in [Clients -> Seq(1..MaxQuotes)]
  BY DEF LInv, TInv, TypeOK, Handlers
<1>1. CASE UNCHANGED <<latest, handler, channel, seen>>
  BY <1>1 DEF F!vars
<1>2. CASE StoreQuote
  <2>1. /\ wire # <<>> /\ latest' = Head(wire)
        /\ UNCHANGED <<handler, channel, seen>>
    BY <1>2 DEF StoreQuote, history
  <2>2. /\ wire \in Seq(1..MaxQuotes)
        /\ published \in 0..MaxQuotes /\ latest \in 0..MaxQuotes /\ MaxQuotes \in Nat
    BY <1>0, QuotesAssumption DEF TypeOK
  <2>3. 1 \in 1..Len(wire) /\ Head(wire) = wire[1] /\ wire[1] \in 1..MaxQuotes
    BY <2>1, <2>2, EmptySeq, ElementOfSeq
  <2>4. latest' \in latest + 1 .. MaxQuotes
    BY <2>1, <2>2, <2>3 DEF WireOK
  <2>5. F!Tick
    BY <2>1, <2>4 DEF F!Tick
  <2> QED BY <2>5 DEF F!Next
<1>3. CASE Send
  <2>1. pc = "sending" /\ UNCHANGED <<latest, handler, seen>>
    BY <1>3 DEF Send
  <2>2. to \in Clients /\ handler[to] # "new"
    BY <1>0, <2>1 DEF CellsOK, TypeOK
  <2>3. CASE channel' = channel
    BY <1>1, <2>1, <2>3
  <2>4. CASE channel' # channel
    <3>1. /\ to \notin Closed /\ Len(channel[to]) < Capacity
          /\ channel' = [channel EXCEPT ![to] = Append(@, latest)]
      BY <1>3, <2>4 DEF Send
    <3>2. F!Deliver(to)
      BY <1>0, <2>1, <2>2, <3>1 DEF F!Deliver, Closed
    <3> QED BY <2>2, <3>2 DEF F!Next
  <2> QED BY <2>3, <2>4
<1>4. ASSUME NEW c \in Clients, Subscribe(c)
      PROVE  F!Join(c)
  <2>1. /\ handler[c] = "new" /\ handler' = [handler EXCEPT ![c] = "open"]
        /\ UNCHANGED <<latest, channel, seen>>
    BY <1>4 DEF Subscribe, history
  <2> QED BY <1>0, <2>1 DEF F!Join
<1>5. ASSUME NEW c \in Clients, Receive(c)
      PROVE  F!Take(c)
  <2>1. /\ handler[c] = "open" /\ channel[c] # <<>> /\ latest' = latest
        /\ channel' = [channel EXCEPT ![c] = Tail(@)]
        /\ seen' = [seen EXCEPT ![c] = Append(@, Head(channel[c]))]
        /\ handler' = handler
    BY <1>5 DEF Receive
  <2>2. [d \in Clients |-> Member(handler'[d])] = [d \in Clients |-> Member(handler[d])]
    BY <1>0, <2>1 DEF Member
  <2>3. LastSeen(seen'[c]) = Head(channel[c])
    <3>1. Head(channel[c]) \in 1..MaxQuotes /\ seen[c] \in Seq(1..MaxQuotes)
      BY <1>0, <2>1, HeadTailProperties
    <3>2. seen'[c] = Append(seen[c], Head(channel[c]))
      BY <1>0, <2>1
    <3> QED BY <3>1, <3>2, AppendProperties DEF LastSeen
  <2>4. \A d \in Clients \ {c} : seen'[d] = seen[d]
    BY <1>0, <2>1
  <2>5. [d \in Clients |-> LastSeen(seen'[d])]
          = [[d \in Clients |-> LastSeen(seen[d])] EXCEPT ![c] = Head(channel[c])]
    BY <2>3, <2>4
  <2> QED BY <1>0, <2>1, <2>2, <2>5 DEF F!Take, Member, LastSeen
<1>6. ASSUME NEW c \in Clients, WriteFails(c) \/ Remove(c)
      PROVE  UNCHANGED F!vars
  <2>1. /\ handler[c] \in {"open", "leaving"}
        /\ handler' \in {[handler EXCEPT ![c] = "leaving"], [handler EXCEPT ![c] = "removing"]}
        /\ UNCHANGED <<latest, channel, seen>>
    BY <1>6 DEF WriteFails, Remove, history
  <2>2. [d \in Clients |-> Member(handler'[d])] = [d \in Clients |-> Member(handler[d])]
    BY <1>0, <2>1 DEF Member
  <2> QED BY <2>1, <2>2 DEF F!vars, Member
<1>7. ASSUME NEW c \in Clients, Close(c)
      PROVE  F!Leave(c)
  <2>1. /\ handler[c] = "removing" /\ handler' = [handler EXCEPT ![c] = "gone"]
        /\ UNCHANGED <<latest, channel, seen>>
    BY <1>7 DEF Close, history
  <2> QED BY <1>0, <2>1 DEF F!Leave
<1>8. CASE Publish \/ ReadSubscribers \/ NextSubscriber \/ EndRange \/ UNCHANGED vars
  BY <1>1, <1>8 DEF Publish, ReadSubscribers, NextSubscriber, EndRange, vars, history
<1> QED BY <1>2, <1>3, <1>4, <1>5, <1>6, <1>7, <1>8 DEF Next, UpdateStep, HandlerStep, F!Next

\* Whatever the range meets, a client gets what Feed allows it to get.
THEOREM RefinesFeed == Spec => ImplementsFeed
<1>1. IInv /\ [Next]_vars => [F!Next]_(F!vars)
  BY StepFeed
<1> QED BY <1>1, InitFeed, Invariance, PTL DEF Spec, ImplementsFeed, F!Spec
\* The order of what one client has taken, what waits for it and the latest
\* quote.
Ordered(t, q, l) ==
  /\ t <= l
  /\ \A i \in 1..Len(q) : t <= q[i] /\ q[i] <= l
  /\ \A i, j \in 1..Len(q) : i < j => q[i] <= q[j]

LEMMA OrderedSteps ==
  ASSUME NEW t \in Nat, NEW q \in Seq(Nat), NEW l \in Nat, Ordered(t, q, l)
  PROVE  /\ \A m \in Nat : l < m => Ordered(t, q, m)
         /\ Ordered(t, Append(q, l), l)
         /\ q # <<>> => Ordered(Head(q), Tail(q), l)
<1>1. Len(q) \in Nat /\ \A i \in 1..Len(q) : q[i] \in Nat
  BY LenProperties, ElementOfSeq
<1>2. \A m \in Nat : l < m => Ordered(t, q, m)
  BY <1>1 DEF Ordered
<1>3. Ordered(t, Append(q, l), l)
  <2> DEFINE s == Append(q, l)
  <2>1. /\ Len(s) = Len(q) + 1 /\ s[Len(q) + 1] = l
        /\ \A i \in 1..Len(q) : s[i] = q[i]
    BY AppendProperties
  <2> HIDE DEF s
  <2>2. \A i \in 1..Len(s) : i \in 1..Len(q) \/ i = Len(q) + 1
    BY <1>1, <2>1
  <2>3. \A i, j \in 1..Len(s) : i < j => i \in 1..Len(q)
    BY <1>1, <2>1
  <2>4. \A i \in 1..Len(s) : t <= s[i] /\ s[i] <= l
    BY <1>1, <2>1, <2>2 DEF Ordered
  <2>5. \A i, j \in 1..Len(s) : i < j => s[i] <= s[j]
    <3> SUFFICES ASSUME NEW i \in 1..Len(s), NEW j \in 1..Len(s), i < j
                 PROVE  s[i] <= s[j]
      OBVIOUS
    <3>1. CASE j \in 1..Len(q)
      BY <2>1, <2>3, <3>1 DEF Ordered
    <3>2. CASE j = Len(q) + 1
      BY <2>1, <2>4, <3>2
    <3> QED BY <2>2, <3>1, <3>2
  <2> QED BY <2>4, <2>5 DEF Ordered, s
<1>4. ASSUME q # <<>>
      PROVE  Ordered(Head(q), Tail(q), l)
  <2> DEFINE s == Tail(q)
  <2>1. /\ Len(s) = Len(q) - 1 /\ \A i \in 1..Len(s) : s[i] = q[i + 1]
        /\ Head(q) = q[1] /\ 1 \in 1..Len(q)
    BY <1>1, <1>4, HeadTailProperties, EmptySeq
  <2> HIDE DEF s
  <2>2. \A i \in 1..Len(s) : i + 1 \in 1..Len(q) /\ 1 < i + 1
    BY <1>1, <2>1
  <2>3. \A i, j \in 1..Len(s) : i < j => i + 1 < j + 1
    OBVIOUS
  <2>4. \A i \in 1..Len(s) : Head(q) <= s[i] /\ s[i] <= l
    BY <2>1, <2>2 DEF Ordered
  <2>5. \A i, j \in 1..Len(s) : i < j => s[i] <= s[j]
    BY <2>1, <2>2, <2>3 DEF Ordered
  <2>6. Head(q) <= l
    BY <2>1 DEF Ordered
  <2> QED BY <2>4, <2>5, <2>6 DEF Ordered, s
<1> QED BY <1>2, <1>3, <1>4

Taken(c) == LastSeen(seen[c])

LEMMA FeedInOrder ==
  ASSUME TypeOK, F!InOrder, [F!Next]_(F!vars)
  PROVE  F!InOrder'
<1>1. /\ latest \in Nat /\ MaxQuotes \in Nat
      /\ channel \in [Clients -> Seq(Nat)]
      /\ \A c \in Clients : Taken(c) \in Nat
  <2>1. \A c \in Clients : channel[c] \in Seq(Nat)
    <3> TAKE c \in Clients
    <3>1. channel[c] \in Seq(1..MaxQuotes) /\ 1..MaxQuotes \subseteq Nat
      BY DEF TypeOK
    <3> QED BY <3>1, SeqMonotonic
  <2>2. \A c \in Clients : Taken(c) \in Nat
    <3> TAKE c \in Clients
    <3>1. seen[c] \in Seq(1..MaxQuotes)
      BY DEF TypeOK
    <3>2. seen[c] # <<>> => Len(seen[c]) \in 1..Len(seen[c])
      BY <3>1, EmptySeq
    <3>3. seen[c] # <<>> => seen[c][Len(seen[c])] \in 1..MaxQuotes
      BY <3>1, <3>2, ElementOfSeq
    <3> QED BY <3>3 DEF Taken, LastSeen
  <2> QED BY <2>1, <2>2, QuotesAssumption DEF TypeOK
<1>2. /\ F!InOrder => \A c \in Clients : Ordered(Taken(c), channel[c], latest)
      /\ (\A c \in Clients : Ordered(Taken(c), channel[c], latest)') => F!InOrder'
  BY DEF F!InOrder, Ordered, Taken, LastSeen
<1> SUFFICES ASSUME NEW c \in Clients
             PROVE  Ordered(Taken(c), channel[c], latest)'
  BY <1>2
<1>3. Ordered(Taken(c), channel[c], latest)
  BY <1>2
<1>4. UNCHANGED <<latest, channel[c], Taken(c)>> => Ordered(Taken(c), channel[c], latest)'
  BY <1>3
<1>5. CASE F!Tick
  <2>1. latest' \in Nat /\ latest < latest' /\ channel' = channel /\ Taken(c)' = Taken(c)
    BY <1>1, <1>5 DEF F!Tick, Taken, LastSeen
  <2> QED BY <1>1, <1>3, <2>1, OrderedSteps
<1>6. ASSUME NEW d \in Clients, F!Deliver(d)
      PROVE  Ordered(Taken(c), channel[c], latest)'
  <2>1. /\ channel' = [channel EXCEPT ![d] = Append(@, latest)]
        /\ latest' = latest /\ Taken(c)' = Taken(c)
    BY <1>6 DEF F!Deliver, Taken, LastSeen
  <2>2. channel'[c] = channel[c] \/ channel'[c] = Append(channel[c], latest)
    BY <1>1, <2>1
  <2> QED BY <1>1, <1>3, <2>1, <2>2, OrderedSteps
<1>7. ASSUME NEW d \in Clients, F!Take(d)
      PROVE  Ordered(Taken(c), channel[c], latest)'
  <2>1. /\ channel[d] # <<>> /\ channel' = [channel EXCEPT ![d] = Tail(@)] /\ latest' = latest
        /\ Taken(c)' = IF c = d THEN Head(channel[d]) ELSE Taken(c)
    BY <1>7 DEF F!Take, Taken, LastSeen
  <2>2. CASE c = d
    <3>1. channel'[c] = Tail(channel[c]) /\ Taken(c)' = Head(channel[c])
      BY <1>1, <2>1, <2>2
    <3> QED BY <1>1, <1>3, <2>1, <2>2, <3>1, OrderedSteps
  <2>3. CASE c # d
    BY <1>1, <1>3, <2>1, <2>3
  <2> QED BY <2>2, <2>3
<1>8. CASE UNCHANGED F!vars \/ \E d \in Clients : F!Join(d) \/ F!Leave(d)
  BY <1>4, <1>8 DEF F!vars, F!Join, F!Leave, Taken, LastSeen
<1> QED BY <1>5, <1>6, <1>7, <1>8 DEF F!Next

\* No client gets a quote after a newer one.
THEOREM QuotesInOrder == Spec => []InOrder
<1>1. Init => F!InOrder
  <2> SUFFICES ASSUME Init PROVE F!InOrder
    OBVIOUS
  <2>1. Len(<<>>) = 0 /\ 1..0 = {}
    BY EmptySeq
  <2>2. ASSUME NEW c \in Clients
        PROVE  Ordered(Taken(c), channel[c], latest)
    <3>1. Taken(c) = 0 /\ channel[c] = <<>> /\ latest = 0
      BY DEF Init, Taken, LastSeen
    <3> QED BY <2>1, <3>1 DEF Ordered
  <2> QED BY <2>2 DEF F!InOrder, Ordered, Taken, LastSeen
<1>2. IInv /\ F!InOrder /\ [Next]_vars => F!InOrder'
  BY StepFeed, FeedInOrder DEF IInv, LInv, TInv
<1> QED BY <1>1, <1>2, Invariance, PTL DEF Spec, InOrder

-----------------------------------------------------------------------------
(***************************************************************************)
(* What a client misses                                                    *)
(***************************************************************************)

\* The range has still to come to client c.
Owed(c) ==
  \/ pc = "sending" /\ to = c
  \/ Ranging /\ \E i \in next..Len(view) : view[i] = c

\* A client that is served, whose channel was never full, has got all that is
\* due to it except for the latest quote if the range has still to come to it.
DueOK ==
  ~overlapped => \A c \in Served \ dropped :
    due[c] = IF Owed(c) THEN Append(seen[c] \o channel[c], latest) ELSE seen[c] \o channel[c]

\* A client that has not come has got nothing.
NewOK ==
  \A c \in Clients : handler[c] = "new" => seen[c] = <<>> /\ channel[c] = <<>> /\ due[c] = <<>>

DInv == IInv /\ NewOK /\ DueOK

LEMMA NextNewOK ==
  ASSUME DInv, [Next]_vars
  PROVE  NewOK'
<1> USE DEF DInv
<1>0. /\ LInv /\ TypeOK /\ handler \in [Clients -> Handlers] /\ CellsOK
      /\ channel \in [Clients -> Seq(1..MaxQuotes)] /\ seen \in [Clients -> Seq(1..MaxQuotes)]
      /\ due \in [Clients -> Seq(1..MaxQuotes)]
  BY DEF IInv, LInv, TInv, TypeOK, Handlers
<1> SUFFICES ASSUME NEW c \in Clients, handler'[c] = "new"
             PROVE  seen'[c] = <<>> /\ channel'[c] = <<>> /\ due'[c] = <<>>
  BY DEF NewOK
<1>1. handler[c] = "new"
  BY <1>0, NobodyNew
<1>2. seen[c] = <<>> /\ channel[c] = <<>> /\ due[c] = <<>>
  BY <1>1 DEF NewOK
<1>3. CASE ReadSubscribers
  <2>1. c \notin Listed
    BY <1>0, <1>1, ListedNotNew
  <2> QED BY <1>2, <1>3, <2>1 DEF ReadSubscribers
<1>4. CASE Send
  <2>1. /\ to # c /\ UNCHANGED <<seen, due>>
        /\ channel' \in {channel, [channel EXCEPT ![to] = Append(@, latest)]}
    BY <1>0, <1>1, <1>4 DEF Send, CellsOK
  <2> QED BY <1>0, <1>2, <2>1
<1>5. ASSUME NEW d \in Clients, Receive(d)
      PROVE  UNCHANGED <<seen[c], channel[c], due[c]>>
  <2>1. d # c
    BY <1>1, <1>5 DEF Receive
  <2> QED BY <1>0, <1>5, <2>1 DEF Receive
<1>6. CASE UNCHANGED <<seen, channel, due>>
  BY <1>2, <1>6
<1>7. CASE StoreQuote \/ NextSubscriber \/ EndRange \/ Publish \/ UNCHANGED vars
           \/ \E d \in Clients : Subscribe(d) \/ WriteFails(d) \/ Remove(d) \/ Close(d)
  BY <1>6, <1>7 DEF StoreQuote, NextSubscriber, EndRange, Publish, vars, history, Subscribe,
                    WriteFails, Remove, Close
<1> QED BY <1>2, <1>3, <1>4, <1>5, <1>7 DEF Next, UpdateStep, HandlerStep

\* A quote that is taken from a channel.
LEMMA TakeConcat ==
  ASSUME NEW S, NEW s \in Seq(S), NEW q \in Seq(S), q # <<>>
  PROVE  Append(s, Head(q)) \o Tail(q) = s \o q
<1> DEFINE h == Head(q)
           t == Tail(q)
<1>1. /\ h \in S /\ t \in Seq(S) /\ Len(t) = Len(q) - 1 /\ Len(q) \in Nat
      /\ \A i \in 1..Len(t) : t[i] = q[i + 1]
      /\ h = q[1]
  BY HeadTailProperties, LenProperties
<1> HIDE DEF h, t
<1>2. <<h>> \in Seq(S) /\ Len(<<h>>) = 1 /\ <<h>>[1] = h
  BY <1>1
<1>3. /\ <<h>> \o t \in Seq(S) /\ Len(<<h>> \o t) = Len(q)
      /\ \A i \in 1..Len(q) : (<<h>> \o t)[i] = IF i <= 1 THEN <<h>>[i] ELSE t[i - 1]
  <2>1. 1 + Len(t) = Len(q)
    BY <1>1
  <2> QED BY <1>1, <1>2, <2>1, ConcatProperties
<1>4. ASSUME NEW i \in 1..Len(q)
      PROVE  (<<h>> \o t)[i] = q[i]
  <2>1. CASE i = 1
    BY <1>1, <1>2, <1>3, <2>1
  <2>2. CASE i # 1
    <3>1. i - 1 \in 1..Len(t) /\ ~(i <= 1) /\ i - 1 + 1 = i
      BY <1>1, <2>2
    <3> QED BY <1>1, <1>3, <3>1
  <2> QED BY <2>1, <2>2
<1>5. q = <<h>> \o t
  BY <1>3, <1>4, SeqEqual
<1>6. Append(s, h) = s \o <<h>>
  BY <1>1, AppendIsConcat
<1>7. (s \o <<h>>) \o t = s \o (<<h>> \o t)
  BY <1>1, <1>2, ConcatAssociative
<1> QED BY <1>5, <1>6, <1>7 DEF h, t

LEMMA NextDueOK ==
  ASSUME DInv, [Next]_vars
  PROVE  DueOK'
<1> USE DEF DInv
<1>0. /\ LInv /\ TInv /\ TypeOK /\ UpdateOK /\ StillOK /\ handler \in [Clients -> Handlers]
      /\ channel \in [Clients -> Seq(1..MaxQuotes)] /\ seen \in [Clients -> Seq(1..MaxQuotes)]
      /\ due \in [Clients -> Seq(1..MaxQuotes)]
  BY DEF IInv, LInv, TInv, TypeOK, Handlers
<1>1. /\ Len(view) \in Nat /\ next \in 1 .. Len(view) + 1
      /\ (pc # "idle" => latest \in 1..MaxQuotes)
      /\ (pc = "sending" => to \in Clients)
  BY <1>0, Cells DEF TypeOK, UpdateOK
<1> SUFFICES ASSUME ~overlapped', NEW c \in Served', c \notin dropped'
             PROVE  due'[c] = IF Owed(c)' THEN Append(seen'[c] \o channel'[c], latest')
                              ELSE seen'[c] \o channel'[c]
  BY DEF DueOK
<1> DEFINE got == seen[c] \o channel[c]
           OK == due[c] = IF Owed(c) THEN Append(got, latest) ELSE got
<1>2. c \in Clients /\ seen[c] \in Seq(1..MaxQuotes) /\ channel[c] \in Seq(1..MaxQuotes)
  BY <1>0 DEF Served
<1>3. ASSUME c \in Served, ~overlapped, c \notin dropped
      PROVE  OK
  BY <1>3 DEF DueOK
<1>4. CASE UNCHANGED <<overlapped, handler, dropped, due, seen, channel, range, latest>>
  <2>1. Owed(c)' = Owed(c) /\ c \in Served
    BY <1>4 DEF Owed, Ranging, range, Served
  <2> QED BY <1>3, <1>4, <2>1
<1>5. CASE StoreQuote
  <2>1. /\ pc = "idle" /\ pc' = "stored"
        /\ UNCHANGED <<overlapped, handler, dropped, due, seen, channel>>
    BY <1>5 DEF StoreQuote, history
  <2>2. ~Owed(c) /\ ~Owed(c)' /\ c \in Served
    BY <2>1 DEF Owed, Ranging, Served
  <2> QED BY <1>3, <2>1, <2>2
<1>6. CASE ReadSubscribers
  <2>1. /\ pc = "stored" /\ pc' = "ranging" /\ view' = subscribers /\ next' = 1
        /\ due' = [d \in Clients |-> IF d \in Listed THEN Append(due[d], latest) ELSE due[d]]
        /\ UNCHANGED <<overlapped, handler, dropped, seen, channel, latest>>
    BY <1>6 DEF ReadSubscribers
  <2>2. c \in Served /\ c \in Listed
    BY <1>0, <2>1 DEF Served, LInv, ListMatchesHandlers
  <2>3. ~Owed(c) /\ Owed(c)'
    BY <2>1, <2>2 DEF Owed, Ranging, Listed
  <2>4. due[c] = got /\ due'[c] = Append(due[c], latest)
    BY <1>2, <1>3, <2>1, <2>2, <2>3
  <2> QED BY <2>1, <2>3, <2>4
<1>7. CASE NextSubscriber
  <2>1. /\ alive /\ pc = "ranging" /\ pc' = "sending" /\ next <= Len(view) /\ next' = next + 1
        /\ to' \in {view[next], old[next]}
        /\ UNCHANGED <<view, overlapped, handler, dropped, due, seen, channel, latest>>
    BY <1>7 DEF NextSubscriber, history
  <2>2. to' = view[next] /\ c \in Served
    BY <1>0, <2>1 DEF StillOK, Still, Ranging, UpdateOK, Served
  <2>3. Owed(c)' = Owed(c)
    <3>1. \A i \in next..Len(view) : i = next \/ i \in next + 1 .. Len(view)
      BY <1>1
    <3>2. next \in next..Len(view) /\ next + 1 .. Len(view) \subseteq next..Len(view)
      BY <1>1, <2>1
    <3> QED BY <2>1, <2>2, <3>1, <3>2 DEF Owed, Ranging
  <2> QED BY <1>3, <2>1, <2>2, <2>3
<1>8. CASE Send
  <2>1. /\ alive /\ pc = "sending" /\ pc' = "ranging"
        /\ UNCHANGED <<view, next, overlapped, handler, due, seen, latest>>
    BY <1>8 DEF Send
  <2>2. /\ to \in Served /\ to \notin Closed /\ \A i \in next..Len(view) : view[i] # to
    BY <1>0, <2>1 DEF StillOK, Still, Ranging, Served, Closed
  <2>3. \/ channel' = [channel EXCEPT ![to] = Append(@, latest)] /\ dropped' = dropped
        \/ channel' = channel /\ dropped' = dropped \cup {to}
    BY <1>8, <2>2 DEF Send
  <2>4. c \in Served /\ OK
    BY <1>3, <2>1, <2>3 DEF Served
  <2>5. CASE c # to
    <3>1. Owed(c)' = Owed(c)
      BY <2>1, <2>5 DEF Owed, Ranging
    <3>2. channel'[c] = channel[c]
      BY <1>0, <1>2, <2>3, <2>5
    <3> QED BY <2>1, <2>4, <3>1, <3>2
  <2>6. CASE c = to
    <3>1. Owed(c) /\ ~Owed(c)'
      BY <2>1, <2>2, <2>6 DEF Owed, Ranging
    <3>2. channel'[c] = Append(channel[c], latest)
      BY <1>0, <1>2, <2>3, <2>6
    <3>3. Append(seen[c] \o channel[c], latest) = seen[c] \o Append(channel[c], latest)
      <4> DEFINE Q == 1..MaxQuotes
      <4>1. seen[c] \in Seq(Q) /\ channel[c] \in Seq(Q) /\ latest \in Q
        BY <1>1, <1>2, <2>1
      <4> HIDE DEF Q
      <4>2. \A s, q \in Seq(Q) : \A e \in Q : Append(s \o q, e) = s \o Append(q, e)
        <5> TAKE s, q \in Seq(Q)
        <5> TAKE e \in Q
        <5> QED OBVIOUS
      <4> QED BY <4>1, <4>2
    <3> QED BY <2>1, <2>4, <3>1, <3>2, <3>3
  <2> QED BY <2>5, <2>6
<1>9. CASE EndRange
  <2>1. /\ pc = "ranging" /\ pc' = "idle" /\ next > Len(view)
        /\ UNCHANGED <<overlapped, handler, dropped, due, seen, channel>>
    BY <1>9 DEF EndRange, history
  <2>2. ~Owed(c) /\ ~Owed(c)' /\ c \in Served
    <3>1. next..Len(view) = {}
      BY <1>1, <2>1
    <3> QED BY <2>1, <3>1 DEF Owed, Ranging, Served
  <2> QED BY <1>3, <2>1, <2>2
<1>10. ASSUME NEW d \in Clients, Subscribe(d)
       PROVE  due'[c] = IF Owed(c)' THEN Append(seen'[c] \o channel'[c], latest')
                        ELSE seen'[c] \o channel'[c]
  <2>1. /\ alive /\ handler[d] = "new" /\ handler' = [handler EXCEPT ![d] = "open"]
        /\ UNCHANGED <<overlapped, dropped, due, seen, channel, latest, pc, next, to>>
    BY <1>10 DEF Subscribe, history
  <2>2. Ranging => /\ view' = view /\ Elems(view) \subseteq Served
                   /\ pc = "sending" => to \in Served
    BY <1>0, <1>10, <2>1, SubscribeView DEF StillOK, Still
  <2>3. Owed(c)' = Owed(c)
    BY <2>1, <2>2 DEF Owed, Ranging
  <2>4. CASE c # d
    <3>1. c \in Served
      BY <1>0, <1>2, <2>1, <2>4 DEF Served
    <3> QED BY <1>3, <2>1, <2>3, <3>1
  <2>5. CASE c = d
    <3>1. ~Owed(c)
      <4>1. c \notin Served
        BY <2>1, <2>5 DEF Served
      <4>2. next..Len(view) \subseteq 1..Len(view)
        BY <1>1
      <4> QED BY <2>2, <4>1, <4>2 DEF Owed, Ranging, Elems
    <3>2. seen[c] = <<>> /\ channel[c] = <<>> /\ due[c] = <<>>
      BY <1>2, <2>1, <2>5 DEF NewOK
    <3>3. seen[c] \o channel[c] = channel[c]
      BY <1>2, <3>2, ConcatEmptySeq
    <3> QED BY <2>1, <2>3, <3>1, <3>2, <3>3
  <2> QED BY <2>4, <2>5
<1>11. ASSUME NEW d \in Clients, Receive(d)
       PROVE  due'[c] = IF Owed(c)' THEN Append(seen'[c] \o channel'[c], latest')
                        ELSE seen'[c] \o channel'[c]
  <2>1. /\ handler[d] = "open" /\ channel[d] # <<>>
        /\ channel' = [channel EXCEPT ![d] = Tail(@)]
        /\ seen' = [seen EXCEPT ![d] = Append(@, Head(channel[d]))]
        /\ UNCHANGED <<handler, latest, range, due, dropped, overlapped>>
    BY <1>11 DEF Receive
  <2>2. c \in Served /\ Owed(c)' = Owed(c)
    BY <1>0, <1>2, <2>1 DEF Served, Owed, Ranging, range
  <2>3. seen'[c] \o channel'[c] = seen[c] \o channel[c]
    <3>1. CASE c # d
      BY <1>0, <1>2, <2>1, <3>1
    <3>2. CASE c = d
      <4>1. seen'[c] = Append(seen[c], Head(channel[c])) /\ channel'[c] = Tail(channel[c])
        BY <1>0, <1>2, <2>1, <3>2
      <4>2. channel[c] # <<>>
        BY <2>1, <3>2
      <4> QED BY <1>2, <4>1, <4>2, TakeConcat
    <3> QED BY <3>1, <3>2
  <2> QED BY <1>3, <2>1, <2>2, <2>3
<1>12. ASSUME NEW d \in Clients, Remove(d)
       PROVE  due'[c] = IF Owed(c)' THEN Append(seen'[c] \o channel'[c], latest')
                        ELSE seen'[c] \o channel'[c]
  <2>1. /\ handler[d] = "leaving" /\ handler' = [handler EXCEPT ![d] = "removing"]
        /\ ~overlapped /\ ~Ranging
        /\ UNCHANGED <<latest, pc, to, channel, seen, due, dropped>>
    BY <1>12 DEF Remove, Ranging
  <2>2. c \in Served /\ ~Owed(c) /\ ~Owed(c)'
    BY <1>0, <1>2, <2>1 DEF Served, Owed, Ranging
  <2> QED BY <1>3, <2>1, <2>2
<1>13. ASSUME NEW d \in Clients, Close(d)
       PROVE  due'[c] = IF Owed(c)' THEN Append(seen'[c] \o channel'[c], latest')
                        ELSE seen'[c] \o channel'[c]
  <2>1. /\ handler[d] = "removing" /\ handler' = [handler EXCEPT ![d] = "gone"]
        /\ UNCHANGED <<latest, pc, view, next, to, channel, seen, due, dropped, overlapped>>
    BY <1>13 DEF Close, history
  <2>2. c \in Served /\ Owed(c)' = Owed(c)
    BY <1>0, <1>2, <2>1 DEF Served, Owed, Ranging
  <2> QED BY <1>3, <2>1, <2>2
<1>14. ASSUME NEW d \in Clients, WriteFails(d)
       PROVE  due'[c] = IF Owed(c)' THEN Append(seen'[c] \o channel'[c], latest')
                        ELSE seen'[c] \o channel'[c]
  <2>1. /\ handler[d] = "open" /\ handler' = [handler EXCEPT ![d] = "leaving"]
        /\ UNCHANGED <<latest, range, channel, seen, due, dropped, overlapped>>
    BY <1>14 DEF WriteFails, history
  <2>2. c \in Served /\ Owed(c)' = Owed(c)
    BY <1>0, <1>2, <2>1 DEF Served, Owed, Ranging, range
  <2> QED BY <1>3, <2>1, <2>2
<1>15. CASE Publish \/ UNCHANGED vars
  BY <1>4, <1>15 DEF Publish, vars, history
<1> QED BY <1>5, <1>6, <1>7, <1>8, <1>9, <1>10, <1>11, <1>12, <1>13, <1>14, <1>15
        DEF Next, UpdateStep, HandlerStep

\* As long as nobody leaves in the middle of an update, a client whose channel
\* was never full misses nothing.
THEOREM MissesNothing == Spec => []NothingMissed
<1>1. Init => DInv
  <2> SUFFICES ASSUME Init PROVE DInv
    OBVIOUS
  <2>1. IInv
    BY InitIInv
  <2>2. NewOK
    BY DEF Init, NewOK
  <2>3. DueOK
    BY DEF Init, DueOK, Served
  <2> QED BY <2>1, <2>2, <2>3 DEF DInv
<1>2. DInv /\ [Next]_vars /\ IInv' => DInv'
  BY NextNewOK, NextDueOK DEF DInv
<1>3. DInv => NothingMissed
  <2> SUFFICES ASSUME DInv, pc = "idle", ~overlapped, NEW c \in Clients \ dropped,
                      handler[c] \in {"open", "leaving"}
               PROVE  seen[c] \o channel[c] = due[c]
    BY DEF NothingMissed
  <2>1. ~Owed(c) /\ c \in Served
    BY DEF Owed, Ranging, Served
  <2> QED BY <2>1 DEF DInv, DueOK
<1> QED BY <1>1, <1>2, <1>3, Invariance, PTL DEF Spec

=============================================================================
