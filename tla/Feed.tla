-------------------------------- MODULE Feed --------------------------------
(***************************************************************************)
(* What a subscription to the quotes of one symbol promises a client: a    *)
(* bounded queue into which only the latest quote is ever put, from the    *)
(* moment the client joins until it has left.  A quote may be left out, or *)
(* put in again while it is the latest, but none comes after a newer one.  *)
(***************************************************************************)
EXTENDS Integers, Sequences

CONSTANTS
  Clients,    \* the connections that subscribe, each once
  Capacity,   \* the capacity of a client's channel
  MaxQuotes   \* bound on the quotes that are generated

VARIABLES
  latest,  \* the latest quote, numbered in the order of their generation
  member,  \* member[c]: "out", "in" or "left"
  queue,   \* queue[c]: the quotes that c has not taken yet
  taken    \* taken[c]: the quote c has taken last, 0 if none

vars == <<latest, member, queue, taken>>

Init ==
  /\ latest = 0
  /\ member = [c \in Clients |-> "out"]
  /\ queue = [c \in Clients |-> <<>>]
  /\ taken = [c \in Clients |-> 0]

Tick ==
  /\ latest' \in latest + 1 .. MaxQuotes
  /\ UNCHANGED <<member, queue, taken>>

Join(c) ==
  /\ member[c] = "out"
  /\ member' = [member EXCEPT ![c] = "in"]
  /\ UNCHANGED <<latest, queue, taken>>

Deliver(c) ==
  /\ member[c] = "in"
  /\ Len(queue[c]) < Capacity
  /\ queue' = [queue EXCEPT ![c] = Append(@, latest)]
  /\ UNCHANGED <<latest, member, taken>>

Take(c) ==
  /\ member[c] = "in"
  /\ queue[c] # <<>>
  /\ taken' = [taken EXCEPT ![c] = Head(queue[c])]
  /\ queue' = [queue EXCEPT ![c] = Tail(@)]
  /\ UNCHANGED <<latest, member>>

Leave(c) ==
  /\ member[c] = "in"
  /\ member' = [member EXCEPT ![c] = "left"]
  /\ UNCHANGED <<latest, queue, taken>>

Next == Tick \/ \E c \in Clients : Join(c) \/ Deliver(c) \/ Take(c) \/ Leave(c)

Spec == Init /\ [][Next]_vars

-----------------------------------------------------------------------------

\* No client gets a quote after a newer one: what it has taken, what waits for
\* it and the latest quote are in the order of generation.
InOrder ==
  \A c \in Clients :
    LET q == queue[c]
    IN /\ taken[c] <= latest
       /\ \A i \in 1..Len(q) : taken[c] <= q[i] /\ q[i] <= latest
       /\ \A i, j \in 1..Len(q) : i < j => q[i] <= q[j]

=============================================================================
