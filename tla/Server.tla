------------------------------- MODULE Server -------------------------------
(***************************************************************************)
(* The HTTP server (cmd/monolith/main.go) around the pool of database      *)
(* connections (internal/database/database.go): which connections a        *)
(* request holds while it asks for another, and what a shutdown waits for. *)
(*                                                                         *)
(* A handler is a sequence of operations.  An operation takes a connection *)
(* for its transaction, and every query that it makes beside the           *)
(* transaction takes one more; processTrade keeps the connection of a      *)
(* transaction of its own while TransferFunds takes two.  What is read and *)
(* written is the subject of the other modules.                            *)
(***************************************************************************)
EXTENDS Integers, Sequences, FiniteSets

CONSTANTS
  Conns,     \* the connections that the pool may open
  Requests,
  Sockets,   \* the requests for /ws/quotes
  Kinds,     \* what the others do: "hold" (and all of CreateOrder), "topup", "read"
  MaxTrades  \* bound on the trades of an order

ASSUME ServerAssumption ==
  /\ IsFiniteSet(Conns)
  /\ Sockets \subseteq Requests
  /\ Kinds \subseteq {"hold", "topup", "read"}
  /\ MaxTrades \in Nat

VARIABLES
  server,  \* "serving", "stopping", and "exited" or "forced"
  op,      \* op[r]: the operation that r's handler is at
  step,    \* step[r]: the step of that operation
  left,    \* left[r]: the trades that CreateOrder has still to process
  held     \* held[r]: the connections r holds, the one taken last at the end

vars == <<server, op, step, left, held>>

-----------------------------------------------------------------------------
(***************************************************************************)
(* The operations of the handlers                                          *)
(***************************************************************************)

\* A statement on the pool, and a transaction around such statements.
Query == <<"take", "give">>

Tx(statements) == <<"take">> \o statements \o <<"give">>

\* Mutant of TransferFunds: the accounts are read in a transaction of their own.
TransferNested == Tx(Tx(Query))

TransferFunds == Tx(Query \o Query)

ProcessTrade == Tx(Query \o Query \o Query \o Query \o TransferFunds \o TransferFunds)

\* The takes and gives of an operation.
Steps ==
  [check |-> Query,         \* CheckIdempotency
   hold |-> Tx(Query),      \* HoldFunds
   insert |-> Query,        \* OrderRepository.CreateOrder
   trade |-> ProcessTrade,
   update |-> Tx(<<>>),     \* UpdateOrder
   topup |-> Tx(Query),     \* TopUpUser
   store |-> Tx(<<>>),      \* StoreIdempotency
   read |-> Query]          \* the handlers that make one statement: order, portfolio,
                            \* signup, login

Operations == DOMAIN Steps

AtRest == {"new", "socket", "done"}

\* Where a handler begins; the POST handlers check the idempotency key.
First == {IF k = "read" THEN "read" ELSE "check" : k \in Kinds}

\* The operations that may follow o while n trades are left.  A key that is
\* stored already ends the request.
After(o, n) ==
  CASE o = "check" -> {"done"} \cup (Kinds \ {"read"})
    [] o = "hold" -> {"insert"}
    [] o \in {"insert", "trade"} -> IF n = 0 THEN {"update"} ELSE {"trade"}
    [] o \in {"update", "topup"} -> {"store"}
    [] o \in {"store", "read"} -> {"done"}

-----------------------------------------------------------------------------

Init ==
  /\ server = "serving"
  /\ op = [r \in Requests |-> "new"]
  /\ step = [r \in Requests |-> 1]
  /\ left = [r \in Requests |-> 0]
  /\ held = [r \in Requests |-> <<>>]

Running == server \in {"serving", "stopping"}

Busy(r) == op[r] \in Operations

HeldBy(r) == {held[r][i] : i \in 1..Len(held[r])}

\* Mutant of Free: of those a request holds, only the last is in use.
FreeButLast == Conns \ {held[r][Len(held[r])] : r \in {q \in Requests : held[q] # <<>>}}

Free == Conns \ UNION {HeldBy(r) : r \in Requests}

Wants(r) == Busy(r) /\ Steps[op[r]][step[r]] = "take"

\* r waits in the pool's queue for a connection.
Waits(r) == Wants(r) /\ Free = {}

Goto(r, o) == op' = [op EXCEPT ![r] = o] /\ step' = [step EXCEPT ![r] = 1]

Accept(r) ==
  /\ server = "serving"
  /\ op[r] = "new"
  /\ \E o \in IF r \in Sockets THEN {"socket"} ELSE First : Goto(r, o)
  /\ UNCHANGED <<server, left, held>>

\* db.Begin, or the start of a query: the pool opens a connection or hands an
\* idle one out while there are fewer than its limit in use.
Take(r) ==
  /\ Running
  /\ Wants(r)
  /\ \E c \in Free : held' = [held EXCEPT ![r] = Append(@, c)]
  /\ step' = [step EXCEPT ![r] = @ + 1]
  /\ UNCHANGED <<server, op, left>>

\* The operation is over: how many trades are left, and what comes next.
TradesLeft(r) ==
  IF op[r] = "insert" THEN 0..MaxTrades ELSE IF op[r] = "trade" THEN {left[r] - 1} ELSE {0}

Continue(r) ==
  \E n \in TradesLeft(r) : \E o \in After(op[r], n) :
    left' = [left EXCEPT ![r] = n] /\ Goto(r, o)

Last(r) == step[r] = Len(Steps[op[r]])

\* A query has been read, or a transaction commits.
Give(r) ==
  /\ Running
  /\ Busy(r) /\ ~Wants(r)
  /\ held' = [held EXCEPT ![r] = SubSeq(@, 1, Len(@) - 1)]
  /\ IF Last(r) THEN Continue(r)
     ELSE step' = [step EXCEPT ![r] = @ + 1] /\ UNCHANGED <<op, left>>
  /\ UNCHANGED server

\* Mutant of Fail: the transactions are not rolled back.
FailKeeps(r) ==
  /\ Running
  /\ Busy(r) /\ ~Waits(r)
  /\ IF op[r] = "trade" THEN Continue(r) ELSE Goto(r, "done") /\ UNCHANGED left
  /\ UNCHANGED <<server, held>>

\* A statement fails: the deferred Rollbacks give every connection of the
\* operation back.  CreateOrder goes on to the next trade, everything else
\* ends the request with an error.
Fail(r) ==
  /\ Running
  /\ Busy(r) /\ ~Waits(r)
  /\ held' = [held EXCEPT ![r] = <<>>]
  /\ IF op[r] = "trade" THEN Continue(r) ELSE Goto(r, "done") /\ UNCHANGED left
  /\ UNCHANGED server

\* The client of a websocket has gone.
Disconnect(r) ==
  /\ Running
  /\ op[r] = "socket"
  /\ Goto(r, "done")
  /\ UNCHANGED <<server, left, held>>

-----------------------------------------------------------------------------
(***************************************************************************)
(* The shutdown                                                            *)
(***************************************************************************)

\* SIGINT or SIGTERM: the listener is closed.
Signal ==
  /\ server = "serving"
  /\ server' = "stopping"
  /\ UNCHANGED <<op, step, left, held>>

\* Mutant of Exit: waits for the websockets as well.
ExitAfterSockets ==
  /\ server = "stopping"
  /\ \A r \in Requests : ~Busy(r) /\ op[r] # "socket"
  /\ server' = "exited"
  /\ UNCHANGED <<op, step, left, held>>

\* Shutdown returns when no request is active; a websocket's connection was
\* hijacked and is none that it knows.
Exit ==
  /\ server = "stopping"
  /\ \A r \in Requests : ~Busy(r)
  /\ server' = "exited"
  /\ UNCHANGED <<op, step, left, held>>

\* The 30 seconds are over: log.Fatalf ends the process.
GiveUp ==
  /\ server = "stopping"
  /\ server' = "forced"
  /\ UNCHANGED <<op, step, left, held>>

RequestStep(r) == Take(r) \/ Give(r) \/ Fail(r)

Next ==
  \/ Signal \/ Exit \/ GiveUp
  \/ \E r \in Requests : Accept(r) \/ RequestStep(r) \/ Disconnect(r)

Spec == Init /\ [][Next]_vars

\* Handlers and main are scheduled; the pool hands a connection that is given
\* back to a random one of those who wait.  Nothing makes the signal, a failure
\* or the end of the 30 seconds come.
FairSpec ==
  /\ Spec
  /\ WF_vars(Exit)
  /\ \A r \in Requests : WF_vars(Give(r)) /\ SF_vars(Take(r))

-----------------------------------------------------------------------------
(***************************************************************************)
(* Properties                                                              *)
(***************************************************************************)

\* Type invariant: no connection is used by two, and a request at rest holds
\* none.
TypeOK ==
  /\ server \in {"serving", "stopping", "exited", "forced"}
  /\ op \in [Requests -> Operations \cup AtRest]
  /\ step \in [Requests -> Nat]
  /\ left \in [Requests -> 0..MaxTrades]
  /\ held \in [Requests -> Seq(Conns)]
  /\ \A r \in Requests :
       /\ Busy(r) => step[r] \in 1..Len(Steps[op[r]])
       /\ ~Busy(r) => held[r] = <<>>
       /\ \A i, j \in 1..Len(held[r]) : held[r][i] = held[r][j] => i = j
       /\ \A q \in Requests \ {r} : HeldBy(r) \cap HeldBy(q) = {}

\* The requests that hold a connection and wait for another.
Stuck == {r \in Requests : held[r] # <<>> /\ Waits(r)}

\* All connections are with requests that wait for another one, which none of
\* them will ever give back: the calls have no deadline (database.go:49).
Exhausted == Free = {} /\ \A r \in Requests : held[r] # <<>> => Waits(r)

\* The pool is exhausted only by a crowd: a request that waits holds at most two
\* connections, so of the 25 that the pool may open, 13 requests must wait with
\* a connection in their hands.
ExhaustionNeedsCrowd == Exhausted => Cardinality(Conns) <= 2 * Cardinality(Stuck)

\* Every request is answered, whatever fails, unless the pool is exhausted or
\* the process ends (service.go:236, service.go:180).
RequestsEnd ==
  \A r \in Requests : Busy(r) ~> (op[r] = "done" \/ Exhausted \/ ~Running)

\* A shutdown ends, with the requests answered or cut, unless the pool is
\* exhausted: open websockets do not keep it (main.go:134).
ShutdownEnds == server = "stopping" ~> (~Running \/ Exhausted)

=============================================================================
