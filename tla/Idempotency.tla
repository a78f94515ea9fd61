----------------------------- MODULE Idempotency -----------------------------
(***************************************************************************)
(* The idempotency of the two POST handlers (topupHandler and              *)
(* createOrderHandler in cmd/monolith/main.go over internal/idempotency):  *)
(* look the key up, perform the operation, store the response under the    *)
(* key, answer.  Each is a step with its own transaction or none.          *)
(*                                                                         *)
(* A call is one HTTP request.  A client that got no answer, or did not    *)
(* wait for it, makes another call with the same key and the same content, *)
(* also while the first is still running; a client may also reuse a key    *)
(* for another content.  The process may die and start again at any time.  *)
(***************************************************************************)
EXTENDS Naturals, FiniteSets

CONSTANTS
  Calls,       \* the HTTP requests
  Keys,        \* pairs of a user and an Idempotency-Key header
  KeyOf,       \* KeyOf[c]: the key of call c
  ContentOf,   \* ContentOf[c]: what it asks for (body and critical headers)
  Orders,      \* the orders in which Go may range over the two critical headers
  MaxRestarts  \* bound on the restarts of the process

ASSUME IdempotencyAssumption ==
  /\ KeyOf \in [Calls -> Keys]
  /\ "none" \notin Calls
  /\ MaxRestarts \in Nat

VARIABLES
  pc,        \* pc[c]: where the handler of call c is
  print,     \* print[c]: the fingerprint it has computed
  table,     \* table[k]: the row of key k in idempotency_keys
  performed, \* the calls whose operation has taken effect
  answer,    \* answer[c]: the response c got
  restarts,
  \* A variable that only records history:
  assured    \* the calls that came in after another with their key was answered

vars == <<pc, print, table, performed, answer, restarts, assured>>

\* GenerateFingerprint hashes the body and, in the order the map yields them,
\* the critical headers.
Fingerprints(c) == {[content |-> ContentOf[c], order |-> order] : order \in Orders}

NoPrint == [content |-> "none", order |-> "none"]

\* A response body names the call whose operation it reports.
NoRow == [print |-> NoPrint, body |-> "none"]

OK(body) == [code |-> 200, body |-> body]
Error(code) == [code |-> code, body |-> "none"]
NoAnswer == Error(0)

Init ==
  /\ pc = [c \in Calls |-> "new"]
  /\ print = [c \in Calls |-> NoPrint]
  /\ table = [k \in Keys |-> NoRow]
  /\ performed = {}
  /\ answer = [c \in Calls |-> NoAnswer]
  /\ restarts = 0
  /\ assured = {}

-----------------------------------------------------------------------------

Respond(c, response) ==
  /\ answer' = [answer EXCEPT ![c] = response]
  /\ pc' = [pc EXCEPT ![c] = "answered"]

Goto(c, to) ==
  /\ pc' = [pc EXCEPT ![c] = to]
  /\ UNCHANGED answer

\* The handler reads the request and computes its fingerprint.
Receive(c) ==
  /\ pc[c] = "new"
  /\ \E f \in Fingerprints(c) : print' = [print EXCEPT ![c] = f]
  /\ assured' = IF \E d \in Calls : KeyOf[d] = KeyOf[c] /\ answer[d].code = 200
                THEN assured \cup {c} ELSE assured
  /\ Goto(c, "received")
  /\ UNCHANGED <<table, performed, restarts>>

\* Mutants of Check: the fingerprints are not compared, and a mismatch is
\* taken for a new request.
CheckKeyOnly(c) ==
  LET r == table[KeyOf[c]]
  IN /\ pc[c] = "received"
     /\ IF r = NoRow THEN Goto(c, "checked") ELSE Respond(c, OK(r.body))
     /\ UNCHANGED <<print, table, performed, restarts, assured>>

CheckMismatchIsNew(c) ==
  LET r == table[KeyOf[c]]
  IN /\ pc[c] = "received"
     /\ IF r.print = print[c] THEN Respond(c, OK(r.body)) ELSE Goto(c, "checked")
     /\ UNCHANGED <<print, table, performed, restarts, assured>>

\* CheckIdempotency: a key without a row is new, a row with another
\* fingerprint is a conflict (so is a failed query), else its response is
\* replayed.
Check(c) ==
  LET r == table[KeyOf[c]]
  IN /\ pc[c] = "received"
     /\ \/ r = NoRow /\ Goto(c, "checked")
        \/ r # NoRow /\ r.print = print[c] /\ Respond(c, OK(r.body))
        \/ (r # NoRow => r.print # print[c]) /\ Respond(c, Error(409))
     /\ UNCHANGED <<print, table, performed, restarts, assured>>

\* TopUpUser or CreateOrder.  It may fail, and CreateOrder may fail after it
\* held funds or traded; a failure is answered at once and never stored.
Perform(c) ==
  /\ pc[c] = "checked"
  /\ \/ performed' = performed \cup {c} /\ Goto(c, "performed")
     \/ performed' = performed \cup {c} /\ Respond(c, Error(500))
     \/ UNCHANGED performed /\ Respond(c, Error(500))
  /\ UNCHANGED <<print, table, restarts, assured>>

\* Mutants of Store: the table has no unique constraint, so that the last row
\* is found; and the fingerprint is left out.
StoreLast(c) ==
  /\ pc[c] = "performed"
  /\ table' = [table EXCEPT ![KeyOf[c]] = [print |-> print[c], body |-> c]]
  /\ Goto(c, "stored")
  /\ UNCHANGED <<print, performed, restarts, assured>>

StoreNoPrint(c) ==
  /\ pc[c] = "performed"
  /\ table[KeyOf[c]] = NoRow
  /\ table' = [table EXCEPT ![KeyOf[c]] = [print |-> NoPrint, body |-> c]]
  /\ Goto(c, "stored")
  /\ UNCHANGED <<print, performed, restarts, assured>>

\* StoreIdempotency and its commit: the table has at most one row for a key,
\* so a second insert fails.
Store(c) ==
  /\ pc[c] = "performed"
  /\ \/ /\ table[KeyOf[c]] = NoRow
        /\ table' = [table EXCEPT ![KeyOf[c]] = [print |-> print[c], body |-> c]]
        /\ Goto(c, "stored")
     \/ /\ Respond(c, Error(500))
        /\ UNCHANGED table
  /\ UNCHANGED <<print, performed, restarts, assured>>

Answer(c) ==
  /\ pc[c] = "stored"
  /\ Respond(c, OK(c))
  /\ UNCHANGED <<print, table, performed, restarts, assured>>

\* The process dies with the calls it is serving, and starts again.
Restart ==
  /\ restarts < MaxRestarts
  /\ restarts' = restarts + 1
  /\ pc' = [c \in Calls |-> IF pc[c] \in {"new", "answered"} THEN pc[c] ELSE "lost"]
  /\ UNCHANGED <<print, table, performed, answer, assured>>

Next ==
  \/ \E c \in Calls : Receive(c) \/ Check(c) \/ Perform(c) \/ Store(c) \/ Answer(c)
  \/ Restart

Spec == Init /\ [][Next]_vars

-----------------------------------------------------------------------------
(***************************************************************************)
(* Properties                                                              *)
(***************************************************************************)

\* Type invariant.
TypeOK ==
  /\ pc \in [Calls -> {"new", "received", "checked", "performed", "stored", "answered", "lost"}]
  /\ print \in [Calls -> {NoPrint} \cup UNION {Fingerprints(c) : c \in Calls}]
  /\ table \in [Keys -> {NoRow} \cup [print : UNION {Fingerprints(c) : c \in Calls},
                                      body : Calls]]
  /\ performed \subseteq Calls
  /\ answer \in [Calls -> {NoAnswer, Error(409), Error(500)} \cup {OK(c) : c \in Calls}]
  /\ restarts \in 0..MaxRestarts
  /\ assured \subseteq Calls

\* Calls with one key that succeed get the same response, and it reports an
\* operation that took effect, whatever ran at the same time or was cut off.
SameAnswer ==
  \A c, d \in Calls :
    answer[c].code = 200 =>
      /\ answer[c].body \in performed
      /\ KeyOf[d] = KeyOf[c] /\ answer[d].code = 200 => answer[d] = answer[c]

\* No client is told that its request succeeded when what was performed under
\* its key was another request (idempotency.go:113-116).
AnswersOwnRequest ==
  \A c \in Calls :
    answer[c].code = 200 => ContentOf[answer[c].body] = ContentOf[c]

\* Once a call with a key has been answered with success, calls that come in
\* with that key perform nothing, also after a restart.
RetriesAreSafe == assured \cap performed = {}

\* docs/01_monolith.md:230, idempotency "Prevents duplicate charges/credits":
\* an operation takes effect at most once for a key.
PerformedOnce ==
  \A c, d \in performed : KeyOf[c] = KeyOf[d] => c = d

=============================================================================
