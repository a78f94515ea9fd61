-------------------------- MODULE IdempotencyProofs --------------------------
(***************************************************************************)
(* Proofs about Idempotency, for any calls, keys and restarts.  The        *)
(* argument: a row never changes once it is there, it names an operation   *)
(* that was performed for the very request its fingerprint was taken from, *)
(* and every success that was answered is a row's.                         *)
(***************************************************************************)
EXTENDS Idempotency, TLAPS

\* What a row of the table says.
RowsOK ==
  \A k \in Keys :
    table[k] # NoRow =>
      /\ table[k].body \in performed
      /\ KeyOf[table[k].body] = k
      /\ table[k].print.content = ContentOf[table[k].body]

\* A success is the response in the table, or about to be.
AnswersOK ==
  \A c \in Calls :
    /\ answer[c].code = 200 =>
         /\ table[KeyOf[c]] # NoRow
         /\ table[KeyOf[c]].body = answer[c].body
         /\ ContentOf[answer[c].body] = ContentOf[c]
    /\ pc[c] = "stored" => table[KeyOf[c]] # NoRow /\ table[KeyOf[c]].body = c
    /\ pc[c] \in {"received", "checked", "performed"} => print[c] \in Fingerprints(c)
    /\ pc[c] \in {"performed", "stored"} => c \in performed
    /\ pc[c] \in {"new", "received", "checked"} => c \notin performed

\* A call that came in after a success finds the row.
AssuredOK ==
  \A c \in assured :
    /\ table[KeyOf[c]] # NoRow
    /\ c \notin performed
    /\ pc[c] \in {"received", "answered", "lost"}

IInv == TypeOK /\ RowsOK /\ AnswersOK /\ AssuredOK

LEMMA Prints ==
  ASSUME NEW c \in Calls, NEW f \in Fingerprints(c)
  PROVE  f.content = ContentOf[c] /\ f \in UNION {Fingerprints(d) : d \in Calls}
BY DEF Fingerprints

LEMMA InitIInv == Init => IInv
BY IdempotencyAssumption
   DEF Init, IInv, TypeOK, RowsOK, AnswersOK, AssuredOK, NoAnswer, Error, OK

LEMMA ReceiveIInv ==
  ASSUME IInv, NEW c \in Calls, Receive(c)
  PROVE  IInv'
<1> USE IdempotencyAssumption DEF Receive, Goto
<1>1. PICK f \in Fingerprints(c) : print' = [print EXCEPT ![c] = f]
  OBVIOUS
<1>2. f.content = ContentOf[c] /\ f \in UNION {Fingerprints(d) : d \in Calls}
  BY Prints
<1>3. TypeOK'
  BY <1>1, <1>2 DEF IInv, TypeOK
<1>4. RowsOK'
  BY DEF IInv, RowsOK
<1>5. AnswersOK'
  BY <1>1, <1>2 DEF IInv, TypeOK, AnswersOK
<1>6. AssuredOK'
  BY DEF IInv, TypeOK, AnswersOK, AssuredOK
<1> QED BY <1>3, <1>4, <1>5, <1>6 DEF IInv

LEMMA CheckIInv ==
  ASSUME IInv, NEW c \in Calls, Check(c)
  PROVE  IInv'
<1> USE IdempotencyAssumption
<1> DEFINE r == table[KeyOf[c]]
<1>1. /\ pc[c] = "received" /\ KeyOf[c] \in Keys
      /\ UNCHANGED <<print, table, performed, restarts, assured>>
  BY DEF Check
<1>2. CASE r = NoRow /\ Goto(c, "checked")
  <2> USE <1>1, <1>2 DEF Goto
  <2>1. TypeOK' /\ RowsOK'
    BY DEF IInv, TypeOK, RowsOK
  <2>2. AnswersOK'
    BY DEF IInv, TypeOK, AnswersOK
  <2>3. AssuredOK'
    BY DEF IInv, TypeOK, AssuredOK
  <2> QED BY <2>1, <2>2, <2>3 DEF IInv
<1>3. CASE r # NoRow /\ r.print = print[c] /\ Respond(c, OK(r.body))
  <2> USE <1>1, <1>3 DEF Respond
  <2>1. r.body \in performed /\ performed \subseteq Calls
    BY DEF IInv, RowsOK, TypeOK
  <2>2. ContentOf[r.body] = ContentOf[c]
    <3>1. print[c].content = ContentOf[c]
      BY Prints DEF IInv, AnswersOK
    <3> QED BY <3>1 DEF IInv, RowsOK
  <2>3. TypeOK' /\ RowsOK'
    BY <2>1 DEF IInv, TypeOK, RowsOK
  <2>4. AnswersOK'
    BY <2>2 DEF IInv, TypeOK, AnswersOK, OK
  <2>5. AssuredOK'
    BY DEF IInv, TypeOK, AssuredOK
  <2> QED BY <2>3, <2>4, <2>5 DEF IInv
<1>4. CASE Respond(c, Error(409))
  <2> USE <1>1, <1>4 DEF Respond
  <2>1. TypeOK' /\ RowsOK'
    BY DEF IInv, TypeOK, RowsOK
  <2>2. AnswersOK'
    BY DEF IInv, TypeOK, AnswersOK, Error
  <2>3. AssuredOK'
    BY DEF IInv, TypeOK, AssuredOK
  <2> QED BY <2>1, <2>2, <2>3 DEF IInv
<1> QED BY <1>2, <1>3, <1>4 DEF Check

LEMMA PerformIInv ==
  ASSUME IInv, NEW c \in Calls, Perform(c)
  PROVE  IInv'
<1> USE IdempotencyAssumption
<1>1. /\ pc[c] = "checked" /\ c \notin assured
      /\ UNCHANGED <<print, table, restarts, assured>>
  BY DEF Perform, IInv, AssuredOK
<1>2. performed' \in {performed, performed \cup {c}}
  BY DEF Perform
<1>3. \/ performed' = performed \cup {c} /\ pc' = [pc EXCEPT ![c] = "performed"] /\ answer' = answer
      \/ pc' = [pc EXCEPT ![c] = "answered"] /\ answer' = [answer EXCEPT ![c] = Error(500)]
  BY DEF Perform, Goto, Respond
<1>4. TypeOK' /\ RowsOK'
  BY <1>1, <1>2, <1>3 DEF IInv, TypeOK, RowsOK
<1>5. AnswersOK'
  BY <1>1, <1>2, <1>3 DEF IInv, TypeOK, AnswersOK, Error
<1>6. AssuredOK'
  BY <1>1, <1>2, <1>3 DEF IInv, TypeOK, AssuredOK
<1> QED BY <1>4, <1>5, <1>6 DEF IInv

LEMMA StoreIInv ==
  ASSUME IInv, NEW c \in Calls, Store(c)
  PROVE  IInv'
<1> USE IdempotencyAssumption
<1>1. /\ pc[c] = "performed" /\ KeyOf[c] \in Keys
      /\ UNCHANGED <<print, performed, restarts, assured>>
      /\ c \in performed /\ print[c] \in Fingerprints(c)
  BY DEF Store, IInv, AnswersOK
<1>2. CASE /\ table[KeyOf[c]] = NoRow
           /\ table' = [table EXCEPT ![KeyOf[c]] = [print |-> print[c], body |-> c]]
           /\ Goto(c, "stored")
  <2> USE <1>1, <1>2 DEF Goto
  <2> DEFINE r == [print |-> print[c], body |-> c]
  <2>1. r # NoRow /\ r.body = c /\ r.print = print[c]
    BY DEF NoRow
  <2>2. table' = [table EXCEPT ![KeyOf[c]] = r] /\ table \in [Keys -> {NoRow} \cup
          [print : UNION {Fingerprints(d) : d \in Calls}, body : Calls]]
    BY DEF IInv, TypeOK
  <2>3. /\ print[c] \in UNION {Fingerprints(d) : d \in Calls}
        /\ print[c].content = ContentOf[c]
    BY Prints
  <2> HIDE DEF r
  <2>4. \A k \in Keys : table'[k] = IF k = KeyOf[c] THEN r ELSE table[k]
    BY <2>2
  <2>5. TypeOK'
    BY <2>2, <2>3 DEF IInv, TypeOK, r
  <2>6. RowsOK'
    BY <2>1, <2>3, <2>4 DEF IInv, RowsOK
  <2>7. AnswersOK'
    BY <2>1, <2>4 DEF IInv, TypeOK, AnswersOK
  <2>8. AssuredOK'
    BY <2>1, <2>4 DEF IInv, TypeOK, AssuredOK
  <2> QED BY <2>5, <2>6, <2>7, <2>8 DEF IInv
<1>3. CASE Respond(c, Error(500)) /\ UNCHANGED table
  <2> USE <1>1, <1>3 DEF Respond
  <2>1. TypeOK' /\ RowsOK'
    BY DEF IInv, TypeOK, RowsOK
  <2>2. AnswersOK'
    BY DEF IInv, TypeOK, AnswersOK, Error
  <2>3. AssuredOK'
    BY DEF IInv, TypeOK, AssuredOK
  <2> QED BY <2>1, <2>2, <2>3 DEF IInv
<1> QED BY <1>2, <1>3 DEF Store

LEMMA AnswerIInv ==
  ASSUME IInv, NEW c \in Calls, Answer(c)
  PROVE  IInv'
<1> USE IdempotencyAssumption DEF Answer, Respond
<1>1. TypeOK' /\ RowsOK'
  BY DEF IInv, TypeOK, RowsOK
<1>2. AnswersOK'
  BY DEF IInv, TypeOK, AnswersOK, OK
<1>3. AssuredOK'
  BY DEF IInv, TypeOK, AssuredOK
<1> QED BY <1>1, <1>2, <1>3 DEF IInv

LEMMA RestartIInv ==
  ASSUME IInv, Restart
  PROVE  IInv'
<1> USE IdempotencyAssumption DEF Restart
<1>1. TypeOK' /\ RowsOK'
  BY DEF IInv, TypeOK, RowsOK
<1>2. AnswersOK'
  BY DEF IInv, TypeOK, AnswersOK
<1>3. AssuredOK'
  BY DEF IInv, TypeOK, AssuredOK
<1> QED BY <1>1, <1>2, <1>3 DEF IInv

LEMMA SpecIInv == Spec => []IInv
<1>1. IInv /\ [Next]_vars => IInv'
  <2> SUFFICES ASSUME IInv, [Next]_vars PROVE IInv'
    OBVIOUS
  <2>1. ASSUME NEW c \in Calls,
               Receive(c) \/ Check(c) \/ Perform(c) \/ Store(c) \/ Answer(c)
        PROVE  IInv'
    BY <2>1, ReceiveIInv, CheckIInv, PerformIInv, StoreIInv, AnswerIInv
  <2>2. CASE Restart
    BY <2>2, RestartIInv
  <2>3. CASE UNCHANGED vars
    BY <2>3 DEF vars, IInv, TypeOK, RowsOK, AnswersOK, AssuredOK
  <2> QED BY <2>1, <2>2, <2>3 DEF Next
<1> QED BY <1>1, InitIInv, PTL DEF Spec

\* Every variable keeps its type.
THEOREM TypeCorrect == Spec => []TypeOK
<1>1. IInv => TypeOK
  BY DEF IInv
<1> QED BY <1>1, SpecIInv, PTL

\* All calls of a key that succeed get one response, of an operation that was
\* performed, however many calls run at once and are cut off.
THEOREM OneResponse == Spec => []SameAnswer
<1>1. IInv => SameAnswer
  <2> SUFFICES ASSUME IInv, NEW c \in Calls, NEW d \in Calls, answer[c].code = 200
               PROVE  /\ answer[c].body \in performed
                      /\ KeyOf[d] = KeyOf[c] /\ answer[d].code = 200 => answer[d] = answer[c]
    BY DEF SameAnswer
  <2>1. table[KeyOf[c]] # NoRow /\ table[KeyOf[c]].body = answer[c].body /\ KeyOf[c] \in Keys
    BY IdempotencyAssumption DEF IInv, AnswersOK
  <2>2. answer[c].body \in performed
    BY <2>1 DEF IInv, RowsOK
  <2>3. ASSUME KeyOf[d] = KeyOf[c], answer[d].code = 200 PROVE answer[d] = answer[c]
    <3>1. answer[d].body = answer[c].body
      BY <2>1, <2>3 DEF IInv, AnswersOK
    <3>2. /\ answer[c] = [code |-> 200, body |-> answer[c].body]
          /\ answer[d] = [code |-> 200, body |-> answer[d].body]
      BY <2>3 DEF IInv, TypeOK, OK, Error, NoAnswer
    <3> QED BY <3>1, <3>2
  <2> QED BY <2>2, <2>3
<1> QED BY <1>1, SpecIInv, PTL

\* A success is always the answer to the request it was sent to.
THEOREM NoForeignAnswer == Spec => []AnswersOwnRequest
<1>1. IInv => AnswersOwnRequest
  BY DEF IInv, AnswersOK, AnswersOwnRequest
<1> QED BY <1>1, SpecIInv, PTL

\* After a success, no call with its key performs anything.
THEOREM SafeRetries == Spec => []RetriesAreSafe
<1>1. IInv => RetriesAreSafe
  BY DEF IInv, AssuredOK, RetriesAreSafe
<1> QED BY <1>1, SpecIInv, PTL

=============================================================================
