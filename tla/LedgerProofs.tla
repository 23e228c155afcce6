----------------------------- MODULE LedgerProofs -----------------------------
(***************************************************************************)
(* What the abstract ledger promises holds for every set of keys, events   *)
(* and sessions and for any number of calls.                               *)
(***************************************************************************)
EXTENDS Ledger, TLAPS

\* A session that is not idle holds a row to append, whose id was given out
\* to it alone.
RequestsAreOwn ==
    /\ \A s \in Session : phase[s] # "idle" =>
            request[s] \in Row /\ request[s].id \in 1..calls
    /\ \A s, t \in Session :
            phase[s] # "idle" /\ phase[t] # "idle" /\ request[s].id = request[t].id
                => s = t

\* The inductive invariant.
IInv == TypeOK /\ RequestsAreOwn /\ OneRowPerKey /\ AnswersAreTrue

\* What a judged call is told is an answer, and never "appended".
LEMMA VerdictIsAnswer ==
    ASSUME NEW r \in Row, NEW e
    PROVE  Verdict(r, e) \in Answer /\ Verdict(r, e).status # "appended"
BY DEF Verdict, Answer, Statuses, Row

\* The empty ledger satisfies the invariant.
LEMMA InitIInv == Init => IInv
BY MaxCallsAssumption
   DEF Init, IInv, TypeOK, RequestsAreOwn, OneRowPerKey, AnswersAreTrue

\* A new call is given an id that no row and no other call has.
LEMMA AskIInv ==
    ASSUME IInv, NEW s \in Session, NEW e \in Event, Ask(s, e)
    PROVE  IInv'
<1> USE DEF IInv, Ask
<1>1. calls' \in 0..MaxCalls /\ calls' = calls + 1 /\ calls \in Nat
  BY MaxCallsAssumption DEF TypeOK
<1>2. [id |-> calls + 1, event |-> e] \in Row
  BY <1>1 DEF Row
<1>3. TypeOK'
  BY <1>1, <1>2 DEF TypeOK
<1>4. RequestsAreOwn'
  <2>1. request'[s] \in Row /\ request'[s].id = calls + 1
    BY <1>2 DEF TypeOK
  <2>2. \A t \in Session \ {s} : phase'[t] = phase[t] /\ request'[t] = request[t]
    BY DEF TypeOK
  <2>3. \A t \in Session \ {s} : phase'[t] # "idle" => request'[t].id \in 1..calls
    BY <2>2 DEF RequestsAreOwn
  <2> QED
    BY <1>1, <2>1, <2>2, <2>3 DEF RequestsAreOwn
<1>5. OneRowPerKey'
  BY DEF OneRowPerKey
<1>6. AnswersAreTrue'
  BY DEF AnswersAreTrue, TypeOK
<1> QED
  BY <1>3, <1>4, <1>5, <1>6

\* Appending a row whose key is free keeps keys single and answers true.
LEMMA AppendRowIInv ==
    ASSUME IInv, NEW s \in Session, AppendRow(s)
    PROVE  IInv'
<1> USE DEF IInv, AppendRow, Tell
<1>1. request[s] \in Row /\ request[s].id \in Nat
  BY DEF RequestsAreOwn, Row
<1>2. [status |-> "appended", id |-> request[s].id] \in Answer
  BY <1>1 DEF Answer, Statuses
<1>3. TypeOK'
  BY <1>1, <1>2 DEF TypeOK
<1>4. RequestsAreOwn'
  BY DEF RequestsAreOwn, TypeOK
<1>5. OneRowPerKey'
  BY DEF OneRowPerKey
<1>6. AnswersAreTrue'
  <2> SUFFICES ASSUME NEW t \in Session, phase'[t] = "answered"
               PROVE  AnswersAreTrue!(t)'
    BY DEF AnswersAreTrue
  <2>1. CASE t = s
    BY <2>1, <1>2 DEF TypeOK
  <2>2. CASE t # s
    BY <2>2 DEF AnswersAreTrue, TypeOK
  <2> QED
    BY <2>1, <2>2
<1> QED
  BY <1>3, <1>4, <1>5, <1>6

\* A call judged by the row of its key is answered with the truth.
LEMMA JudgeIInv ==
    ASSUME IInv, NEW s \in Session, Judge(s)
    PROVE  IInv'
<1> USE DEF IInv
<1>1. PICK r \in rows : /\ r.event.key = request[s].event.key
                        /\ Tell(s, Verdict(r, request[s].event))
  BY DEF Judge
<1>2. UNCHANGED <<rows, request, calls>> /\ phase[s] = "asked"
  BY DEF Judge
<1>3. Verdict(r, request[s].event) \in Answer
      /\ Verdict(r, request[s].event).status # "appended"
      /\ Verdict(r, request[s].event).id = r.id
  BY VerdictIsAnswer DEF TypeOK, Verdict
<1>4. TypeOK'
  BY <1>1, <1>2, <1>3 DEF TypeOK, Tell
<1>5. RequestsAreOwn'
  BY <1>1, <1>2 DEF RequestsAreOwn, TypeOK, Tell
<1>6. OneRowPerKey'
  BY <1>2 DEF OneRowPerKey
<1>7. AnswersAreTrue'
  <2> SUFFICES ASSUME NEW t \in Session, phase'[t] = "answered"
               PROVE  AnswersAreTrue!(t)'
    BY DEF AnswersAreTrue
  <2>1. CASE t = s
    BY <2>1, <1>1, <1>2, <1>3 DEF TypeOK, Tell
  <2>2. CASE t # s
    BY <2>2, <1>1, <1>2 DEF AnswersAreTrue, TypeOK, Tell
  <2> QED
    BY <2>1, <2>2
<1> QED
  BY <1>4, <1>5, <1>6, <1>7

\* A call that returns, or is lost, takes nothing with it.
LEMMA EndIInv ==
    ASSUME IInv, NEW s \in Session, End(s)
    PROVE  IInv'
BY DEF IInv, End, TypeOK, RequestsAreOwn, OneRowPerKey, AnswersAreTrue

\* Every step keeps the invariant.
LEMMA NextIInv == IInv /\ [Next]_vars => IInv'
<1> SUFFICES ASSUME IInv, [Next]_vars
             PROVE  IInv'
  OBVIOUS
<1>1. ASSUME NEW s \in Session, NEW e \in Event, Ask(s, e)
      PROVE  IInv'
  BY <1>1, AskIInv
<1>2. ASSUME NEW s \in Session, AppendRow(s)
      PROVE  IInv'
  BY <1>2, AppendRowIInv
<1>3. ASSUME NEW s \in Session, Judge(s)
      PROVE  IInv'
  BY <1>3, JudgeIInv
<1>4. ASSUME NEW s \in Session, End(s)
      PROVE  IInv'
  BY <1>4, EndIInv
<1>5. CASE UNCHANGED vars
  BY <1>5 DEF vars, IInv, TypeOK, RequestsAreOwn, OneRowPerKey, AnswersAreTrue
<1> QED
  BY <1>1, <1>2, <1>3, <1>4, <1>5 DEF Next

\* The inductive invariant holds of every behaviour of the ledger.
THEOREM LedgerInvariant == Spec => []IInv
BY InitIInv, NextIInv, PTL DEF Spec

\* The variables keep their types, for every number of sessions and calls.
THEOREM LedgerTypeCorrect == Spec => []TypeOK
<1>1. IInv => TypeOK
  BY DEF IInv
<1> QED
  BY <1>1, LedgerInvariant, PTL

\* Every answer held by a caller of append_event is true of the rows.
THEOREM LedgerAnswersAreTrue == Spec => []AnswersAreTrue
<1>1. IInv => AnswersAreTrue
  BY DEF IInv
<1> QED
  BY <1>1, LedgerInvariant, PTL

\* No two calls are both told that they appended one key: the two rows they
\* name would be one, and a row carries the id of a single request.
THEOREM LedgerOneWinner == Spec => []OneWinnerPerKey
<1>1. IInv => OneWinnerPerKey
  <2> SUFFICES ASSUME IInv,
                      NEW s \in Session, NEW t \in Session,
                      phase[s] = "answered", answer[s].status = "appended",
                      phase[t] = "answered", answer[t].status = "appended",
                      request[s].event.key = request[t].event.key
               PROVE  s = t
    BY DEF OneWinnerPerKey
  <2>1. request[s] \in rows /\ request[t] \in rows
    BY DEF IInv, AnswersAreTrue
  <2>2. request[s] = request[t]
    BY <2>1 DEF IInv, OneRowPerKey
  <2> QED
    BY <2>2 DEF IInv, RequestsAreOwn
<1> QED
  BY <1>1, LedgerInvariant, PTL

\* No step of the ledger changes or removes a row.
THEOREM LedgerAppendOnly == Spec => AppendOnly
<1>1. [Next]_vars => [rows \subseteq rows']_vars
  BY DEF Next, Ask, AppendRow, Judge, End, vars
<1> QED
  BY <1>1, PTL DEF Spec, AppendOnly
=============================================================================
