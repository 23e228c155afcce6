-------------------------- MODULE HITLServiceProofs --------------------------
(***************************************************************************)
(* What HITLService promises, for every set of requests, number of threads *)
(* and calls.  The service drives the abstract Ledger, so the ledger's own *)
(* inductive invariant (LedgerProofs) holds of its five variables; what is *)
(* added here ties the ledger to the handlers and to what they have told.  *)
(***************************************************************************)
EXTENDS HITLService, TLAPS

LP == INSTANCE LedgerProofs WITH
        Session <- Thread,
        Key <- {q.command : q \in Request},
        Stream <- {q.decision : q \in Request},
        Event <- {EventOf(q, at, n) : q \in Request, at \in Nat, n \in Counts}

\* e is an event handle_action may build for request q.
BuiltFor(q, e) ==
    \E at \in Nat, n \in Counts :
        /\ q.at # None => at = q.at
        /\ e = EventOf(q, at, n)

\* A handler holds a request while it works, and has a ledger call in
\* progress exactly while it appends: the event it built for that request.
HandlersOwnCalls ==
    \A t \in Thread :
        /\ pc[t] # "idle" => input[t] \in Request
        /\ pc[t] = "appending" <=> phase[t] # "idle"
        /\ pc[t] = "appending" =>
                Valid(input[t]) /\ BuiltFor(input[t], request[t].event)

\* An outcome the ledger decided rests on a row of the request's key, which
\* has the content of the event built for it exactly when it was accepted;
\* an invalid outcome is of an invalid request.
ToldIsGrounded ==
    \A o \in told :
        /\ o.status = "invalid" => ~ Valid(o.request)
        /\ o.status \in {"appended", "duplicate", "rejected"} =>
            /\ Valid(o.request)
            /\ \E r \in rows, at \in Nat, n \in Counts :
                /\ r.id = o.id
                /\ o.request.at # None => at = o.request.at
                /\ r.event.key = o.request.command
                /\ Accepted(o) <=> L!SameContent(r.event, EventOf(o.request, at, n))

\* The inductive invariant.
IInv == TypeOK /\ LP!IInv /\ HandlersOwnCalls /\ ToldIsGrounded

LEMMA EventsHaveKeys ==
    \A e \in {EventOf(q, at, n) : q \in Request, at \in Nat, n \in Counts} :
        /\ e.key \in {q.command : q \in Request}
        /\ e.stream \in {q.decision : q \in Request}
BY DEF EventOf

\* The ledger's invariant is kept by every step of the ledger.
LEMMA LedgerKeepsIInv == LP!IInv /\ [LP!Next]_(LP!vars) => LP!IInv'
BY LP!NextIInv, EventsHaveKeys, BoundsAssumption

LEMMA LedgerInitIInv == L!Init => LP!IInv
<1>1. L!Init => LP!Init
  BY DEF L!Init, LP!Init
<1> QED
  BY <1>1, LP!InitIInv, EventsHaveKeys, BoundsAssumption

\* Every step of the service is a step of the ledger, or leaves it alone.
LEMMA StepIsLedgerStep ==
    ASSUME IInv, [Next]_vars
    PROVE  [LP!Next]_(LP!vars)
<1> USE DEF ledgerVars, LP!vars, LP!Next
<1>1. CASE Tick \/ UNCHANGED vars
  BY <1>1 DEF Tick, vars
<1>2. ASSUME NEW t \in Thread, NEW q \in Request, Receive(t, q)
      PROVE  UNCHANGED LP!vars
  BY <1>2 DEF Receive
<1>3. ASSUME NEW t \in Thread, Refuse(t)
      PROVE  UNCHANGED LP!vars
  BY <1>3 DEF Refuse
<1>4. ASSUME NEW t \in Thread, CallLedger(t)
      PROVE  LP!Next
  <2>1. OccurredAt(input[t]) \in Nat
    BY <1>4, RequestAssumption DEF CallLedger, IInv, HandlersOwnCalls, TypeOK, OccurredAt
  <2>2. input[t] \in Request
    BY <1>4 DEF CallLedger, IInv, HandlersOwnCalls
  <2>3. PICK n \in Counts : L!Ask(t, EventOf(input[t], OccurredAt(input[t]), n))
    BY <1>4 DEF CallLedger
  <2>4. LP!Ask(t, EventOf(input[t], OccurredAt(input[t]), n))
    BY <2>3 DEF L!Ask, LP!Ask
  <2> QED
    BY <2>1, <2>2, <2>4
<1>5. ASSUME NEW t \in Thread, LedgerStep(t)
      PROVE  LP!Next
  BY <1>5 DEF LedgerStep, L!AppendRow, LP!AppendRow, L!Judge, LP!Judge, L!Tell, LP!Tell,
              L!Verdict, LP!Verdict, L!SameContent, LP!SameContent
<1>6. ASSUME NEW t \in Thread, Respond(t) \/ LedgerLost(t)
      PROVE  LP!Next
  BY <1>6 DEF Respond, LedgerLost, L!End, LP!End
<1> QED
  BY <1>1, <1>2, <1>3, <1>4, <1>5, <1>6 DEF Next, Handle

\* The handlers and their outcomes keep their types.
LEMMA TypeStep ==
    ASSUME IInv, [Next]_vars
    PROVE  TypeOK'
<1> USE DEF TypeOK
<1>1. LP!IInv' /\ calls' \in 0..MaxCalls
  <2>1. LP!IInv'
    BY StepIsLedgerStep, LedgerKeepsIInv DEF IInv
  <2> QED
    BY <2>1 DEF LP!IInv, LP!TypeOK
<1>2. CASE Tick \/ UNCHANGED vars
  BY <1>1, <1>2, BoundsAssumption DEF Tick, vars, IInv
<1>3. ASSUME NEW t \in Thread, NEW q \in Request, Receive(t, q)
      PROVE  TypeOK'
  BY <1>1, <1>3 DEF Receive, IInv
<1>4. ASSUME NEW t \in Thread, Refuse(t)
      PROVE  TypeOK'
  <2>1. input[t] \in Request
    BY <1>4 DEF Refuse, IInv, HandlersOwnCalls
  <2>2. [request |-> input[t], status |-> "invalid", id |-> 0, call |-> 0] \in Outcome
    BY <2>1 DEF Outcome
  <2> QED
    BY <1>1, <1>4, <2>2 DEF Refuse, Finish, IInv
<1>5. ASSUME NEW t \in Thread, CallLedger(t) \/ LedgerStep(t)
      PROVE  TypeOK'
  BY <1>1, <1>5 DEF CallLedger, LedgerStep, IInv
<1>6. ASSUME NEW t \in Thread, Respond(t) \/ LedgerLost(t)
      PROVE  TypeOK'
  <2>1. input[t] \in Request /\ phase[t] # "idle"
    BY <1>6 DEF Respond, LedgerLost, IInv, HandlersOwnCalls
  <2>2. request[t].id \in Nat
    BY <2>1 DEF IInv, LP!IInv, LP!RequestsAreOwn, LP!Row
  <2>3. [request |-> input[t], status |-> "failed", id |-> 0, call |-> request[t].id] \in Outcome
    BY <2>1, <2>2 DEF Outcome
  <2>4. CASE LedgerLost(t)
    BY <1>1, <2>3, <2>4 DEF LedgerLost, Finish, IInv
  <2>5. CASE Respond(t)
    <3>1. phase[t] = "answered"
      BY <2>5 DEF Respond
    <3>2. answer[t].id \in Nat /\ answer[t].status \in {"appended", "duplicate", "rejected"}
      <4>1. PICK r \in rows : /\ r.id = answer[t].id
                              /\ \/ answer[t].status = "appended"
                                 \/ answer[t] = LP!Verdict(r, request[t].event)
        BY <3>1 DEF IInv, LP!IInv, LP!AnswersAreTrue
      <4>2. r.id \in Nat
        BY DEF IInv, LP!IInv, LP!TypeOK, LP!Row
      <4> QED
        BY <4>1, <4>2 DEF LP!Verdict
    <3>3. [request |-> input[t], status |-> answer[t].status, id |-> answer[t].id,
           call |-> request[t].id] \in Outcome
      BY <2>1, <2>2, <3>2 DEF Outcome
    <3> QED
      BY <1>1, <2>5, <3>3 DEF Respond, Finish, IInv
  <2> QED
    BY <1>6, <2>4, <2>5
<1> QED
  BY <1>2, <1>3, <1>4, <1>5, <1>6 DEF Next, Handle

\* A handler's call is opened, answered and closed with the handler.
LEMMA HandlersStep ==
    ASSUME IInv, [Next]_vars
    PROVE  HandlersOwnCalls'
<1> USE DEF IInv, TypeOK, LP!IInv, LP!TypeOK, HandlersOwnCalls
<1>1. CASE Tick \/ UNCHANGED vars
  BY <1>1 DEF Tick, vars, ledgerVars, BuiltFor
<1>2. ASSUME NEW t \in Thread, NEW q \in Request, Receive(t, q)
      PROVE  HandlersOwnCalls'
  BY <1>2 DEF Receive, ledgerVars, BuiltFor
<1>3. ASSUME NEW t \in Thread, Refuse(t)
      PROVE  HandlersOwnCalls'
  BY <1>3 DEF Refuse, Finish, ledgerVars, BuiltFor
<1>4. ASSUME NEW t \in Thread, CallLedger(t)
      PROVE  HandlersOwnCalls'
  <2>1. PICK n \in Counts : L!Ask(t, EventOf(input[t], OccurredAt(input[t]), n))
    BY <1>4 DEF CallLedger
  <2>2. /\ input[t] \in Request /\ Valid(input[t])
        /\ pc' = [pc EXCEPT ![t] = "appending"] /\ input' = input
    BY <1>4 DEF CallLedger
  <2>3. OccurredAt(input[t]) \in Nat
    BY <2>2, RequestAssumption DEF OccurredAt
  <2>4. /\ phase' = [phase EXCEPT ![t] = "asked"]
        /\ request'[t].event = EventOf(input[t], OccurredAt(input[t]), n)
        /\ \A u \in Thread \ {t} : request'[u] = request[u]
    BY <2>1 DEF L!Ask
  <2>5. BuiltFor(input[t], request'[t].event)
    BY <2>3, <2>4 DEF BuiltFor, OccurredAt
  <2> QED
    BY <2>2, <2>4, <2>5 DEF BuiltFor
<1>5. ASSUME NEW t \in Thread, LedgerStep(t)
      PROVE  HandlersOwnCalls'
  <2>1. /\ phase[t] # "idle" /\ phase' = [phase EXCEPT ![t] = "answered"]
        /\ UNCHANGED <<pc, input, request>>
    BY <1>5 DEF LedgerStep, L!AppendRow, L!Judge, L!Tell
  <2> QED
    BY <2>1 DEF BuiltFor
<1>6. ASSUME NEW t \in Thread, Respond(t) \/ LedgerLost(t)
      PROVE  HandlersOwnCalls'
  <2>1. /\ phase' = [phase EXCEPT ![t] = "idle"] /\ pc' = [pc EXCEPT ![t] = "idle"]
        /\ \A u \in Thread \ {t} : request'[u] = request[u] /\ input'[u] = input[u]
    BY <1>6 DEF Respond, LedgerLost, Finish, L!End
  <2> QED
    BY <2>1 DEF BuiltFor
<1> QED
  BY <1>1, <1>2, <1>3, <1>4, <1>5, <1>6 DEF Next, Handle

\* What was told stays grounded while the ledger only grows.
LEMMA GroundedStays ==
    ASSUME ToldIsGrounded, rows \subseteq rows', UNCHANGED told
    PROVE  ToldIsGrounded'
<1> SUFFICES ASSUME NEW o \in told
             PROVE  ToldIsGrounded!(o)'
  BY DEF ToldIsGrounded
<1>1. ToldIsGrounded!(o)
  BY DEF ToldIsGrounded
<1> QED
  BY <1>1

\* An outcome is grounded when it is told: the answer it passes on is true.
LEMMA ToldStep ==
    ASSUME IInv, [Next]_vars
    PROVE  ToldIsGrounded'
<1> USE DEF IInv
<1>1. CASE Tick \/ UNCHANGED vars
  BY <1>1, GroundedStays DEF Tick, vars, ledgerVars
<1>2. ASSUME NEW t \in Thread, NEW q \in Request, Receive(t, q)
      PROVE  ToldIsGrounded'
  BY <1>2, GroundedStays DEF Receive, ledgerVars
<1>3. ASSUME NEW t \in Thread, Refuse(t)
      PROVE  ToldIsGrounded'
  <2> DEFINE o == [request |-> input[t], status |-> "invalid", id |-> 0, call |-> 0]
  <2>1. told' = told \cup {o} /\ rows' = rows /\ ~ Valid(input[t])
    BY <1>3 DEF Refuse, Finish, ledgerVars
  <2> QED
    BY <2>1 DEF ToldIsGrounded
<1>4. ASSUME NEW t \in Thread, CallLedger(t) \/ LedgerStep(t)
      PROVE  ToldIsGrounded'
  <2>1. rows \subseteq rows' /\ told' = told
    BY <1>4 DEF CallLedger, LedgerStep, L!Ask, L!AppendRow, L!Judge
  <2> QED
    BY <2>1, GroundedStays
<1>5. ASSUME NEW t \in Thread, LedgerLost(t)
      PROVE  ToldIsGrounded'
  <2> DEFINE o == [request |-> input[t], status |-> "failed", id |-> 0, call |-> request[t].id]
  <2>1. told' = told \cup {o} /\ rows' = rows
    BY <1>5 DEF LedgerLost, Finish, L!End
  <2> QED
    BY <2>1 DEF ToldIsGrounded
<1>6. ASSUME NEW t \in Thread, Respond(t)
      PROVE  ToldIsGrounded'
  <2> DEFINE q == input[t]
             e == request[t].event
             o == [request |-> q, status |-> answer[t].status, id |-> answer[t].id,
                   call |-> request[t].id]
  <2>1. told' = told \cup {o} /\ rows' = rows /\ phase[t] = "answered" /\ pc[t] = "appending"
    BY <1>6 DEF Respond, Finish, L!End
  <2>2. Valid(q) /\ BuiltFor(q, e)
    BY <2>1 DEF HandlersOwnCalls
  <2>3. PICK at \in Nat, n \in Counts : (q.at # None => at = q.at) /\ e = EventOf(q, at, n)
    BY <2>2 DEF BuiltFor
  <2>4. PICK r \in rows : /\ r.id = answer[t].id
                          /\ r.event.key = e.key
                          /\ \/ answer[t].status = "appended" /\ r = request[t]
                             \/ /\ answer[t].status # "appended"
                                /\ answer[t] = LP!Verdict(r, e)
    BY <2>1 DEF LP!IInv, LP!AnswersAreTrue
  <2>5. e.key = q.command
    BY <2>3 DEF EventOf
  <2>6. answer[t].status \in {"appended", "duplicate"} <=> L!SameContent(r.event, e)
    BY <2>4 DEF L!SameContent, LP!SameContent, LP!Verdict
  <2>7. answer[t].status # "invalid"
    BY <2>4 DEF LP!Verdict
  <2>8. ToldIsGrounded!(o)
    BY <2>2, <2>3, <2>4, <2>5, <2>6, <2>7 DEF Accepted
  <2> HIDE DEF o
  <2> QED
    BY <2>1, <2>8 DEF ToldIsGrounded
<1> QED
  BY <1>1, <1>2, <1>3, <1>4, <1>5, <1>6 DEF Next, Handle

LEMMA InitIInv == Init => IInv
<1> SUFFICES ASSUME Init
             PROVE  IInv
  OBVIOUS
<1>1. LP!IInv /\ calls \in 0..MaxCalls
  BY LedgerInitIInv DEF Init, LP!IInv, LP!TypeOK
<1>2. TypeOK
  BY <1>1, BoundsAssumption DEF Init, TypeOK
<1>3. HandlersOwnCalls /\ ToldIsGrounded
  BY DEF Init, L!Init, HandlersOwnCalls, ToldIsGrounded
<1> QED
  BY <1>1, <1>2, <1>3 DEF IInv

LEMMA NextIInv == IInv /\ [Next]_vars => IInv'
BY TypeStep, HandlersStep, ToldStep, StepIsLedgerStep, LedgerKeepsIInv DEF IInv

-----------------------------------------------------------------------------
\* The inductive invariant holds of every behaviour of the service.
THEOREM HITLInvariant == Spec => []IInv
BY InitIInv, NextIInv, PTL DEF Spec

\* Handlers, requests and outcomes keep their types.
THEOREM HITLTypeCorrect == Spec => []TypeOK
<1>1. IInv => TypeOK
  BY DEF IInv
<1> QED
  BY <1>1, HITLInvariant, PTL

\* HITLService uses its ledger as the ledger's contract allows: every step of
\* a handler is a step of the abstract Ledger, or leaves it alone.
THEOREM HITLDrivesLedger == Spec => L!Spec
<1>1. Init => L!Init
  BY DEF Init
<1>2. IInv /\ [Next]_vars => [L!Next]_(L!vars)
  <2>1. [LP!Next]_(LP!vars) => [L!Next]_(L!vars)
    BY DEF LP!Next, L!Next, LP!vars, L!vars, LP!Ask, L!Ask, LP!AppendRow, L!AppendRow,
           LP!Judge, L!Judge, LP!End, L!End, LP!Tell, L!Tell, LP!Verdict, L!Verdict,
           LP!SameContent, L!SameContent
  <2> QED
    BY <2>1, StepIsLedgerStep
<1> QED
  BY <1>1, <1>2, HITLInvariant, PTL DEF Spec, L!Spec

\* A retry that carries its occurred_at is a no-op: the two outcomes rest on
\* rows of one key, hence on one row, and the events built for them differ
\* at most in the counters, which no digest holds.
THEOREM HITLRetryIsNoOp == Spec => []RetryIsNoOp
<1>1. ASSUME IInv
      PROVE  RetryIsNoOp
  <2> SUFFICES ASSUME NEW o \in told, NEW p \in told,
                      o.request = p.request, o.request.at # None,
                      Accepted(o), p.status # "failed"
               PROVE  Accepted(p) /\ p.id = o.id
    BY DEF RetryIsNoOp
  <2> DEFINE q == o.request
  <2>1. PICK r \in rows, n \in Counts :
            /\ r.id = o.id /\ r.event.key = q.command
            /\ L!SameContent(r.event, EventOf(q, q.at, n))
            /\ Valid(q)
    BY <1>1 DEF IInv, ToldIsGrounded, Accepted
  <2>2. p.status \in {"appended", "duplicate", "rejected"}
    BY <1>1, <2>1 DEF IInv, TypeOK, Outcome, ToldIsGrounded
  <2>3. PICK s \in rows, m \in Counts :
            /\ s.id = p.id /\ s.event.key = q.command
            /\ Accepted(p) <=> L!SameContent(s.event, EventOf(q, q.at, m))
    BY <1>1, <2>2 DEF IInv, ToldIsGrounded
  <2>4. r = s
    BY <1>1, <2>1, <2>3 DEF IInv, LP!IInv, LP!OneRowPerKey
  <2> QED
    BY <2>1, <2>3, <2>4 DEF L!SameContent, EventOf, DigestOf
<1> QED
  BY <1>1, HITLInvariant, PTL

\* What the operator is told was decided is what the ledger recorded: the
\* digests agree, and a digest holds the action, the channel and the approval.
THEOREM HITLReplyMatchesRecord == Spec => []ReplyMatchesRecord
<1>1. ASSUME IInv
      PROVE  ReplyMatchesRecord
  <2> SUFFICES ASSUME NEW o \in told, Accepted(o)
               PROVE  ReplyMatchesRecord!(o)!2
    BY DEF ReplyMatchesRecord
  <2> DEFINE q == o.request
  <2>1. PICK r \in rows, at \in Nat, n \in Counts :
            /\ r.id = o.id
            /\ L!SameContent(r.event, EventOf(q, at, n))
            /\ Valid(q)
    BY <1>1 DEF IInv, ToldIsGrounded, Accepted
  <2>2. PICK p \in Request, at2 \in Nat, n2 \in Counts : r.event = EventOf(p, at2, n2)
    BY <1>1 DEF IInv, LP!IInv, LP!TypeOK, LP!Row
  <2> QED
    BY <2>1, <2>2 DEF L!SameContent, EventOf, DigestOf, Valid
<1> QED
  BY <1>1, HITLInvariant, PTL
=============================================================================
