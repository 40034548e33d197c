------------------------ MODULE WebhookDeliveryProofs ------------------------
(***************************************************************************)
(* WebhookDelivery for any number of servers, rows, webhooks and faults:   *)
(* type correctness, exclusive claims, settled rows stay settled, outcomes *)
(* are earned, every POST is accounted for, duplicates are paid for by     *)
(* faults, and the refinement of DeliveryQueue.                            *)
(***************************************************************************)
EXTENDS WebhookDelivery, FiniteSetTheorems, TLAPS

\* A loop has a delivery, a token and (after the POST) an outcome exactly in
\* the phases of process_due_deliveries that use them.
WorkerShape ==
    \A w \in Server :
        /\ Holding(w) => worker[w].delivery \in Delivery /\ worker[w].token \in Token
        /\ ~Holding(w) => worker[w].token = None
        /\ worker[w].phase = "finalizing" <=> worker[w].outcome # None
        /\ worker[w].outcome = "retryable" => worker[w].attempts + 1 < MaxAttempts

\* A row carries a token exactly while it is processing, and can still be
\* attempted as long as it is not settled.
RowShape ==
    \A d \in Delivery :
        /\ row[d].token # None <=> row[d].status = "processing"
        /\ row[d].attempts <= MaxAttempts
        /\ row[d].status \notin Terminal => row[d].attempts < MaxAttempts
        /\ row[d].status = "absent" => row[d].attempts = 0

\* A token names one claim: one row and one worker at most refer to it.
TokensUnique ==
    /\ \A d, e \in Delivery : d # e /\ row[d].token = row[e].token => row[d].token = None
    /\ \A w, v \in Server : w # v /\ Holding(w) /\ Holding(v) => worker[w].token # worker[v].token
    /\ \A w \in Server, d \in Delivery :
         Holding(w) /\ row[d].token = worker[w].token => worker[w].delivery = d

\* The holder of the current token read the count the row still has.
ClaimFresh ==
    \A w \in Server : Holding(w) /\ Current(w) =>
        row[worker[w].delivery].attempts = worker[w].attempts

IndInv == TypeOK /\ WorkerShape /\ RowShape /\ TokensUnique /\ ClaimFresh


\* Settling a row is the business of the holder of its current token alone, so
\* the five parts of IndInv are kept together by every step.
THEOREM InitIndInv == Init => IndInv
<1> SUFFICES ASSUME Init PROVE IndInv
  OBVIOUS
<1> USE DEF Init
<1>1. /\ row \in [Delivery -> RowType]
      /\ worker \in [Server -> WorkerType]
  BY DEF RowType, WorkerType, NoRow, Free, Status, Phase
<1>2. TypeOK
  BY <1>1 DEF TypeOK
<1>3. \A w \in Server : ~Holding(w) /\ worker[w] = Free("waiting")
  BY DEF Holding, Free
<1>4. WorkerShape
  BY <1>3, NoneAssumption DEF WorkerShape, Free
<1>5. RowShape
  BY AttemptsAssumption DEF RowShape, NoRow, Terminal
<1>6. TokensUnique /\ ClaimFresh
  BY <1>3 DEF TokensUnique, ClaimFresh, NoRow
<1> QED
  BY <1>2, <1>4, <1>5, <1>6 DEF IndInv

\* The effects a step can have on the worker and on the row keep their types.
LEMMA FreeType == \A phase \in Phase : Free(phase) \in WorkerType
  BY DEF Free, WorkerType

\* An INSERT writes a well-formed row.
LEMMA NewRowType == \A h \in Webhook : NewRow(h) \in RowType
  BY DEF NewRow, NoRow, RowType, Status

\* So does the UPDATE of a claim, and what it returns is a claimed delivery.
LEMMA LeasedType ==
  ASSUME TypeOK, NEW d \in Delivery, NEW t \in Token
  PROVE  Leased(d, t) \in RowType /\ Claimed(d, t) \in WorkerType
<1>1. row[d] \in RowType
  BY DEF TypeOK
<1> QED
  BY <1>1, TimeAssumption DEF Leased, Claimed, Free, RowType, WorkerType, Status, Phase

\* So do the three UPDATEs of finalize_delivery_attempt.
LEMMA RecordedType ==
  ASSUME TypeOK, NEW d \in Delivery, NEW w \in Server, worker[w].outcome \in Outcome
  PROVE  Recorded(row[d], worker[w]) \in RowType
<1>1. row[d] \in RowType /\ worker[w] \in WorkerType
  BY DEF TypeOK
<1> QED
  BY <1>1 DEF Recorded, RowType, WorkerType, Status, Outcome

\* Countdowns stay integers.
LEMMA Down1Type == \A n \in Int : Down1(n) \in Int
  BY TimeAssumption DEF Down1

\* A row keeps its type as it ages.
LEMMA AgedType == \A r \in RowType : Aged(r) \in RowType
  BY Down1Type DEF Aged, RowType

\* Every answer is classified, and a retry is promised only while attempts
\* remain, so that the backoff table has an entry for it.
LEMMA AnsweredType ==
  ASSUME NEW w \in Server, worker[w] \in WorkerType, NEW answer \in Answer
  PROVE  LET o == Classify(answer, worker[w].attempts + 1)
         IN  /\ Answered(w, o) \in WorkerType
             /\ o \in Outcome
             /\ o = "retryable" => worker[w].attempts + 1 < MaxAttempts
<1> DEFINE n == worker[w].attempts + 1
           o == Classify(answer, n)
<1>1. worker[w].attempts \in Nat /\ n \in Nat /\ n >= 1
  BY DEF WorkerType
<1>2. o \in Outcome
  BY DEF Classify, Outcome
<1>3. o = "retryable" => n < MaxAttempts
  BY DEF Classify, HasRetry
<1>4. o = "retryable" => BackoffMinutes[n] \in Int
  <2> SUFFICES ASSUME n < MaxAttempts PROVE BackoffMinutes[n] \in Int
    BY <1>3
  <2>1. n = 1 \/ n = 2 \/ n = 3 \/ n = 4
    BY <1>1, AttemptsAssumption
  <2> HIDE DEF n
  <2> QED
    BY <2>1 DEF BackoffMinutes
<1> HIDE DEF o
<1>5. Answered(w, o) \in WorkerType
  BY <1>2, <1>4 DEF Answered, WorkerType, Phase
<1> QED
  BY <1>2, <1>3, <1>5 DEF o

\* The types of all variables are kept by every step.
LEMMA TypeOKStep ==
  ASSUME TypeOK, WorkerShape, [Next]_vars
  PROVE  TypeOK'
<1> USE FreeType, NewRowType DEF TypeOK, Phase
<1>1. CASE EditWebhooks
  BY <1>1 DEF EditWebhooks, histVars
<1>2. CASE Tick
  <2>1. faults' \in Nat
    <3>1. Outlived \subseteq Server
      BY DEF Outlived
    <3>2. IsFiniteSet(Outlived)
      BY <3>1, ServerAssumption, FS_Subset
    <3>3. Cardinality(Outlived) \in Nat
      BY <3>2, FS_CardinalityType
    <3>4. faults' = faults + Cardinality(Outlived)
      BY <1>2 DEF Tick
    <3> QED
      BY <3>3, <3>4
  <2>2. row' \in [Delivery -> RowType]
    BY <1>2, AgedType DEF Tick
  <2>3. worker' \in [Server -> WorkerType]
    BY <1>2, Down1Type DEF Tick, WorkerType
  <2> QED
    BY <1>2, <2>1, <2>2, <2>3 DEF Tick, histVars
<1>3. ASSUME NEW s \in Server, EnqueueSelect(s) PROVE TypeOK'
  BY <1>3 DEF EnqueueSelect, dbVars, histVars
<1>4. ASSUME NEW s \in Server, EnqueueInsert(s) PROVE TypeOK'
  <2>1. row' \in [Delivery -> RowType] /\ todo' \in [Server -> SUBSET Webhook]
    BY <1>4 DEF EnqueueInsert
  <2>2. wake' \in [Server -> BOOLEAN]
    BY <1>4 DEF EnqueueInsert
  <2> QED
    BY <1>4, <2>1, <2>2 DEF EnqueueInsert, histVars
<1>5. ASSUME NEW s \in Server, EnqueueError(s) PROVE TypeOK'
  <2>1. row' \in [Delivery -> RowType] /\ todo' \in [Server -> SUBSET Webhook]
    BY <1>5 DEF EnqueueError
  <2> QED
    BY <1>5, <2>1 DEF EnqueueError, Fault, histVars
<1>6. ASSUME NEW s \in Server, Woken(s) \/ Poll(s) \/ NothingDue(s) \/ Start(s)
      PROVE  TypeOK'
  BY <1>6 DEF Woken, Poll, NothingDue, Start, dbVars, histVars
<1>7. ASSUME NEW s \in Server, Claim(s) PROVE TypeOK'
  BY <1>7, LeasedType DEF Claim, histVars
<1>8. ASSUME NEW s \in Server, ClaimError(s) PROVE TypeOK'
  BY <1>8, LeasedType DEF ClaimError, Fault, histVars
<1>9. ASSUME NEW s \in Server, Post(s) PROVE TypeOK'
  <2>1. worker[s] \in WorkerType /\ worker[s].delivery \in Delivery
    BY <1>9 DEF Post, WorkerShape, Holding
  <2>5. worker' \in [Server -> WorkerType]
    BY <1>9, <2>1, AnsweredType DEF Post
  <2>6. /\ posts' \in [Delivery -> Nat]
        /\ acked' \subseteq Delivery /\ refused' \subseteq Delivery
    BY <1>9, <2>1 DEF Post
  <2> QED
    BY <1>9, <2>5, <2>6 DEF Post, dbVars
<1>10. ASSUME NEW s \in Server, Finalize(s) \/ FinalizeError(s) PROVE TypeOK'
  <2>1. worker[s].delivery \in Delivery /\ worker[s].outcome \in Outcome
    BY <1>10 DEF Finalize, FinalizeError, WorkerShape, Holding, WorkerType
  <2>2. Recorded(row[worker[s].delivery], worker[s]) \in RowType
    BY <2>1, RecordedType
  <2>3. row' \in [Delivery -> RowType] /\ lost' \in [Delivery -> Nat]
    BY <1>10, <2>1, <2>2 DEF Finalize, FinalizeError
  <2> QED
    BY <1>10, <2>3 DEF Finalize, FinalizeError, Fault
<1>11. ASSUME NEW s \in Server, Stop(s) PROVE TypeOK'
  <2>1. lost' \in [Delivery -> Nat]
    BY <1>11 DEF Stop, WorkerShape, Holding
  <2> QED
    BY <1>11, <2>1 DEF Stop, Fault, dbVars
<1>12. CASE UNCHANGED vars
  BY <1>12 DEF vars
<1> QED
  BY <1>1, <1>2, <1>3, <1>4, <1>5, <1>6, <1>7, <1>8, <1>9, <1>10, <1>11, <1>12
  DEF Next, Produce, Deliver

\* A step that leaves the rows alone and frees one loop keeps the invariant.
LEMMA FreeStep ==
  ASSUME IndInv, TypeOK', NEW s \in Server, NEW phase \in {"down", "waiting", "claiming"},
         row' = row, worker' = [worker EXCEPT ![s] = Free(phase)]
  PROVE  IndInv'
<1>1. \A w \in Server : Holding(w)' => w # s /\ Holding(w) /\ worker'[w] = worker[w]
  BY DEF IndInv, TypeOK, Holding, Free
<1>2. WorkerShape'
  <2> SUFFICES ASSUME NEW w \in Server PROVE WorkerShape!(w)'
    BY DEF WorkerShape
  <2>1. CASE w = s
    BY <2>1, NoneAssumption DEF IndInv, TypeOK, Holding, Free, WorkerShape
  <2>2. CASE w # s
    BY <2>2 DEF IndInv, TypeOK, Holding, WorkerShape
  <2> QED
    BY <2>1, <2>2
<1>3. RowShape'
  BY DEF IndInv, RowShape
<1>4. TokensUnique' /\ ClaimFresh'
  BY <1>1 DEF IndInv, TokensUnique, ClaimFresh, Current
<1> QED
  BY <1>2, <1>3, <1>4 DEF IndInv

\* Inserting a row: nobody holds it and it carries no token.
LEMMA InsertStep ==
  ASSUME IndInv, TypeOK', NEW d \in Delivery, NEW h \in Webhook, ~Inserted(d),
         row' = [row EXCEPT ![d] = NewRow(h)], worker' = worker
  PROVE  IndInv'
<1> USE NoneAssumption DEF IndInv, TypeOK
<1>1. row'[d] = NewRow(h) /\ \A e \in Delivery \ {d} : row'[e] = row[e]
  OBVIOUS
<1>2. row[d].token = None /\ row'[d].token = None
  BY <1>1 DEF RowShape, Inserted, NewRow
<1>3. WorkerShape'
  BY DEF WorkerShape, Holding
<1>4. RowShape'
  BY <1>1, AttemptsAssumption DEF RowShape, NewRow, Terminal
<1>5. TokensUnique'
  BY <1>1, <1>2 DEF TokensUnique, Holding, WorkerShape
<1>6. ClaimFresh'
  BY <1>1, <1>2 DEF ClaimFresh, Holding, Current, WorkerShape
<1> QED
  BY <1>3, <1>4, <1>5, <1>6

\* Leasing a row under a fresh token to a loop that holds nothing, or to nobody.
LEMMA LeaseStep ==
  ASSUME IndInv, TypeOK', NEW s \in Server, NEW d \in Delivery, NEW t \in Token,
         ~Holding(s), Claimable(d), Fresh(t),
         row' = [row EXCEPT ![d] = Leased(d, t)],
         \/ worker' = [worker EXCEPT ![s] = Claimed(d, t)]
         \/ worker' = [worker EXCEPT ![s] = Free("waiting")]
  PROVE  IndInv'
<1> USE NoneAssumption DEF IndInv, TypeOK
<1>1. row'[d] = Leased(d, t) /\ \A e \in Delivery \ {d} : row'[e] = row[e]
  OBVIOUS
<1>2. \A w \in Server \ {s} : worker'[w] = worker[w] /\ (Holding(w)' <=> Holding(w))
  BY DEF Holding
<1>3. worker'[s] = Claimed(d, t) \/ worker'[s] = Free("waiting")
  OBVIOUS
<1>4. WorkerShape'
  <2> SUFFICES ASSUME NEW w \in Server PROVE WorkerShape!(w)'
    BY DEF WorkerShape
  <2>1. CASE w = s
    BY <2>1, <1>3 DEF WorkerShape, Holding, Claimed, Free
  <2>2. CASE w # s
    BY <2>2, <1>2 DEF WorkerShape
  <2> QED
    BY <2>1, <2>2
<1>5. RowShape'
  <2> SUFFICES ASSUME NEW e \in Delivery PROVE RowShape!(e)'
    BY DEF RowShape
  <2>1. CASE e = d
    BY <2>1, <1>1 DEF RowShape, Leased, Claimable, Terminal
  <2>2. CASE e # d
    BY <2>2, <1>1 DEF RowShape
  <2> QED
    BY <2>1, <2>2
<1>6. row'[d].token = t /\ (Holding(s)' => worker'[s].token = t /\ worker'[s].delivery = d)
  BY <1>1, <1>3 DEF Leased, Claimed, Free, Holding
<1>7. TokensUnique'
  BY <1>1, <1>2, <1>6 DEF TokensUnique, Fresh
<1>8. ClaimFresh'
  <2> SUFFICES ASSUME NEW w \in Server, Holding(w)', Current(w)'
               PROVE  row'[worker'[w].delivery].attempts = worker'[w].attempts
    BY DEF ClaimFresh
  <2>1. CASE w = s
    BY <2>1, <1>1, <1>3, <1>6 DEF Leased, Claimed, Free, Holding
  <2>2. CASE w # s
    <3>1. worker'[w] = worker[w] /\ Holding(w) /\ worker[w].token # t
      BY <2>2, <1>2 DEF Fresh
    <3>2. worker[w].delivery \in Delivery \ {d}
      BY <3>1, <1>6 DEF WorkerShape, Current
    <3> QED
      BY <3>1, <3>2, <1>1 DEF ClaimFresh, Current
  <2> QED
    BY <2>1, <2>2
<1> QED
  BY <1>4, <1>5, <1>7, <1>8

\* Recording an outcome: only the holder of the current token does, and its
\* attempt number is the one the row still expects.
LEMMA RecordStep ==
  ASSUME IndInv, TypeOK', NEW s \in Server, NEW phase \in {"waiting", "claiming"},
         worker[s].phase = "finalizing", UpdateMatches(s),
         row' = [row EXCEPT ![worker[s].delivery] =
                   Recorded(row[worker[s].delivery], worker[s])],
         worker' = [worker EXCEPT ![s] = Free(phase)]
  PROVE  IndInv'
<1> USE NoneAssumption DEF IndInv, TypeOK
<1> DEFINE d == worker[s].delivery
<1>1. /\ d \in Delivery /\ worker[s].token \in Token /\ Holding(s) /\ Current(s)
      /\ worker[s].outcome \in Outcome /\ worker[s] \in WorkerType /\ row[d] \in RowType
  BY DEF WorkerShape, Holding, Current, UpdateMatches, WorkerType
<1>2. row'[d] = Recorded(row[d], worker[s]) /\ \A e \in Delivery \ {d} : row'[e] = row[e]
  BY <1>1
<1>3. \A w \in Server : Holding(w)' => w # s /\ Holding(w) /\ worker'[w] = worker[w]
  BY DEF Holding, Free
<1>4. row[d].status = "processing" /\ row[d].attempts = worker[s].attempts
  BY <1>1 DEF RowShape, ClaimFresh, Current
<1>5. row'[d].token = None
  BY <1>2 DEF Recorded
<1>6. WorkerShape'
  <2> SUFFICES ASSUME NEW w \in Server PROVE WorkerShape!(w)'
    BY DEF WorkerShape
  <2>1. CASE w = s
    BY <2>1 DEF Holding, Free, WorkerShape
  <2>2. CASE w # s
    BY <2>2 DEF Holding, WorkerShape
  <2> QED
    BY <2>1, <2>2
<1>7. RowShape'
  <2> SUFFICES ASSUME NEW e \in Delivery PROVE RowShape!(e)'
    BY DEF RowShape
  <2>1. CASE e = d
    <3>1. row[d].attempts < MaxAttempts /\ row[d].attempts \in Nat
      BY <1>1, <1>4 DEF RowShape, Terminal, RowType
    <3>2. worker[s].outcome = "retryable" => row[d].attempts + 1 < MaxAttempts
      BY <1>4 DEF WorkerShape
    <3> QED
      BY <2>1, <1>1, <1>2, <3>1, <3>2, AttemptsAssumption
      DEF RowShape, Recorded, Terminal, Outcome
  <2>2. CASE e # d
    BY <2>2, <1>2 DEF RowShape
  <2> QED
    BY <2>1, <2>2
<1>8. TokensUnique'
  BY <1>1, <1>2, <1>3, <1>5 DEF TokensUnique, WorkerShape
<1>9. ClaimFresh'
  BY <1>1, <1>2, <1>3, <1>5 DEF ClaimFresh, Current, WorkerShape
<1> QED
  BY <1>6, <1>7, <1>8, <1>9

\* A minute passing changes nothing the invariant speaks of.
LEMMA TickStep ==
  ASSUME IndInv, TypeOK', Tick
  PROVE  IndInv'
<1> USE DEF IndInv, TypeOK
<1>1. \A d \in Delivery : /\ row'[d].status = row[d].status
                          /\ row'[d].token = row[d].token
                          /\ row'[d].attempts = row[d].attempts
  BY DEF Tick, Aged
<1>2. \A w \in Server : /\ worker'[w].phase = worker[w].phase
                        /\ worker'[w].delivery = worker[w].delivery
                        /\ worker'[w].token = worker[w].token
                        /\ worker'[w].attempts = worker[w].attempts
                        /\ worker'[w].outcome = worker[w].outcome
  BY DEF Tick, WorkerType
<1>3. WorkerShape'
  BY <1>2 DEF WorkerShape, Holding
<1>4. RowShape'
  BY <1>1 DEF RowShape
<1>5. TokensUnique' /\ ClaimFresh'
  <2>1. \A w \in Server : Holding(w)' <=> Holding(w)
    BY <1>2 DEF Holding
  <2>2. TokensUnique'
    BY <1>1, <1>2, <2>1 DEF TokensUnique
  <2>3. ClaimFresh'
    BY <1>1, <1>2, <2>1 DEF ClaimFresh, Current, WorkerShape
  <2> QED
    BY <2>2, <2>3
<1> QED
  BY <1>3, <1>4, <1>5

\* The answer to a POST gives the loop an outcome and touches no row.
LEMMA PostStep ==
  ASSUME IndInv, TypeOK', NEW s \in Server, Post(s)
  PROVE  IndInv'
<1> USE NoneAssumption DEF IndInv, TypeOK
<1>1. row' = row
  BY DEF Post, dbVars
<1>2. PICK o \in Outcome : /\ worker' = [worker EXCEPT ![s] = Answered(s, o)]
                           /\ o = "retryable" => worker[s].attempts + 1 < MaxAttempts
  <2>1. PICK answer \in Answer :
          worker' = [worker EXCEPT ![s] =
                       Answered(s, Classify(answer, worker[s].attempts + 1))]
    BY DEF Post
  <2>2. worker[s] \in WorkerType
    OBVIOUS
  <2>3. LET o == Classify(answer, worker[s].attempts + 1)
        IN  /\ o \in Outcome
            /\ o = "retryable" => worker[s].attempts + 1 < MaxAttempts
    BY <2>2, AnsweredType
  <2> QED
    BY <2>1, <2>3
<1>3. \A w \in Server : /\ Holding(w)' <=> Holding(w)
                        /\ worker'[w].delivery = worker[w].delivery
                        /\ worker'[w].token = worker[w].token
                        /\ worker'[w].attempts = worker[w].attempts
  BY <1>2 DEF Answered, Holding, Post
<1>4. WorkerShape'
  <2> SUFFICES ASSUME NEW w \in Server PROVE WorkerShape!(w)'
    BY DEF WorkerShape
  <2>1. CASE w = s
    BY <2>1, <1>2, <1>3 DEF WorkerShape, Answered, Holding, Post, Outcome
  <2>2. CASE w # s
    BY <2>2, <1>2 DEF WorkerShape, Holding
  <2> QED
    BY <2>1, <2>2
<1>5. RowShape'
  BY <1>1 DEF RowShape
<1>6. TokensUnique' /\ ClaimFresh'
  BY <1>1, <1>3 DEF TokensUnique, ClaimFresh, Current, WorkerShape
<1> QED
  BY <1>4, <1>5, <1>6

\* IndInv is inductive: one case per action.
THEOREM StepIndInv == IndInv /\ [Next]_vars => IndInv'
<1> SUFFICES ASSUME IndInv, [Next]_vars PROVE IndInv'
  OBVIOUS
<1> USE TypeOKStep DEF IndInv
<1>t. TypeOK'
  OBVIOUS
<1>0. ASSUME UNCHANGED <<row, worker>> PROVE IndInv'
  BY <1>t, <1>0 DEF WorkerShape, RowShape, TokensUnique, ClaimFresh, Holding, Current
<1>1. CASE EditWebhooks
  BY <1>0, <1>1 DEF EditWebhooks
<1>2. CASE Tick
  BY <1>t, <1>2, TickStep
<1>3. ASSUME NEW s \in Server, EnqueueSelect(s) PROVE IndInv'
  BY <1>0, <1>3 DEF EnqueueSelect, dbVars
<1>4. ASSUME NEW s \in Server, EnqueueInsert(s) PROVE IndInv'
  <2>1. PICK h \in Webhook, d \in Delivery :
          ~Inserted(d) /\ row' = [row EXCEPT ![d] = NewRow(h)]
    BY <1>4 DEF EnqueueInsert, NextId, TypeOK
  <2>2. worker' = worker
    BY <1>4 DEF EnqueueInsert
  <2> QED
    BY <1>t, <2>1, <2>2, InsertStep
<1>5. ASSUME NEW s \in Server, EnqueueError(s) PROVE IndInv'
  <2>1. worker' = worker
    BY <1>5 DEF EnqueueError
  <2>2. CASE row' = row
    BY <1>0, <2>1, <2>2
  <2>3. CASE row' # row
    <3>1. PICK h \in Webhook, d \in Delivery :
            ~Inserted(d) /\ row' = [row EXCEPT ![d] = NewRow(h)]
      BY <1>5, <2>3 DEF EnqueueError, NextId, TypeOK
    <3> QED
      BY <1>t, <2>1, <3>1, InsertStep
  <2> QED
    BY <2>2, <2>3
<1>6. ASSUME NEW s \in Server, Woken(s) \/ Poll(s) \/ NothingDue(s) \/ Start(s) \/ Stop(s)
      PROVE  IndInv'
  <2>1. row' = row
    BY <1>6 DEF Woken, Poll, NothingDue, Start, Stop, dbVars
  <2>2. \E phase \in {"down", "waiting", "claiming"} :
          worker' = [worker EXCEPT ![s] = Free(phase)]
    BY <1>6 DEF Woken, Poll, NothingDue, Start, Stop
  <2> QED
    BY <1>t, <2>1, <2>2, FreeStep
<1>7. ASSUME NEW s \in Server, Claim(s) PROVE IndInv'
  <2>1. ~Holding(s)
    BY <1>7 DEF Claim, Holding
  <2>2. PICK d \in Delivery, t \in Token :
          /\ Claimable(d) /\ Fresh(t)
          /\ row' = [row EXCEPT ![d] = Leased(d, t)]
          /\ worker' = [worker EXCEPT ![s] = Claimed(d, t)]
    BY <1>7 DEF Claim, Candidate
  <2> QED
    BY <1>t, <2>1, <2>2, LeaseStep
<1>8. ASSUME NEW s \in Server, ClaimError(s) PROVE IndInv'
  <2>1. ~Holding(s) /\ worker' = [worker EXCEPT ![s] = Free("waiting")]
    BY <1>8 DEF ClaimError, Holding
  <2>2. CASE row' = row
    BY <1>t, <2>1, <2>2, FreeStep
  <2>3. CASE row' # row
    <3>1. PICK d \in Delivery, t \in Token :
            Claimable(d) /\ Fresh(t) /\ row' = [row EXCEPT ![d] = Leased(d, t)]
      BY <1>8, <2>3 DEF ClaimError, Candidate
    <3> QED
      BY <1>t, <2>1, <3>1, LeaseStep
  <2> QED
    BY <2>2, <2>3
<1>9. ASSUME NEW s \in Server, Post(s) PROVE IndInv'
  BY <1>t, <1>9, PostStep
<1>10. ASSUME NEW s \in Server, Finalize(s) \/ FinalizeError(s) PROVE IndInv'
  <2>1. worker[s].phase = "finalizing"
    BY <1>10 DEF Finalize, FinalizeError
  <2>2. PICK phase \in {"waiting", "claiming"} :
          worker' = [worker EXCEPT ![s] = Free(phase)]
    BY <1>10 DEF Finalize, FinalizeError
  <2>3. CASE row' = row
    BY <1>t, <2>2, <2>3, FreeStep
  <2>4. CASE row' # row
    <3>1. /\ UpdateMatches(s)
          /\ row' = [row EXCEPT ![worker[s].delivery] =
                       Recorded(row[worker[s].delivery], worker[s])]
      BY <1>10, <2>4 DEF Finalize, FinalizeError
    <3> QED
      BY <1>t, <2>1, <2>2, <3>1, RecordStep
  <2> QED
    BY <2>3, <2>4
<1>11. CASE UNCHANGED vars
  BY <1>0, <1>11 DEF vars
<1> QED
  BY <1>1, <1>2, <1>3, <1>4, <1>5, <1>6, <1>7, <1>8, <1>9, <1>10, <1>11
  DEF Next, Produce, Deliver

\* The inductive invariant holds in every behaviour.
LEMMA Invariance == Spec => []IndInv
  BY InitIndInv, StepIndInv, PTL DEF Spec

\* Every variable keeps its type: statuses, phases, counters and timers.
THEOREM TypeCorrect == Spec => []TypeOK
  BY Invariance, PTL DEF IndInv

\* Of the workers that hold a row only one can record its outcome, and it
\* counts the attempt the row is waiting for.
THEOREM ClaimsAreExclusive == Spec => []ClaimExclusive
<1>1. IndInv => ClaimExclusive
  BY NoneAssumption
  DEF IndInv, TypeOK, WorkerShape, RowShape, TokensUnique, ClaimFresh, ClaimExclusive, Current
<1> QED
  BY <1>1, Invariance, PTL

\* A settled row is never rewritten, whatever late workers do: it carries no
\* token, so no UPDATE of finalize_delivery_attempt matches it.
THEOREM SettledRowsAreFinal == Spec => TerminalStable
<1>1. IndInv /\ [Next]_vars
        => [\A d \in Delivery : row[d].status \in Terminal => row'[d] = row[d]]_vars
  <2> SUFFICES ASSUME IndInv, Next, NEW d \in Delivery, row[d].status \in Terminal
               PROVE  row'[d] = row[d]
    OBVIOUS
  <2> USE DEF IndInv, TypeOK, Terminal
  <2>1. CASE Tick
    BY <2>1 DEF Tick
  <2>2. ASSUME NEW s \in Server, NEW e \in Delivery, NEW t \in Token,
               Candidate(e), row' = [row EXCEPT ![e] = Leased(e, t)]
        PROVE  row'[d] = row[d]
    BY <2>2 DEF Candidate, Claimable
  <2>3. ASSUME NEW h \in Webhook, NEW e \in Delivery,
               NextId(e), row' = [row EXCEPT ![e] = NewRow(h)]
        PROVE  row'[d] = row[d]
    BY <2>3 DEF NextId, Inserted
  <2>4. ASSUME NEW s \in Server, Finalize(s) \/ FinalizeError(s) PROVE row'[d] = row[d]
    <3>1. worker[s].delivery \in Delivery /\ worker[s].token \in Token
      BY <2>4 DEF Finalize, FinalizeError, WorkerShape, Holding
    <3>2. row[d].token = None
      BY DEF RowShape
    <3>3. UpdateMatches(s) => worker[s].delivery # d
      BY <3>1, <3>2, NoneAssumption DEF UpdateMatches
    <3> QED
      BY <2>4, <3>1, <3>3 DEF Finalize, FinalizeError
  <2>5. ASSUME NEW s \in Server, Claim(s) \/ ClaimError(s) PROVE row'[d] = row[d]
    BY <2>2, <2>5 DEF Claim, ClaimError
  <2>6. ASSUME NEW s \in Server, EnqueueInsert(s) \/ EnqueueError(s) PROVE row'[d] = row[d]
    BY <2>3, <2>6 DEF EnqueueInsert, EnqueueError
  <2>7. ASSUME NEW s \in Server,
               \/ EnqueueSelect(s) \/ Woken(s) \/ Poll(s) \/ NothingDue(s)
               \/ Post(s) \/ Stop(s) \/ Start(s)
        PROVE  row' = row
    BY <2>7 DEF EnqueueSelect, Woken, Poll, NothingDue, Post, Stop, Start, dbVars
  <2> QED
    BY <2>1, <2>4, <2>5, <2>6, <2>7 DEF Next, Produce, Deliver, EditWebhooks
<1> QED
  BY <1>1, Invariance, PTL DEF Spec, TerminalStable

-----------------------------------------------------------------------------
(* Outcomes *)

\* The outcome a loop is about to record was earned: the endpoint answered 2xx,
\* or refused for good, or this is the last attempt.
OutcomeEarned ==
    \A w \in Server : worker[w].phase = "finalizing" =>
        /\ worker[w].outcome = "delivered" => worker[w].delivery \in acked
        /\ worker[w].outcome = "failed" =>
             \/ worker[w].delivery \in refused
             \/ worker[w].attempts + 1 >= MaxAttempts

\* A step settles a row only by recording the outcome of a finalizing loop whose
\* claim is current.
LEMMA SettledByRecord ==
  ASSUME IndInv, [Next]_vars, NEW d \in Delivery, row'[d].status \in Terminal
  PROVE  \/ row'[d] = row[d]
         \/ \E s \in Server : /\ worker[s].phase = "finalizing"
                              /\ worker[s].delivery = d
                              /\ UpdateMatches(s)
                              /\ row'[d] = Recorded(row[d], worker[s])
<1> USE DEF IndInv, TypeOK, Terminal
<1>1. CASE Tick
  BY <1>1 DEF Tick, Aged
<1>2. ASSUME NEW e \in Delivery, NEW t \in Token, row' = [row EXCEPT ![e] = Leased(e, t)]
      PROVE  row'[d] = row[d]
  BY <1>2 DEF Leased
<1>3. ASSUME NEW h \in Webhook, NEW e \in Delivery, row' = [row EXCEPT ![e] = NewRow(h)]
      PROVE  row'[d] = row[d]
  BY <1>3 DEF NewRow
<1>4. ASSUME NEW s \in Server, Finalize(s) \/ FinalizeError(s), row'[d] # row[d]
      PROVE  /\ worker[s].phase = "finalizing"
             /\ worker[s].delivery = d
             /\ UpdateMatches(s)
             /\ row'[d] = Recorded(row[d], worker[s])
  <2>1. /\ worker[s].phase = "finalizing" /\ UpdateMatches(s)
        /\ row' = [row EXCEPT ![worker[s].delivery] =
                     Recorded(row[worker[s].delivery], worker[s])]
    BY <1>4 DEF Finalize, FinalizeError
  <2>2. worker[s].delivery \in Delivery
    BY <2>1 DEF WorkerShape, Holding
  <2> QED
    BY <1>4, <2>1, <2>2
<1>5. ASSUME NEW s \in Server, Claim(s) \/ ClaimError(s) PROVE row'[d] = row[d]
  BY <1>2, <1>5 DEF Claim, ClaimError
<1>6. ASSUME NEW s \in Server, EnqueueInsert(s) \/ EnqueueError(s) PROVE row'[d] = row[d]
  BY <1>3, <1>6 DEF EnqueueInsert, EnqueueError
<1>7. ASSUME NEW s \in Server,
             \/ EnqueueSelect(s) \/ Woken(s) \/ Poll(s) \/ NothingDue(s)
             \/ Post(s) \/ Stop(s) \/ Start(s)
      PROVE  row' = row
  BY <1>7 DEF EnqueueSelect, Woken, Poll, NothingDue, Post, Stop, Start, dbVars
<1> QED
  BY <1>1, <1>4, <1>5, <1>6, <1>7 DEF Next, Produce, Deliver, EditWebhooks, vars

\* What an endpoint answered is never forgotten, and a loop reaches finalizing
\* only by the answer to its own POST.
LEMMA FinalizingByPost ==
  ASSUME IndInv, [Next]_vars, NEW w \in Server
  PROVE  /\ acked \subseteq acked' /\ refused \subseteq refused'
         /\ worker'[w].phase = "finalizing" =>
              \/ Post(w)
              \/ /\ worker[w].phase = "finalizing"
                 /\ worker'[w].delivery = worker[w].delivery
                 /\ worker'[w].outcome = worker[w].outcome
                 /\ worker'[w].attempts = worker[w].attempts
<1> USE DEF IndInv, TypeOK
<1>0. worker[w] \in WorkerType
  OBVIOUS
<1>1. CASE EditWebhooks \/ UNCHANGED vars
  BY <1>1 DEF EditWebhooks, histVars, vars
<1>2. CASE Tick
  BY <1>0, <1>2 DEF Tick, histVars, WorkerType
<1>3. ASSUME NEW s \in Server, EnqueueSelect(s) \/ EnqueueInsert(s) \/ EnqueueError(s)
      PROVE  UNCHANGED <<worker, acked, refused>>
  BY <1>3 DEF EnqueueSelect, EnqueueInsert, EnqueueError, histVars
<1>4. ASSUME NEW s \in Server,
             \/ Woken(s) \/ Poll(s) \/ NothingDue(s) \/ Start(s) \/ Stop(s)
             \/ Finalize(s) \/ FinalizeError(s) \/ ClaimError(s)
      PROVE  /\ UNCHANGED <<acked, refused>>
             /\ worker'[w].phase = "finalizing" => worker'[w] = worker[w]
  <2>1. UNCHANGED <<acked, refused>>
    BY <1>4 DEF Woken, Poll, NothingDue, Start, Stop, Finalize, FinalizeError,
                ClaimError, histVars
  <2>2. \E phase \in {"down", "waiting", "claiming"} :
          worker' = [worker EXCEPT ![s] = Free(phase)]
    BY <1>4 DEF Woken, Poll, NothingDue, Start, Stop, Finalize, FinalizeError, ClaimError
  <2> QED
    BY <2>1, <2>2 DEF Free
<1>5. ASSUME NEW s \in Server, Claim(s)
      PROVE  /\ UNCHANGED <<acked, refused>>
             /\ worker'[w].phase = "finalizing" => worker'[w] = worker[w]
  BY <1>5 DEF Claim, Claimed, histVars
<1>6. ASSUME NEW s \in Server, Post(s)
      PROVE  /\ acked \subseteq acked' /\ refused \subseteq refused'
             /\ w # s => worker'[w] = worker[w]
  BY <1>6 DEF Post
<1> QED
  BY <1>1, <1>2, <1>3, <1>4, <1>5, <1>6 DEF Next, Produce, Deliver

\* A POST earns the outcome it is classified as.
LEMMA PostEarns ==
  ASSUME IndInv, NEW w \in Server, Post(w)
  PROVE  /\ worker'[w].outcome = "delivered" => worker'[w].delivery \in acked'
         /\ worker'[w].outcome = "failed" =>
              \/ worker'[w].delivery \in refused'
              \/ worker'[w].attempts + 1 >= MaxAttempts
<1>0. worker \in [Server -> WorkerType] /\ worker[w].attempts \in Nat /\ MaxAttempts \in Nat
  BY AttemptsAssumption DEF IndInv, TypeOK, WorkerType
<1>1. PICK answer \in Answer :
        LET d == worker[w].delivery
            o == Classify(answer, worker[w].attempts + 1)
        IN  /\ worker' = [worker EXCEPT ![w] = Answered(w, o)]
            /\ acked' = IF answer = "success" THEN acked \cup {d} ELSE acked
            /\ refused' = IF answer = "refusal" THEN refused \cup {d} ELSE refused
  BY DEF Post
<1>2. /\ worker'[w].outcome = Classify(answer, worker[w].attempts + 1)
      /\ worker'[w].delivery = worker[w].delivery
      /\ worker'[w].attempts = worker[w].attempts
  BY <1>0, <1>1 DEF Answered
<1>3. CASE answer = "success"
  BY <1>1, <1>2, <1>3 DEF Classify
<1>4. CASE answer = "refusal"
  BY <1>1, <1>2, <1>4 DEF Classify
<1>5. CASE answer = "unavailable"
  BY <1>0, <1>2, <1>5 DEF Classify, HasRetry
<1> QED
  BY <1>3, <1>4, <1>5 DEF Answer

\* Initially no row is settled and no loop has an outcome.
LEMMA InitOutcomes == Init => OutcomeEarned /\ OutcomeJustified
  BY DEF Init, OutcomeEarned, OutcomeJustified, NoRow, Free

\* The outcome that settles a row was earned by the claim that records it.
LEMMA StepOutcomes ==
  ASSUME IndInv, OutcomeEarned, OutcomeJustified, [Next]_vars
  PROVE  OutcomeEarned' /\ OutcomeJustified'
<1>1. ASSUME NEW w \in Server, worker'[w].phase = "finalizing"
      PROVE  /\ worker'[w].outcome = "delivered" => worker'[w].delivery \in acked'
             /\ worker'[w].outcome = "failed" =>
                  \/ worker'[w].delivery \in refused'
                  \/ worker'[w].attempts + 1 >= MaxAttempts
  <2>1. CASE Post(w)
    BY <2>1, PostEarns
  <2>2. CASE ~Post(w)
    BY <1>1, <2>2, FinalizingByPost DEF OutcomeEarned
  <2> QED
    BY <2>1, <2>2
<1>2. ASSUME NEW d \in Delivery
      PROVE  /\ row'[d].status = "delivered" => d \in acked'
             /\ row'[d].status = "failed" => d \in refused' \/ row'[d].attempts = MaxAttempts
  <2>1. SUFFICES ASSUME row'[d].status \in Terminal
                 PROVE  /\ row'[d].status = "delivered" => d \in acked'
                        /\ row'[d].status = "failed" =>
                             d \in refused' \/ row'[d].attempts = MaxAttempts
    BY DEF Terminal
  <2>2. CASE row'[d] = row[d]
    <3>1. (d \in acked => d \in acked') /\ (d \in refused => d \in refused')
      <4>1. CASE Server = {}
        BY <4>1 DEF Next, Tick, EditWebhooks, histVars, vars
      <4>2. CASE Server # {}
        BY <4>2, FinalizingByPost
      <4> QED
        BY <4>1, <4>2
    <3> QED
      BY <2>2, <3>1 DEF OutcomeJustified
  <2>3. ASSUME NEW s \in Server, worker[s].phase = "finalizing", worker[s].delivery = d,
               UpdateMatches(s), row'[d] = Recorded(row[d], worker[s])
        PROVE  /\ row'[d].status = "delivered" => d \in acked'
               /\ row'[d].status = "failed" => d \in refused' \/ row'[d].attempts = MaxAttempts
    <3>1. acked \subseteq acked' /\ refused \subseteq refused'
      BY FinalizingByPost
    <3>2. /\ row[d].attempts = worker[s].attempts /\ row[d].attempts < MaxAttempts
          /\ row[d].attempts \in Nat /\ MaxAttempts \in Nat
      <4>1. Holding(s) /\ Current(s) /\ worker[s].token # None
        BY <2>3, NoneAssumption DEF Holding, Current, UpdateMatches, IndInv, WorkerShape
      <4>2. row[d].status = "processing"
        BY <2>3, <4>1 DEF Current, IndInv, RowShape
      <4> QED
        BY <2>3, <4>1, <4>2, AttemptsAssumption
        DEF IndInv, TypeOK, RowType, RowShape, ClaimFresh, Terminal
    <3>3. /\ row'[d].status \in Terminal => row'[d].status = worker[s].outcome
          /\ row'[d].attempts = row[d].attempts + 1
      BY <2>3 DEF Recorded, Terminal
    <3> QED
      BY <2>1, <2>3, <3>1, <3>2, <3>3 DEF OutcomeEarned
  <2> QED
    BY <2>1, <2>2, <2>3, SettledByRecord
<1> QED
  BY <1>1, <1>2 DEF OutcomeEarned, OutcomeJustified

\* A row is marked delivered only after an endpoint answered 2xx, and failed
\* only after a refusal or with its attempts used up, whatever workers crash,
\* stall or take over in between.
THEOREM OutcomesAreJustified == Spec => []OutcomeJustified
<1>1. Spec => [](OutcomeEarned /\ OutcomeJustified)
  BY InitOutcomes, StepOutcomes, Invariance, PTL DEF Spec
<1> QED
  BY <1>1, PTL

-----------------------------------------------------------------------------
(* Accounting for every POST *)

\* A set of loops is finite, and gains or loses at most the loop that moves.
LEMMA LoopsCount ==
  ASSUME NEW S \in SUBSET Server, NEW T \in SUBSET Server
  PROVE  /\ IsFiniteSet(S) /\ Cardinality(S) \in Nat
         /\ S \subseteq T => Cardinality(S) <= Cardinality(T)
         /\ \A w \in Server \ S : Cardinality(S \cup {w}) = Cardinality(S) + 1
         /\ \A w \in S : Cardinality(S \ {w}) = Cardinality(S) - 1
         /\ Cardinality(S \cup T) <= Cardinality(S) + Cardinality(T)
<1>1. IsFiniteSet(S) /\ IsFiniteSet(T)
  BY ServerAssumption, FS_Subset
<1>2. Cardinality(S) \in Nat /\ Cardinality(T) \in Nat
  BY <1>1, FS_CardinalityType
<1>3. S \subseteq T => Cardinality(S) <= Cardinality(T)
  BY <1>1, FS_Subset
<1>4. \A w \in Server \ S : Cardinality(S \cup {w}) = Cardinality(S) + 1
  BY <1>1, FS_AddElement
<1>5. \A w \in S : Cardinality(S \ {w}) = Cardinality(S) - 1
  BY <1>1, FS_RemoveElement
<1>6. Cardinality(S \cup T) <= Cardinality(S) + Cardinality(T)
  <2>1. /\ IsFiniteSet(S \cap T)
        /\ Cardinality(S \cup T) = Cardinality(S) + Cardinality(T) - Cardinality(S \cap T)
    BY <1>1, FS_Union, FS_Intersection
  <2>2. Cardinality(S \cap T) \in Nat
    BY <2>1, FS_CardinalityType
  <2> QED
    BY <1>2, <2>1, <2>2
<1> QED
  BY <1>1, <1>2, <1>3, <1>4, <1>5, <1>6

\* A loop that leaves finalizing with its outcome recorded or lost takes one
\* POST from those in flight to those accounted for.
LEMMA SettleCounts ==
  ASSUME IndInv, PostsAccounted, NEW s \in Server, worker[s].phase = "finalizing",
         NEW phase \in {"down", "waiting", "claiming"},
         worker' = [worker EXCEPT ![s] = Free(phase)], posts' = posts,
         \/ /\ lost' = [lost EXCEPT ![worker[s].delivery] = @ + 1]
            /\ row' = row
         \/ /\ row' = [row EXCEPT ![worker[s].delivery] =
                          Recorded(row[worker[s].delivery], worker[s])]
            /\ lost' = lost
  PROVE  PostsAccounted'
<1> DEFINE d == worker[s].delivery
<1>0. /\ d \in Delivery /\ worker \in [Server -> WorkerType]
      /\ row \in [Delivery -> RowType] /\ lost \in [Delivery -> Nat]
  BY DEF IndInv, TypeOK, WorkerShape, Holding
<1>1. ASSUME NEW e \in Delivery
      PROVE  Finalizing(e)' = IF e = d THEN Finalizing(e) \ {s} ELSE Finalizing(e)
  BY <1>0 DEF Finalizing, Free
<1>2. s \in Finalizing(d)
  BY DEF Finalizing
<1> SUFFICES ASSUME NEW e \in Delivery
             PROVE  posts'[e] = row'[e].attempts + lost'[e] + Cardinality(Finalizing(e)')
  BY DEF PostsAccounted
<1>3. /\ posts[e] = row[e].attempts + lost[e] + Cardinality(Finalizing(e))
      /\ row[e].attempts \in Nat /\ lost[e] \in Nat
  BY <1>0 DEF PostsAccounted, RowType
<1>4. Cardinality(Finalizing(e)) \in Nat
  BY LoopsCount DEF Finalizing
<1>5. CASE e = d
  <2>1. Cardinality(Finalizing(e)') = Cardinality(Finalizing(e)) - 1
    <3>1. Finalizing(d) \in SUBSET Server
      BY DEF Finalizing
    <3> QED
      BY <1>1, <1>2, <1>5, <3>1, LoopsCount
  <2>2. row'[e].attempts + lost'[e] = row[e].attempts + lost[e] + 1
    <3>1. CASE lost' = [lost EXCEPT ![d] = @ + 1] /\ row' = row
      BY <1>0, <1>3, <1>5, <3>1
    <3>2. CASE row' = [row EXCEPT ![d] = Recorded(row[d], worker[s])] /\ lost' = lost
      BY <1>0, <1>3, <1>5, <3>2 DEF Recorded
    <3> QED
      BY <3>1, <3>2
  <2>3. row'[e].attempts \in Int /\ lost'[e] \in Int
    <3>1. CASE lost' = [lost EXCEPT ![d] = @ + 1] /\ row' = row
      BY <1>0, <1>3, <1>5, <3>1
    <3>2. CASE row' = [row EXCEPT ![d] = Recorded(row[d], worker[s])] /\ lost' = lost
      BY <1>0, <1>3, <1>5, <3>2 DEF Recorded
    <3> QED
      BY <3>1, <3>2
  <2> HIDE DEF d
  <2> QED
    BY <1>3, <1>4, <2>1, <2>2, <2>3
<1>6. CASE e # d
  <2>1. row'[e] = row[e] /\ lost'[e] = lost[e]
    BY <1>0, <1>6
  <2> QED
    BY <1>1, <1>3, <1>6, <2>1
<1> QED
  BY <1>5, <1>6

\* A POST is in flight as soon as it is sent.
LEMMA PostCounts ==
  ASSUME IndInv, PostsAccounted, NEW s \in Server, Post(s)
  PROVE  PostsAccounted'
<1> DEFINE d == worker[s].delivery
<1>0. /\ d \in Delivery /\ worker \in [Server -> WorkerType]
      /\ row \in [Delivery -> RowType] /\ lost \in [Delivery -> Nat]
      /\ posts \in [Delivery -> Nat]
  BY DEF IndInv, TypeOK, WorkerShape, Holding, Post
<1>1. /\ row' = row /\ lost' = lost /\ posts' = [posts EXCEPT ![d] = @ + 1]
      /\ worker[s].phase = "posting"
  BY DEF Post, dbVars
<1>2. ASSUME NEW w \in Server
      PROVE  IF w = s THEN worker'[w].phase = "finalizing" /\ worker'[w].delivery = d
                      ELSE worker'[w] = worker[w]
  BY <1>0 DEF Post, Answered
<1>3. ASSUME NEW e \in Delivery
      PROVE  Finalizing(e)' = IF e = d THEN Finalizing(e) \cup {s} ELSE Finalizing(e)
  BY <1>1, <1>2 DEF Finalizing
<1> SUFFICES ASSUME NEW e \in Delivery
             PROVE  posts'[e] = row[e].attempts + lost[e] + Cardinality(Finalizing(e)')
  BY <1>1 DEF PostsAccounted
<1>4. /\ posts[e] = row[e].attempts + lost[e] + Cardinality(Finalizing(e))
      /\ row[e].attempts \in Nat /\ lost[e] \in Nat
  BY <1>0 DEF PostsAccounted, RowType
<1>5. Finalizing(e) \in SUBSET Server /\ s \notin Finalizing(e)
  BY <1>1 DEF Finalizing
<1>6. Cardinality(Finalizing(e)) \in Nat
  BY <1>5, LoopsCount
<1>7. CASE e = d
  <2>1. Cardinality(Finalizing(e)') = Cardinality(Finalizing(e)) + 1
    BY <1>3, <1>5, <1>7, LoopsCount
  <2>2. posts'[e] = posts[e] + 1
    BY <1>0, <1>1, <1>7
  <2> HIDE DEF d
  <2> QED
    BY <1>4, <1>6, <2>1, <2>2
<1>8. CASE e # d
  BY <1>0, <1>1, <1>3, <1>4, <1>8
<1> QED
  BY <1>7, <1>8

\* No other step sends a POST, counts one or ends one.
LEMMA QuietCounts ==
  ASSUME PostsAccounted, posts' = posts, lost' = lost,
         \A e \in Delivery : row'[e].attempts = row[e].attempts,
         \A w \in Server : /\ worker'[w].phase = "finalizing" <=> worker[w].phase = "finalizing"
                           /\ worker[w].phase = "finalizing" =>
                                worker'[w].delivery = worker[w].delivery
  PROVE  PostsAccounted'
<1>1. \A e \in Delivery : Finalizing(e)' = Finalizing(e)
  BY DEF Finalizing
<1> QED
  BY <1>1 DEF PostsAccounted

\* PostsAccounted is kept by every step, given the shape of rows and loops.
LEMMA StepPostsAccounted ==
  ASSUME IndInv, PostsAccounted, [Next]_vars
  PROVE  PostsAccounted'
<1>0. /\ worker \in [Server -> WorkerType] /\ row \in [Delivery -> RowType]
      /\ todo \in [Server -> SUBSET Webhook]
  BY DEF IndInv, TypeOK
<1>1. CASE EditWebhooks \/ UNCHANGED vars
  BY <1>1, QuietCounts DEF EditWebhooks, histVars, vars
<1>2. CASE Tick
  <2>1. \A e \in Delivery : row'[e].attempts = row[e].attempts
    BY <1>2 DEF Tick, Aged
  <2>2. \A w \in Server : /\ worker'[w].phase = worker[w].phase
                          /\ worker'[w].delivery = worker[w].delivery
    BY <1>0, <1>2 DEF Tick, WorkerType
  <2>3. posts' = posts /\ lost' = lost
    BY <1>2 DEF Tick, histVars
  <2> QED
    BY <2>1, <2>2, <2>3, QuietCounts
<1>3. ASSUME NEW s \in Server, EnqueueSelect(s) PROVE PostsAccounted'
  BY <1>3, QuietCounts DEF EnqueueSelect, dbVars, histVars
<1>4. ASSUME NEW s \in Server, EnqueueInsert(s) \/ EnqueueError(s) PROVE PostsAccounted'
  <2>1. UNCHANGED <<worker, posts, lost>>
    BY <1>4 DEF EnqueueInsert, EnqueueError, histVars
  <2>2. \/ row' = row
        \/ \E h \in Webhook, d \in Delivery :
              ~Inserted(d) /\ row' = [row EXCEPT ![d] = NewRow(h)]
    BY <1>0, <1>4 DEF EnqueueInsert, EnqueueError, NextId
  <2>3. \A e \in Delivery : row'[e].attempts = row[e].attempts
    BY <1>0, <2>2 DEF IndInv, RowShape, Inserted, NewRow
  <2> QED
    BY <2>1, <2>3, QuietCounts
<1>5. ASSUME NEW s \in Server, Woken(s) \/ Poll(s) \/ NothingDue(s) \/ Start(s)
      PROVE  PostsAccounted'
  <2>1. UNCHANGED <<row, posts, lost>> /\ worker[s].phase # "finalizing"
    BY <1>5 DEF Woken, Poll, NothingDue, Start, dbVars, histVars
  <2>2. \E phase \in {"down", "waiting", "claiming"} :
          worker' = [worker EXCEPT ![s] = Free(phase)]
    BY <1>5 DEF Woken, Poll, NothingDue, Start
  <2>3. \A w \in Server : worker'[w] = worker[w] \/ (w = s /\ worker'[w].phase # "finalizing")
    BY <1>0, <2>2 DEF Free
  <2> QED
    BY <2>1, <2>3, QuietCounts
<1>6. ASSUME NEW s \in Server, Claim(s) \/ ClaimError(s) PROVE PostsAccounted'
  <2>1. UNCHANGED <<posts, lost>> /\ worker[s].phase # "finalizing"
    BY <1>6 DEF Claim, ClaimError, histVars
  <2>2. \/ row' = row
        \/ \E d \in Delivery, t \in Token : row' = [row EXCEPT ![d] = Leased(d, t)]
    BY <1>6 DEF Claim, ClaimError
  <2>3. \A e \in Delivery : row'[e].attempts = row[e].attempts
    BY <1>0, <2>2 DEF Leased
  <2>4. \A w \in Server : worker'[w] = worker[w] \/ (w = s /\ worker'[w].phase # "finalizing")
    BY <1>0, <1>6 DEF Claim, ClaimError, Claimed, Free
  <2> QED
    BY <2>1, <2>3, <2>4, QuietCounts
<1>7. ASSUME NEW s \in Server, Post(s) PROVE PostsAccounted'
  BY <1>7, PostCounts
<1>8. ASSUME NEW s \in Server, Finalize(s) \/ FinalizeError(s) PROVE PostsAccounted'
  <2>1. worker[s].phase = "finalizing" /\ posts' = posts
    BY <1>8 DEF Finalize, FinalizeError
  <2>2. \E phase \in {"down", "waiting", "claiming"} :
          worker' = [worker EXCEPT ![s] = Free(phase)]
    BY <1>8 DEF Finalize, FinalizeError
  <2>3. \/ /\ lost' = [lost EXCEPT ![worker[s].delivery] = @ + 1]
           /\ row' = row
        \/ /\ row' = [row EXCEPT ![worker[s].delivery] =
                         Recorded(row[worker[s].delivery], worker[s])]
           /\ lost' = lost
    BY <1>8 DEF Finalize, FinalizeError
  <2> QED
    BY <2>1, <2>2, <2>3, SettleCounts
<1>9. ASSUME NEW s \in Server, Stop(s) PROVE PostsAccounted'
  <2>1. worker' = [worker EXCEPT ![s] = Free("down")] /\ UNCHANGED <<row, posts>>
    BY <1>9 DEF Stop, dbVars
  <2>2. CASE worker[s].phase = "finalizing"
    <3>1. lost' = [lost EXCEPT ![worker[s].delivery] = @ + 1]
      BY <1>9, <2>2 DEF Stop
    <3> QED
      BY <2>1, <2>2, <3>1, SettleCounts
  <2>3. CASE worker[s].phase # "finalizing"
    <3>1. lost' = lost
      BY <1>9, <2>3 DEF Stop
    <3>2. \A w \in Server : worker'[w] = worker[w] \/ (w = s /\ worker'[w].phase # "finalizing")
      BY <1>0, <2>1 DEF Free
    <3> QED
      BY <2>1, <2>3, <3>1, <3>2, QuietCounts
  <2> QED
    BY <2>2, <2>3
<1> QED
  BY <1>1, <1>2, <1>3, <1>4, <1>5, <1>6, <1>7, <1>8, <1>9 DEF Next, Produce, Deliver

\* Every POST is in the row's attempt count, or lost to a fault, or in flight,
\* and in one of them only.
THEOREM PostsAreAccounted == Spec => []PostsAccounted
<1>1. Init => PostsAccounted
  <2> SUFFICES ASSUME Init, NEW d \in Delivery
               PROVE  posts[d] = row[d].attempts + lost[d] + Cardinality(Finalizing(d))
    BY DEF PostsAccounted
  <2>1. Finalizing(d) = {}
    BY DEF Init, Finalizing, Free
  <2>2. Cardinality(Finalizing(d)) = 0
    BY <2>1, FS_EmptySet
  <2> QED
    BY <2>2 DEF Init, NoRow
<1> QED
  BY <1>1, StepPostsAccounted, Invariance, PTL DEF Spec

-----------------------------------------------------------------------------
(* Duplicates *)

\* The part of DuplicatesNeedFaults that counts: every lost outcome, and every
\* worker without a valid lease, is paid for by a fault.
FaultsPay == \A d \in Delivery : lost[d] + Cardinality(Overdue(d)) <= faults

\* A step that makes no worker overdue and pays for what it loses.
LEMMA PaidStep ==
  ASSUME IndInv, IndInv', FaultsPay,
         \A e \in Delivery : /\ Overdue(e)' \subseteq Overdue(e)
                             /\ \/ lost'[e] = lost[e]
                                \/ lost'[e] = lost[e] + 1 /\ faults' = faults + 1
                                \/ /\ lost'[e] = lost[e] + 1
                                   /\ \E s \in Overdue(e) : s \notin Overdue(e)',
         faults' >= faults
  PROVE  FaultsPay'
<1> SUFFICES ASSUME NEW e \in Delivery
             PROVE  lost'[e] + Cardinality(Overdue(e)') <= faults'
  BY DEF FaultsPay
<1>0. /\ lost[e] \in Nat /\ faults \in Nat /\ faults' \in Nat
      /\ lost[e] + Cardinality(Overdue(e)) <= faults
  BY DEF IndInv, TypeOK, FaultsPay
<1>1. Overdue(e) \in SUBSET Server /\ Overdue(e)' \in SUBSET Server
  BY DEF Overdue
<1>2. /\ Cardinality(Overdue(e)) \in Nat /\ Cardinality(Overdue(e)') \in Nat
      /\ Cardinality(Overdue(e)') <= Cardinality(Overdue(e))
  BY <1>1, LoopsCount
<1>3. CASE lost'[e] = lost[e]
  BY <1>0, <1>2, <1>3
<1>4. CASE lost'[e] = lost[e] + 1 /\ faults' = faults + 1
  BY <1>0, <1>2, <1>4
<1>5. ASSUME lost'[e] = lost[e] + 1, NEW s \in Overdue(e), s \notin Overdue(e)'
      PROVE  lost'[e] + Cardinality(Overdue(e)') <= faults'
  <2>1. Overdue(e)' \subseteq Overdue(e) \ {s}
    BY <1>5
  <2>2. /\ Cardinality(Overdue(e) \ {s}) = Cardinality(Overdue(e)) - 1
        /\ Cardinality(Overdue(e)') <= Cardinality(Overdue(e) \ {s})
    <3>1. Overdue(e) \ {s} \in SUBSET Server
      BY <1>1
    <3> QED
      BY <1>1, <1>5, <2>1, <3>1, LoopsCount
  <2> QED
    BY <1>0, <1>2, <1>5, <2>2
<1> QED
  BY <1>3, <1>4, <1>5

\* A loop that lets go of its delivery makes nobody overdue.
LEMMA FreeOverdue ==
  ASSUME IndInv, NEW s \in Server, NEW phase \in {"down", "waiting", "claiming"},
         row' = row, worker' = [worker EXCEPT ![s] = Free(phase)], NEW e \in Delivery
  PROVE  Overdue(e)' \subseteq Overdue(e) \ {s}
<1>1. \A w \in Server : Holding(w)' => w # s /\ Holding(w) /\ worker'[w] = worker[w]
  BY DEF IndInv, TypeOK, Holding, Free
<1> QED
  BY <1>1 DEF Overdue, Current

\* A takeover finds only holders whose lease had ended already, and the lease it
\* starts is valid.
LEMMA LeaseOverdue ==
  ASSUME IndInv, NEW s \in Server, NEW d \in Delivery, NEW t \in Token,
         ~Holding(s), Claimable(d), Fresh(t),
         row' = [row EXCEPT ![d] = Leased(d, t)],
         \/ worker' = [worker EXCEPT ![s] = Claimed(d, t)]
         \/ worker' = [worker EXCEPT ![s] = Free("waiting")],
         NEW e \in Delivery
  PROVE  Overdue(e)' \subseteq Overdue(e)
<1>0. row \in [Delivery -> RowType] /\ worker \in [Server -> WorkerType]
  BY DEF IndInv, TypeOK
<1>1. row'[d] = Leased(d, t) /\ \A f \in Delivery \ {d} : row'[f] = row[f]
  BY <1>0
<1>2. worker'[s] = Claimed(d, t) \/ ~Holding(s)'
  BY <1>0 DEF Holding, Free
<1>3. \A w \in Server \ {s} : worker'[w] = worker[w] /\ (Holding(w)' <=> Holding(w))
  BY <1>0 DEF Holding
<1> SUFFICES ASSUME NEW w \in Overdue(e)' PROVE w \in Overdue(e)
  OBVIOUS
<1>4. w \in Server /\ Holding(w)' /\ worker'[w].delivery = e /\ (~Current(w)' \/ row'[e].expIn <= 0)
  BY DEF Overdue
<1>5. w # s
  <2> SUFFICES ASSUME w = s PROVE FALSE
    OBVIOUS
  <2>1. worker'[s] = Claimed(d, t) /\ e = d
    BY <1>2, <1>4 DEF Claimed
  <2>2. Current(s)' /\ row'[e].expIn = ClaimTTL
    BY <1>1, <2>1 DEF Claimed, Leased, Current
  <2> QED
    BY <1>4, <2>2, TimeAssumption
<1>6. worker'[w] = worker[w] /\ Holding(w)
  BY <1>3, <1>4, <1>5
<1>7. CASE e # d
  BY <1>1, <1>4, <1>6, <1>7 DEF Overdue, Current
<1>8. CASE e = d
  <2>1. Current(w) => row[d].status = "processing"
    BY <1>4, <1>6, <1>8, NoneAssumption DEF Current, IndInv, WorkerShape, RowShape
  <2>2. ~Current(w) \/ row[d].expIn <= 0
    BY <2>1 DEF Claimable
  <2> QED
    BY <1>4, <1>6, <1>8, <2>2 DEF Overdue
<1> QED
  BY <1>7, <1>8

\* Recording an outcome leaves the row without a token, but the only current
\* holder is the one that records.
LEMMA RecordOverdue ==
  ASSUME IndInv, NEW s \in Server, NEW phase \in {"waiting", "claiming"},
         worker[s].phase = "finalizing", UpdateMatches(s),
         row' = [row EXCEPT ![worker[s].delivery] =
                   Recorded(row[worker[s].delivery], worker[s])],
         worker' = [worker EXCEPT ![s] = Free(phase)], NEW e \in Delivery
  PROVE  Overdue(e)' \subseteq Overdue(e)
<1>0. /\ row \in [Delivery -> RowType] /\ Holding(s) /\ worker[s].delivery \in Delivery
  BY DEF IndInv, TypeOK, WorkerShape, Holding
<1>1. \A w \in Server : Holding(w)' => w # s /\ Holding(w) /\ worker'[w] = worker[w]
  BY DEF IndInv, TypeOK, Holding, Free
<1>2. \A f \in Delivery \ {worker[s].delivery} : row'[f] = row[f]
  BY <1>0
<1>3. CASE e = worker[s].delivery
  <2>1. row[e].token = worker[s].token
    BY <1>3 DEF UpdateMatches
  <2>2. \A w \in Server : Holding(w) /\ w # s => worker[w].token # worker[s].token
    BY <1>0 DEF IndInv, TokensUnique
  <2> QED
    BY <1>1, <1>3, <2>1, <2>2 DEF Overdue, Current
<1>4. CASE e # worker[s].delivery
  BY <1>1, <1>2, <1>4 DEF Overdue, Current
<1> QED
  BY <1>3, <1>4

\* A minute makes overdue exactly the workers whose lease it ends, and each of
\* them is a fault.
LEMMA TickPays ==
  ASSUME IndInv, FaultsPay, Tick
  PROVE  FaultsPay'
<1>0. /\ row \in [Delivery -> RowType] /\ worker \in [Server -> WorkerType]
      /\ lost \in [Delivery -> Nat] /\ faults \in Nat
  BY DEF IndInv, TypeOK
<1> SUFFICES ASSUME NEW e \in Delivery
             PROVE  lost'[e] + Cardinality(Overdue(e)') <= faults'
  BY DEF FaultsPay
<1>1. Overdue(e)' \subseteq Overdue(e) \cup Outlived
  <2> SUFFICES ASSUME NEW w \in Overdue(e)', w \notin Overdue(e) PROVE w \in Outlived
    OBVIOUS
  <2>1. /\ worker'[w].phase = worker[w].phase
        /\ worker'[w].delivery = worker[w].delivery
        /\ worker'[w].token = worker[w].token
    BY <1>0 DEF Tick, WorkerType, Overdue
  <2>2. /\ row'[e].token = row[e].token /\ row[e].expIn \in Int
        /\ row'[e].expIn = row[e].expIn
             \/ (row[e].expIn > 0 /\ row'[e].expIn = row[e].expIn - 1)
    BY <1>0 DEF Tick, Aged, RowType
  <2>3. /\ w \in Server /\ Holding(w) /\ worker[w].delivery = e
        /\ ~Current(w)' \/ row'[e].expIn <= 0
    BY <2>1 DEF Overdue, Holding
  <2>4. Current(w) /\ ~(row[e].expIn <= 0)
    BY <2>3 DEF Overdue
  <2>5. row'[e].expIn <= 0
    BY <2>1, <2>2, <2>3, <2>4 DEF Current
  <2> QED
    BY <2>2, <2>3, <2>4, <2>5 DEF Outlived
<1>2. /\ Overdue(e) \in SUBSET Server /\ Overdue(e)' \in SUBSET Server
      /\ Outlived \in SUBSET Server
  BY DEF Overdue, Outlived
<1>3. /\ Cardinality(Overdue(e)) \in Nat /\ Cardinality(Overdue(e)') \in Nat
      /\ Cardinality(Outlived) \in Nat
      /\ Cardinality(Overdue(e) \cup Outlived) <= Cardinality(Overdue(e)) + Cardinality(Outlived)
  BY <1>2, LoopsCount
<1>4. /\ Cardinality(Overdue(e) \cup Outlived) \in Nat
      /\ Cardinality(Overdue(e)') <= Cardinality(Overdue(e) \cup Outlived)
  <2>1. Overdue(e) \cup Outlived \in SUBSET Server
    BY <1>2
  <2> QED
    BY <1>1, <1>2, <2>1, LoopsCount
<1>5. lost' = lost /\ faults' = faults + Cardinality(Outlived)
  BY DEF Tick, histVars
<1>6. lost[e] \in Nat /\ lost[e] + Cardinality(Overdue(e)) <= faults
  BY <1>0 DEF FaultsPay
<1> QED
  BY <1>0, <1>3, <1>4, <1>5, <1>6

\* FaultsPay is kept by every step.
LEMMA StepFaultsPay ==
  ASSUME IndInv, IndInv', FaultsPay, [Next]_vars
  PROVE  FaultsPay'
<1>0. /\ worker \in [Server -> WorkerType] /\ row \in [Delivery -> RowType]
      /\ todo \in [Server -> SUBSET Webhook] /\ lost \in [Delivery -> Nat]
      /\ faults \in Nat
  BY DEF IndInv, TypeOK
<1>1. CASE UNCHANGED <<row, worker, lost, faults>>
  BY <1>1 DEF FaultsPay, Overdue, Holding, Current
<1>2. CASE Tick
  BY <1>2, TickPays
<1>3. ASSUME NEW s \in Server, EnqueueInsert(s) \/ EnqueueError(s) PROVE FaultsPay'
  <2>1. worker' = worker /\ lost' = lost /\ faults' >= faults
    BY <1>0, <1>3 DEF EnqueueInsert, EnqueueError, Fault, histVars
  <2>2. \/ row' = row
        \/ \E h \in Webhook, d \in Delivery :
              ~Inserted(d) /\ row' = [row EXCEPT ![d] = NewRow(h)]
    BY <1>0, <1>3 DEF EnqueueInsert, EnqueueError, NextId
  <2>3. ASSUME NEW e \in Delivery PROVE Overdue(e)' \subseteq Overdue(e)
    <3>1. CASE row' = row
      BY <2>1, <3>1 DEF Overdue, Holding, Current
    <3>2. ASSUME NEW h \in Webhook, NEW d \in Delivery, ~Inserted(d),
                 row' = [row EXCEPT ![d] = NewRow(h)]
          PROVE  Overdue(e)' \subseteq Overdue(e)
      <4>1. row[d].token = None
        BY <3>2 DEF Inserted, IndInv, RowShape
      <4>2. \A w \in Server : Holding(w) => worker[w].token # None
        BY NoneAssumption DEF IndInv, WorkerShape
      <4>3. e # d => row'[e] = row[e]
        BY <1>0, <3>2
      <4> QED
        BY <2>1, <4>1, <4>2, <4>3 DEF Overdue, Holding, Current
    <3> QED
      BY <2>2, <3>1, <3>2
  <2> QED
    BY <2>1, <2>3, PaidStep
<1>4. ASSUME NEW s \in Server, Woken(s) \/ Poll(s) \/ NothingDue(s) \/ Start(s)
      PROVE  FaultsPay'
  <2>1. UNCHANGED <<row, lost, faults>>
    BY <1>4 DEF Woken, Poll, NothingDue, Start, dbVars, histVars
  <2>2. \E phase \in {"down", "waiting", "claiming"} :
          worker' = [worker EXCEPT ![s] = Free(phase)]
    BY <1>4 DEF Woken, Poll, NothingDue, Start
  <2>3. \A e \in Delivery : Overdue(e)' \subseteq Overdue(e)
    BY <2>1, <2>2, FreeOverdue
  <2> QED
    BY <1>0, <2>1, <2>3, PaidStep
<1>5. ASSUME NEW s \in Server, Claim(s) \/ ClaimError(s) PROVE FaultsPay'
  <2>1. lost' = lost /\ faults' >= faults /\ ~Holding(s)
    BY <1>0, <1>5 DEF Claim, ClaimError, Fault, histVars, Holding
  <2>2. \A e \in Delivery : Overdue(e)' \subseteq Overdue(e)
    <3>1. CASE row' = row /\ worker' = [worker EXCEPT ![s] = Free("waiting")]
      BY <3>1, FreeOverdue
    <3>2. ASSUME NEW d \in Delivery, NEW t \in Token, Claimable(d), Fresh(t),
                 row' = [row EXCEPT ![d] = Leased(d, t)],
                 \/ worker' = [worker EXCEPT ![s] = Claimed(d, t)]
                 \/ worker' = [worker EXCEPT ![s] = Free("waiting")]
          PROVE  \A e \in Delivery : Overdue(e)' \subseteq Overdue(e)
      BY <2>1, <3>2, LeaseOverdue
    <3> QED
      BY <1>5, <3>1, <3>2 DEF Claim, ClaimError, Candidate
  <2> QED
    BY <2>1, <2>2, PaidStep
<1>6. ASSUME NEW s \in Server, Post(s) PROVE FaultsPay'
  <2>1. UNCHANGED <<row, lost, faults>>
    BY <1>6 DEF Post, dbVars
  <2>2. \A w \in Server : /\ Holding(w)' <=> Holding(w)
                          /\ worker'[w].delivery = worker[w].delivery
                          /\ worker'[w].token = worker[w].token
    BY <1>0, <1>6 DEF Post, Answered, Holding
  <2>3. \A e \in Delivery : Overdue(e)' \subseteq Overdue(e)
    BY <2>1, <2>2 DEF Overdue, Current
  <2> QED
    BY <1>0, <2>1, <2>3, PaidStep
<1>7. ASSUME NEW s \in Server, Finalize(s) PROVE FaultsPay'
  <2>1. /\ worker[s].phase = "finalizing" /\ faults' = faults
        /\ worker' = [worker EXCEPT ![s] = Free("claiming")]
    BY <1>7 DEF Finalize
  <2>2. CASE UpdateMatches(s)
    <3>1. /\ row' = [row EXCEPT ![worker[s].delivery] =
                       Recorded(row[worker[s].delivery], worker[s])]
          /\ lost' = lost
      BY <1>7, <2>2 DEF Finalize
    <3>2. \A e \in Delivery : Overdue(e)' \subseteq Overdue(e)
      BY <2>1, <2>2, <3>1, RecordOverdue
    <3> QED
      BY <1>0, <2>1, <3>1, <3>2, PaidStep
  <2>3. CASE ~UpdateMatches(s)
    <3>1. row' = row /\ lost' = [lost EXCEPT ![worker[s].delivery] = @ + 1]
      BY <1>7, <2>3 DEF Finalize
    <3>2. \A e \in Delivery : Overdue(e)' \subseteq Overdue(e) \ {s}
      BY <2>1, <3>1, FreeOverdue
    <3>3. worker[s].delivery \in Delivery /\ s \in Overdue(worker[s].delivery)
      BY <2>1, <2>3 DEF IndInv, WorkerShape, Holding, Overdue, Current, UpdateMatches
    <3>4. \A e \in Delivery : \/ lost'[e] = lost[e]
                              \/ /\ lost'[e] = lost[e] + 1
                                 /\ \E v \in Overdue(e) : v \notin Overdue(e)'
      BY <1>0, <3>1, <3>2, <3>3
    <3> QED
      BY <1>0, <2>1, <3>2, <3>4, PaidStep
  <2> QED
    BY <2>2, <2>3
<1>8. ASSUME NEW s \in Server, FinalizeError(s) PROVE FaultsPay'
  <2>1. /\ worker[s].phase = "finalizing" /\ faults' = faults + 1
        /\ worker' = [worker EXCEPT ![s] = Free("waiting")]
    BY <1>8 DEF FinalizeError, Fault
  <2>2. CASE row' = row
    <3>1. \A e \in Delivery : Overdue(e)' \subseteq Overdue(e)
      BY <2>1, <2>2, FreeOverdue
    <3>2. \A e \in Delivery : lost'[e] = lost[e] \/ lost'[e] = lost[e] + 1
      BY <1>0, <1>8 DEF FinalizeError
    <3> QED
      BY <1>0, <2>1, <3>1, <3>2, PaidStep
  <2>3. CASE row' # row
    <3>1. /\ UpdateMatches(s) /\ lost' = lost
          /\ row' = [row EXCEPT ![worker[s].delivery] =
                       Recorded(row[worker[s].delivery], worker[s])]
      BY <1>8, <2>3 DEF FinalizeError
    <3>2. \A e \in Delivery : Overdue(e)' \subseteq Overdue(e)
      BY <2>1, <3>1, RecordOverdue
    <3> QED
      BY <1>0, <2>1, <3>1, <3>2, PaidStep
  <2> QED
    BY <2>2, <2>3
<1>9. ASSUME NEW s \in Server, Stop(s) PROVE FaultsPay'
  <2>1. /\ worker' = [worker EXCEPT ![s] = Free("down")]
        /\ row' = row /\ faults' = faults + 1
    BY <1>9 DEF Stop, dbVars, Fault
  <2>2. \A e \in Delivery : Overdue(e)' \subseteq Overdue(e)
    BY <2>1, FreeOverdue
  <2>3. \A e \in Delivery : lost'[e] = lost[e] \/ lost'[e] = lost[e] + 1
    BY <1>0, <1>9 DEF Stop
  <2> QED
    BY <1>0, <2>1, <2>2, <2>3, PaidStep
<1>10. ASSUME NEW s \in Server, EnqueueSelect(s) PROVE FaultsPay'
  BY <1>1, <1>10 DEF EnqueueSelect, dbVars, histVars
<1>11. CASE EditWebhooks \/ UNCHANGED vars
  BY <1>1, <1>11 DEF EditWebhooks, histVars, vars
<1> QED
  BY <1>2, <1>3, <1>4, <1>5, <1>6, <1>7, <1>8, <1>9, <1>10, <1>11
  DEF Next, Produce, Deliver

\* A row is attempted at most MAX_DELIVERY_ATTEMPTS times as counted, and the
\* POSTs beyond that are bounded by the faults: without a crash, a failed
\* database call or a worker stalled past its lease there is no duplicate.
THEOREM DuplicatesArePaidFor == Spec => []DuplicatesNeedFaults
<1>1. Init => FaultsPay
  <2> SUFFICES ASSUME Init, NEW d \in Delivery
               PROVE  lost[d] + Cardinality(Overdue(d)) <= faults
    BY DEF FaultsPay
  <2>1. Overdue(d) = {}
    BY DEF Init, Overdue, Holding, Free
  <2>2. Cardinality(Overdue(d)) = 0
    BY <2>1, FS_EmptySet
  <2> QED
    BY <2>2 DEF Init
<1>2. IndInv /\ FaultsPay => DuplicatesNeedFaults
  BY DEF IndInv, RowShape, FaultsPay, DuplicatesNeedFaults
<1> QED
  BY <1>1, <1>2, StepFaultsPay, Invariance, PTL DEF Spec

-----------------------------------------------------------------------------
(* Refinement *)

absState == [d \in Delivery |-> QueueState(row[d])]
absTries == [d \in Delivery |-> row[d].attempts]

\* A step in which no row changes status or count stutters in the queue.
LEMMA QueueStutter ==
  ASSUME TypeOK, TypeOK',
         \A d \in Delivery : /\ QueueState(row'[d]) = QueueState(row[d])
                             /\ row'[d].attempts = row[d].attempts
  PROVE  UNCHANGED <<absState, absTries>>
  BY DEF absState, absTries

\* Functions on S that agree except at d differ by one EXCEPT.
LEMMA ExceptPointwise ==
  ASSUME NEW S, NEW f, NEW g, NEW d \in S, NEW v,
         f = [e \in S |-> f[e]], g = [e \in S |-> g[e]],
         g[d] = v, \A e \in S \ {d} : g[e] = f[e]
  PROVE  g = [f EXCEPT ![d] = v]
  OBVIOUS

\* Inserting a row enqueues a delivery of the queue.
LEMMA QueueInsert ==
  ASSUME IndInv, NEW d \in Delivery, NEW h \in Webhook, ~Inserted(d),
         row' = [row EXCEPT ![d] = NewRow(h)]
  PROVE  Queue!Enqueue(d)
<1>1. row'[d] = NewRow(h) /\ \A e \in Delivery \ {d} : row'[e] = row[e]
  BY DEF IndInv, TypeOK
<1>2. row[d].status = "absent" /\ row[d].attempts = 0
  BY DEF IndInv, RowShape, Inserted
<1>3. absState[d] = "absent"
  BY <1>2 DEF absState, QueueState
<1>4. absState' = [absState EXCEPT ![d] = "queued"]
  <2>1. QueueState(row'[d]) = "queued"
    BY <1>1 DEF QueueState, NewRow
  <2>2. \A e \in Delivery \ {d} : QueueState(row'[e]) = QueueState(row[e])
    BY <1>1
  <2>3. absState' = [e \in Delivery |-> QueueState(row'[e])]
    BY DEF absState
  <2> QED
    BY <2>1, <2>2, <2>3 DEF absState
<1>5. absTries' = absTries
  BY <1>1, <1>2 DEF absTries, NewRow
<1> QED
  BY <1>3, <1>4, <1>5 DEF Queue!Enqueue, absState, absTries

\* Recording an outcome is one attempt of the queue.
LEMMA QueueAttempt ==
  ASSUME IndInv, NEW s \in Server, NEW d \in Delivery, d = worker[s].delivery,
         worker[s].phase = "finalizing", UpdateMatches(s),
         row' = [row EXCEPT ![d] = Recorded(row[d], worker[s])]
  PROVE  Queue!Attempt(d)
<1> DEFINE new == QueueState(row'[d])
<1>1. /\ worker[s].token \in Token /\ Holding(s) /\ Current(s)
      /\ worker[s].outcome \in Outcome /\ row[d] \in RowType
  BY NoneAssumption
  DEF IndInv, TypeOK, WorkerShape, Holding, Current, UpdateMatches, WorkerType
<1>2. row'[d] = Recorded(row[d], worker[s]) /\ \A e \in Delivery \ {d} : row'[e] = row[e]
  BY <1>1 DEF IndInv, TypeOK
<1>3. row[d].status = "processing" /\ row[d].attempts = worker[s].attempts
  BY <1>1, NoneAssumption DEF IndInv, RowShape, ClaimFresh, Current
<1>4. row[d].attempts < MaxAttempts /\ row[d].attempts \in Nat
  BY <1>1, <1>3 DEF IndInv, RowShape, Terminal, RowType
<1>5. /\ new \in {"queued", "delivered", "failed"}
      /\ new = "queued" => row[d].attempts + 1 < MaxAttempts
      /\ row'[d].attempts = row[d].attempts + 1
  BY <1>1, <1>2, <1>3 DEF Recorded, QueueState, Outcome, IndInv, WorkerShape
<1>6. absState[d] = "queued" /\ absTries[d] = row[d].attempts
  BY <1>1, <1>3 DEF absState, absTries, QueueState
<1>7. absState' = [absState EXCEPT ![d] = new]
  <2>1. \A e \in Delivery \ {d} : QueueState(row'[e]) = QueueState(row[e])
    BY <1>2
  <2>2. absState' = [e \in Delivery |-> QueueState(row'[e])]
    BY DEF absState
  <2>3. absState'[d] = new /\ \A e \in Delivery \ {d} : absState'[e] = absState[e]
    BY <2>1, <2>2 DEF absState
  <2>4. absState = [e \in Delivery |-> absState[e]] /\ absState' = [e \in Delivery |-> absState'[e]]
    BY <2>2 DEF absState
  <2> HIDE DEF new
  <2> QED
    BY <2>3, <2>4, ExceptPointwise
<1>8. absTries' = [absTries EXCEPT ![d] = @ + 1]
  BY <1>1, <1>2, <1>5 DEF absTries
<1> HIDE DEF new
<1> QED
  BY <1>4, <1>5, <1>6, <1>7, <1>8 DEF Queue!Attempt, absState, absTries

\* The table, its leases and its workers implement the queue that enqueuers
\* were promised: at most MaxAttempts attempts, each recorded once, and a
\* settled delivery stays settled.
THEOREM RefinesQueue == Spec => ImplementsQueue
<1>1. Init => Queue!QInit
  BY DEF Init, Queue!QInit, NoRow, QueueState
<1>2. IndInv /\ IndInv' /\ [Next]_vars => [Queue!QNext]_(Queue!qvars)
  <2> SUFFICES ASSUME IndInv, IndInv', [Next]_vars
               PROVE  Queue!QNext \/ UNCHANGED <<absState, absTries>>
    BY DEF Queue!qvars, absState, absTries
  <2> USE DEF IndInv
  <2>1. ASSUME row' = row PROVE UNCHANGED <<absState, absTries>>
    BY <2>1 DEF absState, absTries
  <2>2. CASE Tick
    <3>1. \A d \in Delivery : /\ row'[d].status = row[d].status
                              /\ row'[d].attempts = row[d].attempts
      BY <2>2 DEF Tick, Aged, TypeOK
    <3> QED
      BY <3>1, QueueStutter DEF QueueState
  <2>3. ASSUME NEW s \in Server, EnqueueInsert(s) \/ EnqueueError(s), row' # row
        PROVE  Queue!QNext
    <3>1. PICK h \in Webhook, d \in Delivery :
            ~Inserted(d) /\ row' = [row EXCEPT ![d] = NewRow(h)]
      BY <2>3 DEF EnqueueInsert, EnqueueError, NextId, TypeOK
    <3> QED
      BY <3>1, QueueInsert DEF Queue!QNext
  <2>4. ASSUME NEW s \in Server, Claim(s) \/ ClaimError(s), row' # row
        PROVE  UNCHANGED <<absState, absTries>>
    <3>1. PICK d \in Delivery, t \in Token :
            Claimable(d) /\ row' = [row EXCEPT ![d] = Leased(d, t)]
      BY <2>4 DEF Claim, ClaimError, Candidate
    <3>2. /\ QueueState(row'[d]) = QueueState(row[d])
          /\ row'[d].attempts = row[d].attempts
      BY <3>1 DEF TypeOK, Claimable, Leased, QueueState
    <3>3. \A e \in Delivery \ {d} : row'[e] = row[e]
      BY <3>1 DEF TypeOK
    <3> QED
      BY <3>2, <3>3, QueueStutter
  <2>5. ASSUME NEW s \in Server, Finalize(s) \/ FinalizeError(s), row' # row
        PROVE  Queue!QNext
    <3>1. worker[s].phase = "finalizing" /\ UpdateMatches(s)
      BY <2>5 DEF Finalize, FinalizeError
    <3>2. PICK d \in Delivery : d = worker[s].delivery
      BY <3>1 DEF WorkerShape, Holding
    <3>3. row' = [row EXCEPT ![d] = Recorded(row[d], worker[s])]
      BY <2>5, <3>2 DEF Finalize, FinalizeError
    <3> QED
      BY <3>1, <3>2, <3>3, QueueAttempt DEF Queue!QNext
  <2>6. ASSUME NEW s \in Server,
               \/ EnqueueSelect(s) \/ Woken(s) \/ Poll(s) \/ NothingDue(s)
               \/ Post(s) \/ Stop(s) \/ Start(s)
        PROVE  row' = row
    BY <2>6 DEF EnqueueSelect, Woken, Poll, NothingDue, Post, Stop, Start, dbVars
  <2> QED
    BY <2>1, <2>2, <2>3, <2>4, <2>5, <2>6 DEF Next, Produce, Deliver, EditWebhooks, vars
<1> QED
  BY <1>1, <1>2, Invariance, PTL DEF Spec, ImplementsQueue, Queue!QSpec

=============================================================================
