----------------------- MODULE PersistedBudgetProofs ------------------------
(***************************************************************************)
(* Proofs about PersistedBudget for every limit, reserve and set of row    *)
(* sizes such that the reserve covers what the end of a job writes.        *)
(***************************************************************************)
EXTENDS PersistedBudget, TLAPS

\* What the end of a job adds, including the calls it leaves open, is within the reserve.
LEMMA EndFits ==
  ASSUME NEW m \in Moves, NEW e \in ErrorSizes \union {OwnError}, NEW n \in 0..MaxOpen
  PROVE  /\ m \in Nat /\ e \in Nat /\ n * CallEnd \in Nat
         /\ m + e + Closing + n * CallEnd <= Reserve
<1>1. m \in Nat /\ e \in Nat /\ Closing \in Nat /\ CallEnd \in Nat /\ MaxOpen \in Nat
      /\ Reserve \in Nat
  BY BudgetAssumption
<1>2. m + e + Closing + MaxOpen * CallEnd <= Reserve
  BY ReserveAssumption
<1>3. n \in Nat /\ n <= MaxOpen
  BY <1>1
<1>4. n * CallEnd \in Nat /\ MaxOpen * CallEnd \in Nat
  BY <1>1, <1>3
<1>5. n * CallEnd <= MaxOpen * CallEnd
  BY <1>1, <1>3
<1> QED
  BY <1>1, <1>2, <1>4, <1>5

\* Init establishes the inductive invariant.
LEMMA InitBudget == Init => BudgetInv
<1> SUFFICES ASSUME Init PROVE BudgetInv
  OBVIOUS
<1>1. TypeOK
  <2>1. open \in 0..MaxOpen /\ used \in Nat /\ error \in Nat
    BY BudgetAssumption DEF Init
  <2>2. asked \in BOOLEAN
    BY Zenon DEF Init
  <2> QED
    BY <2>1, <2>2 DEF Init, TypeOK
<1>2. ReserveKept
  BY DEF Init, ReserveKept
<1>3. /\ stage = "absent" => used = 0 /\ error = 0
      /\ stage = "done" => used + error + open * CallEnd <= Limit
  BY DEF Init
<1> QED
  BY <1>1, <1>2, <1>3 DEF BudgetInv

\* A transaction that is refused changes nothing the invariant speaks of.
LEMMA RefusalKeeps ==
  ASSUME BudgetInv,
         refused' \in {"none", "write", "claim", "fail", "cancel", "settle", "recover", "requeue"},
         UNCHANGED <<stage, used, error, open>>, asked' \in BOOLEAN
  PROVE  BudgetInv'
  BY DEF BudgetInv, TypeOK, ReserveKept

\* A transaction of a job that runs on keeps the reserve, or it is refused.
LEMMA RunsOn ==
  ASSUME BudgetInv, NEW kind \in {"write", "claim", "requeue"}, NEW n \in Nat,
         stage \in {"queued", "active"},
         Transaction(kind, FitsWithReserve(n), n,
                     /\ stage' \in {"queued", "active"} /\ open' \in 0..MaxOpen
                     /\ UNCHANGED <<error, asked>>)
  PROVE  BudgetInv'
<1>1. CASE FitsWithReserve(n)
  <2>1. /\ used' = used + n /\ refused' = "none"
        /\ stage' \in {"queued", "active"} /\ open' \in 0..MaxOpen
        /\ error' = error /\ asked' = asked
    BY <1>1 DEF Transaction
  <2>2. error = 0 /\ used \in Nat /\ asked \in BOOLEAN
    BY DEF BudgetInv, TypeOK, ReserveKept
  <2>3. used' \in Nat /\ used' + Reserve <= Limit
    BY <1>1, <2>1, <2>2, BudgetAssumption DEF FitsWithReserve
  <2> QED
    BY <2>1, <2>2, <2>3 DEF BudgetInv, TypeOK, ReserveKept
<1>2. CASE ~FitsWithReserve(n)
  <2>1. refused' = kind /\ UNCHANGED <<stage, used, error, open, asked>>
    BY <1>2 DEF Transaction
  <2> QED
    BY <2>1, RefusalKeeps DEF BudgetInv, TypeOK
<1> QED
  BY <1>1, <1>2

\* A transaction that ends a job is never refused, and accounts for the calls left open.
LEMMA EndsWithinReserve ==
  ASSUME BudgetInv, NEW kind \in {"fail", "cancel", "settle", "recover"},
         NEW m \in Moves, NEW e \in ErrorSizes \union {OwnError},
         NEW n \in Nat, NEW checked \in Nat, NEW closed \in 0..MaxOpen,
         stage \in {"queued", "active"},
         closed = 0 \/ closed = open,
         n <= m + Closing + closed * CallEnd,
         checked <= m + e + Closing + closed * CallEnd,
         Transaction(kind, FitsWithoutReserve(checked), n,
                     stage' = "done" /\ error' = e /\ open' = open - closed /\ UNCHANGED asked)
  PROVE  BudgetInv' /\ refused' = "none"
<1>1. /\ error = 0 /\ used \in Nat /\ used + Reserve <= Limit /\ open \in 0..MaxOpen
      /\ asked \in BOOLEAN
  BY DEF BudgetInv, TypeOK, ReserveKept
<1>2. /\ m \in Nat /\ e \in Nat /\ closed * CallEnd \in Nat
      /\ m + e + Closing + closed * CallEnd <= Reserve
  BY EndFits
<1>3. open * CallEnd \in Nat /\ m + e + Closing + open * CallEnd <= Reserve
  BY <1>1, EndFits
<1>4. FitsWithoutReserve(checked)
  BY <1>1, <1>2, BudgetAssumption DEF FitsWithoutReserve
<1>5. /\ used' = used + n /\ refused' = "none"
      /\ stage' = "done" /\ error' = e /\ open' = open - closed /\ asked' = asked
  BY <1>4 DEF Transaction
<1>6. open' \in 0..MaxOpen
  BY <1>1, <1>5, BudgetAssumption
<1>7. n + open' * CallEnd <= m + Closing + open * CallEnd
  <2>1. CASE closed = 0
    <3>1. open' = open /\ closed * CallEnd = 0
      BY <2>1, <1>1, <1>5, BudgetAssumption
    <3> QED
      BY <3>1, <1>2, <1>3, BudgetAssumption
  <2>2. CASE closed = open
    <3>1. open' = 0 /\ open' * CallEnd = 0
      BY <2>2, <1>1, <1>5, BudgetAssumption
    <3> QED
      BY <3>1, <2>2, <1>2, <1>3, BudgetAssumption
  <2> QED
    BY <2>1, <2>2
<1>8. open' * CallEnd \in Nat
  BY <1>6, EndFits
<1>9. used' + error' + open' * CallEnd <= Limit
  BY <1>1, <1>2, <1>3, <1>5, <1>7, <1>8, BudgetAssumption
<1> QED
  BY <1>1, <1>2, <1>5, <1>6, <1>9 DEF BudgetInv, TypeOK, ReserveKept

\* The error that settle_terminal writes is one that the reserve covers.
LEMMA ErrorCovered ==
  ASSUME NEW e \in ErrorSizes
  PROVE  WrittenError(e) \in ErrorSizes \union {OwnError}
  BY DEF WrittenError

\* No transaction of the ledger breaks the invariant, and none that ends a job is refused.
LEMMA NextBudget ==
  ASSUME BudgetInv, [Next]_vars
  PROVE  BudgetInv' /\ (refused' \in {"fail", "cancel", "settle", "recover"} => UNCHANGED refused)
<1> DEFINE Ends == {"fail", "cancel", "settle", "recover"}
<1>types. /\ Attempt \in Nat /\ Closing \in Nat /\ CallEnd \in Nat /\ MaxOpen \in Nat
          /\ Moves \subseteq Nat /\ Outputs \subseteq Nat /\ Calls \subseteq Nat
          /\ open \in 0..MaxOpen /\ asked \in BOOLEAN
  BY BudgetAssumption DEF BudgetInv, TypeOK
<1>1. ASSUME NEW n \in NewJobs, CreateJob(n)
      PROVE  BudgetInv' /\ refused' \notin Ends
  <2>1. /\ stage = "absent" /\ used + error + n + Reserve <= Limit
        /\ used' = used + n /\ refused' = "none" /\ stage' = "queued"
        /\ error' = error /\ open' = open /\ asked' = asked
    BY <1>1 DEF CreateJob, Transaction, FitsWithReserve
  <2>2. n \in Nat /\ used = 0 /\ error = 0
    BY <2>1, BudgetAssumption DEF BudgetInv
  <2>3. used' \in Nat /\ error' = 0 /\ used' + Reserve <= Limit
    BY <2>1, <2>2, BudgetAssumption
  <2> QED
    BY <2>1, <2>3, <1>types DEF BudgetInv, TypeOK, ReserveKept
<1>2. ASSUME NEW m \in Moves, ClaimNextJob(m)
      PROVE  BudgetInv' /\ refused' \notin Ends
  <2>1. stage = "queued" /\ Attempt + m \in Nat
    BY <1>2, <1>types DEF ClaimNextJob
  <2>2. Transaction("claim", FitsWithReserve(Attempt + m), Attempt + m,
                    /\ stage' \in {"queued", "active"} /\ open' \in 0..MaxOpen
                    /\ UNCHANGED <<error, asked>>)
    BY <1>2, <1>types DEF ClaimNextJob, Transaction
  <2>3. refused' \in {"none", "claim"}
    BY <2>2 DEF Transaction
  <2>4. BudgetInv'
    BY <2>1, <2>2, RunsOn
  <2> QED
    BY <2>3, <2>4
<1>3. ASSUME NEW n \in Nat, NEW now \in 0..MaxOpen, Writes(n, now)
      PROVE  BudgetInv' /\ refused' \notin Ends
  <2>1. stage = "active"
    BY <1>3 DEF Writes
  <2>2. Transaction("write", FitsWithReserve(n), n,
                    /\ stage' \in {"queued", "active"} /\ open' \in 0..MaxOpen
                    /\ UNCHANGED <<error, asked>>)
    BY <1>3, <2>1 DEF Writes, Transaction
  <2>3. refused' \in {"none", "write"}
    BY <2>2 DEF Transaction
  <2>4. BudgetInv'
    BY <2>1, <2>2, RunsOn
  <2> QED
    BY <2>3, <2>4
<1>4. ASSUME NEW m \in Moves, NEW kind \in {"fail", "cancel"}, EndsUnclaimed(kind, m)
      PROVE  BudgetInv' /\ refused' \notin Ends
  <2>1. /\ stage = "queued" /\ m \in Nat /\ 0 \in 0..MaxOpen /\ 0 * CallEnd = 0
        /\ OwnError \in Nat
    BY <1>4, <1>types, BudgetAssumption DEF EndsUnclaimed
  <2>2. Transaction(kind, FitsWithoutReserve(m), m,
                    stage' = "done" /\ error' = OwnError /\ open' = open - 0 /\ UNCHANGED asked)
    BY <1>4, <1>types DEF EndsUnclaimed, Transaction
  <2>3. m <= m + Closing + 0 * CallEnd /\ m <= m + OwnError + Closing + 0 * CallEnd
    BY <2>1, <1>types
  <2>4. BudgetInv' /\ refused' = "none"
    BY <2>1, <2>2, <2>3, EndsWithinReserve
  <2> QED
    BY <2>4
<1>5. CASE CancelActive
  BY <1>5 DEF CancelActive, BudgetInv, TypeOK, ReserveKept
<1>6. ASSUME NEW m \in Moves, NEW e \in ErrorSizes, SettleTerminal(m, e)
      PROVE  BudgetInv' /\ refused' \notin Ends
  <2> DEFINE w == WrittenError(e)
  <2> HIDE DEF w
  <2>w. w \in ErrorSizes \union {OwnError}
    BY ErrorCovered DEF w
  <2>1. /\ stage = "active" /\ m \in Nat /\ 0 \in 0..MaxOpen /\ 0 * CallEnd = 0
        /\ w \in Nat
    BY <1>6, <2>w, <1>types, BudgetAssumption DEF SettleTerminal
  <2>2. Transaction("settle", FitsWithoutReserve(m + Closing + w), m + Closing,
                    stage' = "done" /\ error' = w /\ open' = open - 0 /\ UNCHANGED asked)
    BY <1>6, <1>types DEF SettleTerminal, Transaction, w
  <2>3. /\ m + Closing \in Nat /\ m + Closing + w \in Nat
        /\ m + Closing <= m + Closing + 0 * CallEnd
        /\ m + Closing + w <= m + w + Closing + 0 * CallEnd
    BY <2>1, <1>types
  <2>4. BudgetInv' /\ refused' = "none"
    BY <2>w, <2>1, <2>2, <2>3, EndsWithinReserve
  <2> QED
    BY <2>4
<1>7. CASE RecoverEnded
  <2>1. /\ stage = "done" /\ used' = used + open * CallEnd /\ refused' = "none" /\ open' = 0
        /\ stage' = stage /\ error' = error /\ asked' = asked
    BY <1>7 DEF RecoverEnded, Transaction
  <2>2. used \in Nat /\ error \in Nat /\ open * CallEnd \in Nat /\ open' * CallEnd = 0
    BY <2>1, <1>types DEF BudgetInv, TypeOK
  <2>3. used' \in Nat /\ used' + error' + open' * CallEnd <= Limit /\ open' \in 0..MaxOpen
    BY <2>1, <2>2, <1>types, BudgetAssumption DEF BudgetInv
  <2> QED
    BY <2>1, <2>2, <2>3, <1>types DEF BudgetInv, TypeOK, ReserveKept
<1>8. ASSUME NEW m \in Moves, NEW closed \in {0, open}, RecoverToEnd(m, closed)
      PROVE  BudgetInv' /\ refused' \notin Ends
  <2> DEFINE n == m + Closing + closed * CallEnd
  <2>1. /\ stage = "active" /\ m \in Nat /\ closed \in 0..MaxOpen /\ closed * CallEnd \in Nat
        /\ OwnError \in Nat
    BY <1>8, <1>types, BudgetAssumption DEF RecoverToEnd
  <2>2. n \in Nat /\ n <= m + Closing + closed * CallEnd
        /\ n <= m + OwnError + Closing + closed * CallEnd
    BY <2>1, <1>types
  <2>3. Transaction("recover", FitsWithoutReserve(n), n,
                    stage' = "done" /\ error' = OwnError /\ open' = open - closed /\ UNCHANGED asked)
    BY <1>8 DEF RecoverToEnd
  <2>4. BudgetInv' /\ refused' = "none"
    <3> HIDE DEF n
    <3> QED
      BY <2>1, <2>2, <2>3, EndsWithinReserve DEF n
  <2> QED
    BY <2>4
<1>9. ASSUME NEW m \in Moves, Requeue(m)
      PROVE  BudgetInv' /\ refused' \notin Ends
  <2>1. stage = "active" /\ m + Closing \in Nat
    BY <1>9, <1>types DEF Requeue
  <2>2. Transaction("requeue", FitsWithReserve(m + Closing), m + Closing,
                    /\ stage' \in {"queued", "active"} /\ open' \in 0..MaxOpen
                    /\ UNCHANGED <<error, asked>>)
    BY <1>9, <1>types DEF Requeue, Transaction
  <2>3. refused' \in {"none", "requeue"}
    BY <2>2 DEF Transaction
  <2>4. BudgetInv'
    BY <2>1, <2>2, RunsOn
  <2> QED
    BY <2>3, <2>4
<1>10. CASE UNCHANGED vars
  BY <1>10 DEF vars, BudgetInv, TypeOK, ReserveKept
<1>11. CASE \E n \in Outputs : PutArtifact(n) \/ FinishProviderCall(n)
  <2> PICK n \in Outputs : PutArtifact(n) \/ FinishProviderCall(n)
    BY <1>11
  <2>1. n \in Nat /\ n + CallEnd \in Nat
    BY <1>types
  <2>2. Writes(n, open) \/ (open - 1 \in 0..MaxOpen /\ Writes(n + CallEnd, open - 1))
    BY <1>types DEF PutArtifact, FinishProviderCall
  <2> QED
    BY <1>3, <2>1, <2>2, <1>types
<1>12. CASE \E n \in Calls : AddProviderCall(n)
  <2> PICK n \in Calls : AddProviderCall(n)
    BY <1>12
  <2>1. n \in Nat /\ open + 1 \in 0..MaxOpen /\ Writes(n, open + 1)
    BY <1>types DEF AddProviderCall
  <2> QED
    BY <1>3, <2>1
<1>13. CASE SettleCancelledCall
  <2>1. open - 1 \in 0..MaxOpen /\ Writes(CallEnd, open - 1)
    BY <1>13, <1>types DEF SettleCancelledCall
  <2> QED
    BY <1>3, <2>1, <1>types
<1>14. CASE \E m \in Moves :
              ClaimNextJob(m) \/ FailAtClaim(m) \/ CancelQueued(m) \/ Transition(m)
  <2> PICK m \in Moves : ClaimNextJob(m) \/ FailAtClaim(m) \/ CancelQueued(m) \/ Transition(m)
    BY <1>14
  <2>1. CASE ClaimNextJob(m)
    BY <2>1, <1>2
  <2>2. CASE FailAtClaim(m) \/ CancelQueued(m)
    BY <2>2, <1>4 DEF FailAtClaim, CancelQueued
  <2>3. CASE Transition(m)
    <3>1. m \in Nat /\ Writes(m, open)
      BY <2>3, <1>types DEF Transition
    <3> QED
      BY <3>1, <1>3, <1>types
  <2> QED
    BY <2>1, <2>2, <2>3
<1> QED
  BY <1>1, <1>5, <1>6, <1>7, <1>8, <1>9, <1>10, <1>11, <1>12, <1>13, <1>14
     DEF Next, RecoverStartup, vars


\* The ledger of every job is well typed and keeps the reserve and the accounts of the calls
\* left open, for every limit and row size (repository.py, _transition_locked and settle_terminal).
THEOREM BudgetKept == Spec => []BudgetInv
<1>1. BudgetInv /\ [Next]_vars => BudgetInv'
  BY NextBudget
<1> QED
  BY InitBudget, <1>1, PTL DEF Spec

\* Every value of the ledger has its type.
THEOREM LedgerTyped == Spec => []TypeOK
<1>1. BudgetInv => TypeOK
  BY DEF BudgetInv
<1> QED
  BY <1>1, BudgetKept, PTL

\* A job that has not ended always has the settlement reserve to itself.
THEOREM ReserveIsKept == Spec => []ReserveKept
<1>1. BudgetInv => ReserveKept
  BY DEF BudgetInv
<1> QED
  BY <1>1, BudgetKept, PTL

\* The ledger never exceeds the limit, although the last writes of a job are not checked.
THEOREM LedgerIsBounded == Spec => []LedgerWithinLimit
<1>1. BudgetInv => LedgerWithinLimit
  <2> SUFFICES ASSUME BudgetInv PROVE LedgerWithinLimit
    OBVIOUS
  <2>1. /\ used \in Nat /\ error \in Nat /\ open \in 0..MaxOpen
        /\ stage \in {"absent", "queued", "active", "done"}
    BY DEF BudgetInv, TypeOK
  <2>2. CASE stage = "absent"
    BY <2>2, BudgetAssumption DEF BudgetInv, LedgerWithinLimit
  <2>3. CASE stage \in {"queued", "active"}
    BY <2>1, <2>3, BudgetAssumption DEF BudgetInv, ReserveKept, LedgerWithinLimit
  <2>4. CASE stage = "done"
    <3>1. \A n \in 0..MaxOpen : n * CallEnd \in Nat
      BY BudgetAssumption
    <3>2. open * CallEnd \in Nat /\ used + error + open * CallEnd <= Limit
      BY <2>1, <2>4, <3>1 DEF BudgetInv
    <3> QED
      BY <2>1, <3>2, BudgetAssumption DEF LedgerWithinLimit
  <2> QED
    BY <2>1, <2>2, <2>3, <2>4
<1> QED
  BY <1>1, BudgetKept, PTL

\* No transaction that ends a job is ever refused by the ledger: the reserve covers the
\* transition, the terminal error and the calls closed with it (repository.py:29-32).
THEOREM EndsAreNeverRefused == Spec => []EndNeverRefused
<1>1. Init => EndNeverRefused
  BY DEF Init, EndNeverRefused
<1>2. BudgetInv /\ EndNeverRefused /\ [Next]_vars => EndNeverRefused'
  BY NextBudget DEF EndNeverRefused
<1> QED
  BY <1>1, <1>2, BudgetKept, PTL DEF Spec

=============================================================================
