------------------------- MODULE AIMarketplaceProofs -------------------------
(***************************************************************************)
(* The escrow of the marketplace, for any accounts and contracts, any      *)
(* amounts, and any number of models and jobs.                             *)
(***************************************************************************)
EXTENDS AIMarketplace, SumsAndPowers

Job == [requester : Accounts \cup {Nobody}, reward : Nat, deadline : Nat,
        status : {"Open", "Finalized", "Cancelled"}, worker : Accounts \cup {Nobody}]

\* The books balance, for jobs js, of which n are submitted, credits cr and ether
\* b.  A slot that is not submitted holds no reward, also when the oracle has
\* finalized it already.
Balanced(js, n, cr, b) ==
  /\ js \in [JobIds -> Job]
  /\ n \in 0..MaxJobs
  /\ cr \in [Accounts -> Nat]
  /\ \A j \in JobIds : j > n => js[j].reward = 0
  /\ b = SumFunctionOnSet(cr, Accounts) + SumFunctionOnSet(Owed(js), JobIds)

\* They balance now, and did when the running withdraw began: a payee that fails
\* takes the contract back there.
Inv ==
  /\ Balanced(jobs, jobCount, credits, balance)
  /\ call # NoCall =>
       Balanced(call.before.jobs, call.before.jobCount, call.before.credits, call.before.balance)

-----------------------------------------------------------------------------
\* There are finitely many job ids.
LEMMA JobsFinite == IsFiniteSet(JobIds)
  BY MarketplaceAssumption, FS_Interval DEF JobIds

\* Whoever calls the contract is an account.
LEMMA SendersAreAccounts == Senders \subseteq Accounts
  BY MarketplaceAssumption DEF Senders

\* What the contract owes per job is a natural number.
LEMMA OwedType ==
  ASSUME NEW js \in [JobIds -> Job]
  PROVE  Owed(js) \in [JobIds -> Nat]
  BY DEF Owed, Job

\* The sums over accounts and over jobs are natural numbers.
LEMMA SumsType ==
  ASSUME NEW js \in [JobIds -> Job], NEW cr \in [Accounts -> Nat]
  PROVE  /\ SumFunctionOnSet(cr, Accounts) \in Nat
         /\ SumFunctionOnSet(Owed(js), JobIds) \in Nat
<1>1. \A a \in Accounts : cr[a] \in Nat
      OBVIOUS
<1>2. \A j \in JobIds : Owed(js)[j] \in Nat
      BY OwedType
<1>3. IsFiniteSet(Accounts)
      BY MarketplaceAssumption
<1> QED BY <1>1, <1>2, <1>3, JobsFinite, SumNat

\* One account's credit changes.
LEMMA CreditChange ==
  ASSUME NEW cr \in [Accounts -> Nat], NEW a \in Accounts, NEW new \in [Accounts -> Nat],
         \A x \in Accounts : x # a => new[x] = cr[x]
  PROVE  SumFunctionOnSet(new, Accounts) = SumFunctionOnSet(cr, Accounts) - cr[a] + new[a]
<1>1. new[a] \in Int /\ \A x \in Accounts : cr[x] \in Int
      OBVIOUS
<1>2. IsFiniteSet(Accounts)
      BY MarketplaceAssumption
<1> QED BY <1>1, <1>2, SumUpdate

\* One job changes.
LEMMA JobChange ==
  ASSUME NEW js \in [JobIds -> Job], NEW j \in JobIds, NEW job \in Job
  PROVE  /\ [js EXCEPT ![j] = job] \in [JobIds -> Job]
         /\ SumFunctionOnSet(Owed([js EXCEPT ![j] = job]), JobIds)
              = SumFunctionOnSet(Owed(js), JobIds) - Owed(js)[j]
                + IF job.status = "Open" THEN job.reward ELSE 0
<1> DEFINE new == [js EXCEPT ![j] = job]
<1>1. new \in [JobIds -> Job] /\ new[j] = job /\ \A x \in JobIds : x # j => new[x] = js[x]
      OBVIOUS
<1> HIDE DEF new
<1>2. \A x \in JobIds : Owed(js)[x] \in Int /\ Owed(new)[x] \in Int
      BY <1>1, OwedType
<1>3. \A x \in JobIds : x # j => Owed(new)[x] = Owed(js)[x]
      BY <1>1 DEF Owed
<1>4. Owed(new)[j] = IF job.status = "Open" THEN job.reward ELSE 0
      BY <1>1 DEF Owed
<1>5. SumFunctionOnSet(Owed(new), JobIds)
        = SumFunctionOnSet(Owed(js), JobIds) - Owed(js)[j] + Owed(new)[j]
      BY <1>2, <1>3, JobsFinite, SumUpdate
<1> QED BY <1>1, <1>4, <1>5 DEF new

\* A job with this outcome in place of an open one: what was owed for it is
\* credited, once.
LEMMA SettleBalanced ==
  ASSUME Balanced(jobs, jobCount, credits, balance), NEW j \in JobIds, NEW a \in Accounts,
         jobs[j].status = "Open", NEW job \in Job, job.status # "Open",
         job.reward = jobs[j].reward,
         jobs' = [jobs EXCEPT ![j] = job], Credit(a, jobs[j].reward),
         UNCHANGED <<jobCount, balance>>
  PROVE  Balanced(jobs', jobCount', credits', balance')
<1> USE DEF Balanced
<1>0. jobs[j].reward \in Nat /\ credits[a] \in Nat
      BY DEF Job
<1>1. credits' = [credits EXCEPT ![a] = credits[a] + jobs[j].reward]
      BY DEF Credit
<1>a. /\ credits' \in [Accounts -> Nat] /\ credits'[a] = credits[a] + jobs[j].reward
      /\ \A x \in Accounts : x # a => credits'[x] = credits[x]
      BY <1>0, <1>1
<1>2. SumFunctionOnSet(credits', Accounts)
        = SumFunctionOnSet(credits, Accounts) - credits[a] + credits'[a]
      BY <1>a, CreditChange
<1>3. /\ jobs' \in [JobIds -> Job]
      /\ SumFunctionOnSet(Owed(jobs'), JobIds)
           = SumFunctionOnSet(Owed(jobs), JobIds) - Owed(jobs)[j] + 0
      BY JobChange
<1>4. Owed(jobs)[j] = jobs[j].reward
      BY DEF Owed
<1>5. /\ SumFunctionOnSet(credits, Accounts) \in Nat
      /\ SumFunctionOnSet(Owed(jobs), JobIds) \in Nat
      BY SumsType
<1>6. balance' = SumFunctionOnSet(credits', Accounts) + SumFunctionOnSet(Owed(jobs'), JobIds)
      BY <1>0, <1>a, <1>2, <1>3, <1>4, <1>5
<1>7. \A x \in JobIds : x > jobCount' => jobs'[x].reward = 0
  <2>1. jobs'[j] = job /\ \A x \in JobIds : x # j => jobs'[x] = jobs[x]
        OBVIOUS
  <2> QED BY <2>1
<1> QED BY <1>a, <1>3, <1>6, <1>7

\* An empty contract owes nothing.
LEMMA InitInv == Init => Inv
<1> SUFFICES ASSUME Init PROVE Inv
    OBVIOUS
<1>1. jobs \in [JobIds -> Job] /\ \A j \in JobIds : jobs[j].reward = 0
      BY DEF Init, NoJob, Job
<1>2. \A j \in JobIds : Owed(jobs)[j] = 0
      BY <1>1 DEF Owed
<1>3. credits \in [Accounts -> Nat] /\ \A a \in Accounts : credits[a] = 0
      BY DEF Init
<1>4. SumFunctionOnSet(credits, Accounts) = 0
      BY <1>3, SumZero, MarketplaceAssumption
<1>5. SumFunctionOnSet(Owed(jobs), JobIds) = 0
      BY <1>2, SumZero, JobsFinite
<1> QED BY <1>1, <1>3, <1>4, <1>5, MarketplaceAssumption DEF Init, Inv, Balanced

\* Every call, also one a payee makes while it is being paid, preserves the
\* invariant.
LEMMA NextInv == Inv /\ [Next]_vars => Inv'
<1> SUFFICES ASSUME Inv, [Next]_vars PROVE Inv'
    OBVIOUS
<1> DEFINE Now == Balanced(jobs, jobCount, credits, balance)
           Then == call # NoCall =>
             Balanced(call.before.jobs, call.before.jobCount, call.before.credits, call.before.balance)
<1>0. Now /\ Then
      BY DEF Inv
<1>a. Now' /\ Then' => Inv'
      BY DEF Inv
<1>b. UNCHANGED <<jobs, jobCount, credits, balance>> => Now'
      BY <1>0
<1>c. UNCHANGED call => Then'
      BY <1>0
<1> HIDE DEF Now, Then
<1>1. ASSUME NEW a \in Accounts, SetConsensusOracle(a) PROVE Now' /\ Then'
      BY <1>1, <1>b, <1>c DEF SetConsensusOracle
<1>2. ASSUME NEW a \in Accounts, Withdraw(a) PROVE Now' /\ Then'
  <2>0. Balanced(jobs, jobCount, credits, balance)
        BY <1>0 DEF Now
  <2>1. credits[a] \in Nat /\ credits' = [credits EXCEPT ![a] = 0]
        BY <1>2, <2>0 DEF Withdraw, Balanced
  <2>a. /\ credits' \in [Accounts -> Nat] /\ credits'[a] = 0
        /\ \A x \in Accounts : x # a => credits'[x] = credits[x]
        BY <2>0, <2>1 DEF Balanced
  <2>2. SumFunctionOnSet(credits', Accounts)
          = SumFunctionOnSet(credits, Accounts) - credits[a] + credits'[a]
        BY <2>0, <2>a, CreditChange DEF Balanced
  <2>3. /\ SumFunctionOnSet(credits, Accounts) \in Nat
        /\ SumFunctionOnSet(Owed(jobs), JobIds) \in Nat
        BY <2>0, SumsType DEF Balanced
  <2>4. UNCHANGED <<jobs, jobCount>> /\ balance' = balance - credits[a]
        BY <1>2 DEF Withdraw
  <2>5. balance' = SumFunctionOnSet(credits', Accounts) + SumFunctionOnSet(Owed(jobs'), JobIds)
        BY <2>0, <2>1, <2>a, <2>2, <2>3, <2>4 DEF Balanced
  <2>6. Now'
        BY <2>0, <2>a, <2>4, <2>5 DEF Now, Balanced
  <2>7. /\ call'.before.jobs = jobs /\ call'.before.jobCount = jobCount
        /\ call'.before.credits = credits /\ call'.before.balance = balance
        BY <1>2 DEF Withdraw, Snapshot
  <2>8. Then'
        BY <2>0, <2>7 DEF Then
  <2> QED BY <2>6, <2>8
<1>3. ASSUME NEW a \in Accounts, NEW v \in Values, RegisterModel(a, v) PROVE Now' /\ Then'
      BY <1>3, <1>b, <1>c DEF RegisterModel
<1>4. ASSUME NEW a \in Accounts, NEW m \in ModelIds, NEW active \in BOOLEAN,
             SetModelActive(a, m, active)
      PROVE  Now' /\ Then'
      BY <1>4, <1>b, <1>c DEF SetModelActive
<1>5. ASSUME NEW a \in Accounts, NEW m \in ModelIds, NEW v \in Values, NEW d \in 1..(MaxTime - 1),
             SubmitJob(a, m, v, d)
      PROVE  Now' /\ Then'
  <2> DEFINE job == [requester |-> a, reward |-> v, deadline |-> d,
                     status |-> "Open", worker |-> Nobody]
             j == jobCount + 1
  <2>0. Balanced(jobs, jobCount, credits, balance)
        BY <1>0 DEF Now
  <2>1. /\ jobCount' = jobCount + 1 /\ jobs' = [jobs EXCEPT ![j] = job]
        /\ balance' = balance + v /\ UNCHANGED <<credits, call>>
        BY <1>5 DEF SubmitJob
  <2>2. j \in JobIds /\ j > jobCount /\ jobCount' \in 0..MaxJobs
        BY <1>5, <2>0, <2>1, MarketplaceAssumption DEF SubmitJob, Balanced, JobIds
  <2>3. job \in Job /\ v \in Nat
        BY MarketplaceAssumption DEF Job
  <2>4. /\ jobs' \in [JobIds -> Job]
        /\ SumFunctionOnSet(Owed(jobs'), JobIds)
             = SumFunctionOnSet(Owed(jobs), JobIds) - Owed(jobs)[j] + v
    <3>1. job.status = "Open" /\ job.reward = v
          OBVIOUS
    <3> HIDE DEF job, j
    <3> QED BY <2>0, <2>1, <2>2, <2>3, <3>1, JobChange DEF Balanced
  <2>5. Owed(jobs)[j] = 0
        BY <2>0, <2>2 DEF Balanced, Owed
  <2>6. /\ SumFunctionOnSet(credits, Accounts) \in Nat
        /\ SumFunctionOnSet(Owed(jobs), JobIds) \in Nat
        BY <2>0, SumsType DEF Balanced
  <2>7. balance' = SumFunctionOnSet(credits', Accounts) + SumFunctionOnSet(Owed(jobs'), JobIds)
    <3> HIDE DEF job, j
    <3> QED BY <2>0, <2>1, <2>3, <2>4, <2>5, <2>6 DEF Balanced
  <2>8. \A x \in JobIds : x > jobCount' => jobs'[x].reward = 0
    <3>1. \A x \in JobIds : x # j => jobs'[x] = jobs[x]
          BY <2>0, <2>1 DEF Balanced
    <3>2. \A x \in JobIds : x > jobCount' => x # j /\ x > jobCount
          BY <2>0, <2>1, MarketplaceAssumption DEF Balanced, JobIds
    <3> QED BY <2>0, <3>1, <3>2 DEF Balanced
  <2>9. Now'
        BY <2>0, <2>1, <2>2, <2>4, <2>7, <2>8 DEF Now, Balanced
  <2> QED BY <2>1, <2>9, <1>c
<1>6. ASSUME NEW j \in JobIds, NEW a \in Accounts, FinalizeJob(j, a) PROVE Now' /\ Then'
  <2> DEFINE job == [jobs[j] EXCEPT !.status = "Finalized", !.worker = a]
  <2>0. Balanced(jobs, jobCount, credits, balance)
        BY <1>0 DEF Now
  <2>1. /\ jobs' = [jobs EXCEPT ![j] = job] /\ jobs[j].status = "Open"
        /\ Credit(a, jobs[j].reward) /\ UNCHANGED <<jobCount, balance, call>>
        BY <1>6, <2>0 DEF FinalizeJob, Balanced
  <2>2. job \in Job /\ job.status # "Open" /\ job.reward = jobs[j].reward
        BY <2>0 DEF Balanced, Job
  <2>3. Now'
    <3> HIDE DEF job
    <3> QED BY <2>0, <2>1, <2>2, SettleBalanced DEF Now
  <2> QED BY <2>1, <2>3, <1>c
<1>7. ASSUME NEW j \in JobIds, CancelExpiredJob(j) PROVE Now' /\ Then'
  <2> DEFINE job == [jobs[j] EXCEPT !.status = "Cancelled"]
  <2>0. Balanced(jobs, jobCount, credits, balance)
        BY <1>0 DEF Now
  <2>1. /\ jobs' = [jobs EXCEPT ![j] = job] /\ jobs[j].status = "Open"
        /\ Credit(jobs[j].requester, jobs[j].reward) /\ UNCHANGED <<jobCount, balance, call>>
        BY <1>7, <2>0 DEF CancelExpiredJob, Balanced
  <2>2. job \in Job /\ job.status # "Open" /\ job.reward = jobs[j].reward
        BY <2>0 DEF Balanced, Job
  <2>3. jobs[j].requester \in Accounts
        BY <1>7, SendersAreAccounts DEF CancelExpiredJob
  <2>4. Now'
    <3> HIDE DEF job
    <3> QED BY <2>0, <2>1, <2>2, <2>3, SettleBalanced DEF Now
  <2> QED BY <2>1, <2>4, <1>c
<1>8. CASE WithdrawReturn
  <2>1. Now'
        BY <1>8, <1>b DEF WithdrawReturn, storage
  <2>2. Then'
        BY <1>8 DEF WithdrawReturn, Then
  <2> QED BY <1>a, <2>1, <2>2
<1>9. CASE WithdrawRevert
  <2>1. Now'
        BY <1>0, <1>9 DEF WithdrawRevert, Now, Then
  <2>2. Then'
        BY <1>9 DEF WithdrawRevert, Then
  <2> QED BY <1>a, <2>1, <2>2
<1>10. CASE Tick
      BY <1>10, <1>a, <1>b, <1>c DEF Tick, storage
<1>11. CASE UNCHANGED vars
      BY <1>11, <1>a, <1>b, <1>c DEF vars
<1> QED
    BY <1>a, <1>1, <1>2, <1>3, <1>4, <1>5, <1>6, <1>7, <1>8, <1>9, <1>10, <1>11 DEF Next

\* The inductive invariant holds in every reachable state.
THEOREM Invariance == Spec => []Inv
<1>1. Init => Inv
      BY InitInv
<1>2. Inv /\ [Next]_vars => Inv'
      BY NextInv
<1> QED BY <1>1, <1>2, PTL DEF Spec

\* The contract holds exactly what it owes, for any accounts, amounts and number
\* of jobs, and also while a payee's code is running inside withdraw.
THEOREM EscrowIsSolvent == Spec => []Solvent
<1>1. Inv => Solvent
      BY DEF Inv, Balanced, Solvent
<1> QED BY <1>1, Invariance, PTL

\* No transfer of withdraw can lack ether: an account is never credited more than
\* the contract holds.
THEOREM CreditsAreCovered == Spec => [](\A a \in Accounts : credits[a] <= balance)
<1>1. Inv => \A a \in Accounts : credits[a] <= balance
  <2> SUFFICES ASSUME Inv, NEW a \in Accounts PROVE credits[a] <= balance
      OBVIOUS
  <2>1. /\ jobs \in [JobIds -> Job] /\ credits \in [Accounts -> Nat]
        /\ balance = SumFunctionOnSet(credits, Accounts) + SumFunctionOnSet(Owed(jobs), JobIds)
        BY DEF Inv, Balanced
  <2>2. /\ SumFunctionOnSet(credits, Accounts) \in Nat
        /\ SumFunctionOnSet(Owed(jobs), JobIds) \in Nat
        BY <2>1, SumsType
  <2>3. credits[a] <= SumFunctionOnSet(credits, Accounts)
    <3>1. \A x \in Accounts : credits[x] \in Nat
          BY <2>1
    <3> QED BY <3>1, SumNat, MarketplaceAssumption
  <2> QED BY <2>1, <2>2, <2>3
<1> QED BY <1>1, Invariance, PTL

\* The outcome of a submitted job stays, whoever calls what in whatever order:
\* only a transaction that fails as a whole takes one back.
THEOREM OutcomesAreFinal == Spec => OutcomeIsFinal
<1> DEFINE Final == WithdrawRevert \/
                    \A j \in 1..jobCount : jobs[j].status # "Open" => jobs'[j] = jobs[j]
<1>1. Inv /\ [Next]_vars => [Final]_vars
  <2> SUFFICES ASSUME Inv, Next PROVE Final
      OBVIOUS
  <2>0. jobs \in [JobIds -> Job] /\ jobCount \in 0..MaxJobs /\ 1..jobCount \subseteq JobIds
        BY MarketplaceAssumption DEF Inv, Balanced, JobIds
  <2>1. ASSUME NEW a \in Accounts, NEW m \in ModelIds, NEW v \in Values, NEW d \in 1..(MaxTime - 1),
               SubmitJob(a, m, v, d)
        PROVE  Final
    <3>1. \A j \in JobIds : j # jobCount + 1 => jobs'[j] = jobs[j]
          BY <2>0, <2>1 DEF SubmitJob
    <3>2. jobCount + 1 \notin 1..jobCount
          BY <2>0
    <3> QED BY <2>0, <3>1, <3>2
  <2>2. ASSUME NEW k \in JobIds, NEW a \in Accounts, FinalizeJob(k, a) PROVE Final
        BY <2>0, <2>2 DEF FinalizeJob
  <2>3. ASSUME NEW k \in JobIds, CancelExpiredJob(k) PROVE Final
        BY <2>0, <2>3 DEF CancelExpiredJob
  <2>4. ASSUME UNCHANGED jobs PROVE Final
        BY <2>4
  <2> QED BY <2>1, <2>2, <2>3, <2>4
      DEF Next, SetConsensusOracle, Withdraw, RegisterModel, SetModelActive, WithdrawReturn, Tick, storage
<1> QED BY <1>1, Invariance, PTL DEF Spec, OutcomeIsFinal
=============================================================================
