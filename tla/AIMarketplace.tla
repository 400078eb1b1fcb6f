--------------------------- MODULE AIMarketplace ----------------------------
(***************************************************************************)
(* The escrow contract contracts/AIMarketplace.sol.                        *)
(*                                                                         *)
(* A transaction runs alone and is one action, except withdraw: it sends   *)
(* ether to msg.sender, and if that is a contract, its code runs before    *)
(* withdraw goes on and may call any function of the marketplace.  So      *)
(* withdraw is Withdraw ... WithdrawReturn, with the calls of the payee in *)
(* between; if the payee fails, WithdrawRevert undoes all of it.           *)
(*                                                                         *)
(* Hashes, URIs and events play no part in the escrow and are left out;    *)
(* the checks that they are not zero only turn calls into failures, which  *)
(* change nothing.                                                         *)
(*                                                                         *)
(* WithdrawZeroLast, FinalizeJobUnchecked and CancelBeforeDeadline are     *)
(* faulty versions of the definitions after them and not part of the       *)
(* specification (see README).                                             *)
(***************************************************************************)
EXTENDS Integers, Sequences, FiniteSetsExt

CONSTANTS
  Accounts,     \* the addresses that call the contract
  Contracts,    \* those that are contracts: only these can act inside a call
  Owner,        \* the deployer
  InitialOracle,
  Values,       \* the amounts of wei sent and asked for
  MaxModels,    \* bounds: models registered, jobs submitted,
  MaxJobs,
  MaxTime       \* bound: block.timestamp stays below this

ASSUME MarketplaceAssumption ==
  /\ IsFiniteSet(Accounts)
  /\ Contracts \subseteq Accounts
  /\ {Owner, InitialOracle} \subseteq Accounts
  /\ Values \subseteq Nat
  /\ {MaxModels, MaxJobs, MaxTime} \subseteq Nat

VARIABLES
  now,        \* block.timestamp
  oracle,     \* consensusOracle
  models,     \* the registered models, 1..modelCount
  jobs,       \* the jobs mapping: a slot never written reads as NoJob
  jobCount,
  credits,
  balance,    \* the ether the contract holds
  call        \* the withdraw whose payee is running, or NoCall

storage == <<oracle, models, jobs, jobCount, credits, balance>>
Snapshot == [oracle |-> oracle, models |-> models, jobs |-> jobs, jobCount |-> jobCount,
             credits |-> credits, balance |-> balance]
vars == <<now, oracle, models, jobs, jobCount, credits, balance, call>>

Nobody == "zero address"
NoCall == [payee |-> Nobody]

\* The zero value of a Job: status 0 is Open.
NoJob == [requester |-> Nobody, reward |-> 0, deadline |-> 0, status |-> "Open", worker |-> Nobody]

JobIds == 1..MaxJobs
ModelIds == 1..Len(models)

\* The accounts that can be msg.sender now: anybody starts a transaction, only
\* contracts act while one is running.
Senders == IF call = NoCall THEN Accounts ELSE Contracts

Init ==
  /\ now = 0
  /\ oracle = InitialOracle
  /\ models = <<>>
  /\ jobs = [j \in JobIds |-> NoJob]
  /\ jobCount = 0
  /\ credits = [a \in Accounts |-> 0]
  /\ balance = 0
  /\ call = NoCall

-----------------------------------------------------------------------------
SetConsensusOracle(a) ==
  /\ Owner \in Senders
  /\ oracle' = a
  /\ UNCHANGED <<now, models, jobs, jobCount, credits, balance, call>>

RegisterModel(sender, minimum) ==
  /\ sender \in Senders
  /\ Len(models) < MaxModels
  /\ models' = Append(models, [owner |-> sender, minimumReward |-> minimum, active |-> TRUE])
  /\ UNCHANGED <<now, oracle, jobs, jobCount, credits, balance, call>>

SetModelActive(sender, m, active) ==
  /\ sender \in Senders \cap {models[m].owner, Owner}
  /\ models' = [models EXCEPT ![m].active = active]
  /\ UNCHANGED <<now, oracle, jobs, jobCount, credits, balance, call>>

SubmitJob(sender, m, value, deadline) ==
  /\ sender \in Senders
  /\ jobCount < MaxJobs
  /\ models[m].active
  /\ value >= models[m].minimumReward
  /\ deadline > now
  /\ jobCount' = jobCount + 1
  /\ jobs' = [jobs EXCEPT ![jobCount + 1] =
                [requester |-> sender, reward |-> value, deadline |-> deadline,
                 status |-> "Open", worker |-> Nobody]]
  /\ balance' = balance + value
  /\ UNCHANGED <<now, oracle, models, credits, call>>

Credit(a, amount) == credits' = [credits EXCEPT ![a] = @ + amount]

FinalizeJobUnchecked(j, worker) ==
  /\ oracle \in Senders
  /\ jobs' = [jobs EXCEPT ![j].status = "Finalized", ![j].worker = worker]
  /\ Credit(worker, jobs[j].reward)
  /\ UNCHANGED <<now, oracle, models, jobCount, balance, call>>

\* The oracle's call; it is not asked whether the job was ever submitted.
FinalizeJob(j, worker) ==
  /\ oracle \in Senders
  /\ jobs[j].status = "Open"
  /\ jobs' = [jobs EXCEPT ![j].status = "Finalized", ![j].worker = worker]
  /\ Credit(worker, jobs[j].reward)
  /\ UNCHANGED <<now, oracle, models, jobCount, balance, call>>

CancelBeforeDeadline(j) ==
  /\ jobs[j].requester \in Senders
  /\ jobs[j].status = "Open"
  /\ now < jobs[j].deadline
  /\ jobs' = [jobs EXCEPT ![j].status = "Cancelled"]
  /\ Credit(jobs[j].requester, jobs[j].reward)
  /\ UNCHANGED <<now, oracle, models, jobCount, balance, call>>

\* The requester's call.
CancelExpiredJob(j) ==
  /\ jobs[j].requester \in Senders
  /\ jobs[j].status = "Open"
  /\ now > jobs[j].deadline
  /\ jobs' = [jobs EXCEPT ![j].status = "Cancelled"]
  /\ Credit(jobs[j].requester, jobs[j].reward)
  /\ UNCHANGED <<now, oracle, models, jobCount, balance, call>>

\* withdraw up to and including the transfer, which the guard nonReentrant lets
\* happen only when no other withdraw is running.
Withdraw(sender) ==
  /\ call = NoCall
  /\ credits' = [credits EXCEPT ![sender] = 0]
  /\ balance' = balance - credits[sender]
  /\ call' = [payee |-> sender, before |-> Snapshot]
  /\ UNCHANGED <<now, oracle, models, jobs, jobCount>>

WithdrawZeroLast ==
  /\ call # NoCall
  /\ call' = NoCall
  /\ credits' = [credits EXCEPT ![call.payee] = 0]
  /\ UNCHANGED <<now, oracle, models, jobs, jobCount, balance>>

\* The payee returns.
WithdrawReturn ==
  /\ call # NoCall
  /\ call' = NoCall
  /\ UNCHANGED <<now, storage>>

\* The payee fails: TransferFailed, and the whole transaction is undone.
WithdrawRevert ==
  /\ call # NoCall
  /\ call.payee \in Contracts
  /\ call' = NoCall
  /\ oracle' = call.before.oracle
  /\ models' = call.before.models
  /\ jobs' = call.before.jobs
  /\ jobCount' = call.before.jobCount
  /\ credits' = call.before.credits
  /\ balance' = call.before.balance
  /\ UNCHANGED now

\* Time passes between blocks.
Tick ==
  /\ call = NoCall
  /\ now < MaxTime
  /\ now' = now + 1
  /\ UNCHANGED <<storage, call>>

Next ==
  \/ \E a \in Accounts : SetConsensusOracle(a) \/ Withdraw(a)
  \/ \E a \in Accounts, v \in Values : RegisterModel(a, v)
  \/ \E a \in Accounts, m \in ModelIds, active \in BOOLEAN : SetModelActive(a, m, active)
  \/ \E a \in Accounts, m \in ModelIds, v \in Values, d \in 1..(MaxTime - 1) : SubmitJob(a, m, v, d)
  \/ \E j \in JobIds, a \in Accounts : FinalizeJob(j, a)
  \/ \E j \in JobIds : CancelExpiredJob(j)
  \/ WithdrawReturn
  \/ WithdrawRevert
  \/ Tick

Spec == Init /\ [][Next]_vars

\* Blocks are produced however many transactions there are, a payee's code ends
\* (it has a gas limit), and a requester whose job has expired gets its cancel
\* transaction included between the others.
Fairness ==
  /\ SF_vars(Tick)
  /\ WF_vars(WithdrawReturn \/ WithdrawRevert)
  /\ \A j \in JobIds : SF_vars(call = NoCall /\ CancelExpiredJob(j))

FairSpec == Spec /\ Fairness

-----------------------------------------------------------------------------
(* Properties *)

\* What is owed for each job.
Owed(js) == [j \in JobIds |-> IF js[j].status = "Open" THEN js[j].reward ELSE 0]

\* The contract holds exactly what it owes: the credits and the rewards of open
\* jobs, in every state, also while the payee of a withdraw is running.
Solvent == balance = SumFunctionOnSet(credits, Accounts) + SumFunctionOnSet(Owed(jobs), JobIds)

\* A submitted job that was finalized or cancelled stays so, with its worker:
\* no reward is credited twice.  Only a transaction that fails as a whole
\* takes an outcome back.
OutcomeIsFinal ==
  [][WithdrawRevert \/
     \A j \in 1..jobCount : jobs[j].status # "Open" => jobs'[j] = jobs[j]]_vars

\* A job does not keep its reward locked for ever: a requester that cancels
\* after the deadline gets it back, unless a worker has earned it.
JobSettles ==
  \A j \in JobIds : (j <= jobCount /\ call = NoCall) ~> (jobs[j].status # "Open" /\ call = NoCall)
=============================================================================
