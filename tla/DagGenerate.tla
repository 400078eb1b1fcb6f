---------------------------- MODULE DagGenerate -----------------------------
(***************************************************************************)
(* runGenerate of cmd/unifiedDAG/main.go: one process builds the page file *)
(* of the DAG, its Merkle sidecar and its manifest and puts them in place  *)
(* of what was there before.                                               *)
(*                                                                         *)
(*   producer --jobs--> workers --results--> collector (main)              *)
(*                                                                         *)
(* The two channels are bounded.  The collector writes the pages into a    *)
(* temporary file; when it has accepted them, the sidecar is built in a    *)
(* temporary file, too, and the three files are renamed to their final     *)
(* names one by one, the manifest last.  The process may crash anywhere,   *)
(* and any file operation may fail.  One generator runs at a time.         *)
(*                                                                         *)
(* The run number stands for what a run generates: the sets of files of    *)
(* different runs do not match.                                            *)
(*                                                                         *)
(* CollectUncheckedWrite, CollectUntilError, CloseWithoutWait,             *)
(* CommitManifestFirst, RenameUnchecked and ReturnErrorOnly are faulty     *)
(* versions of the definitions after them and not part of the              *)
(* specification (see README).                                             *)
(***************************************************************************)
EXTENDS Integers, Sequences, FiniteSets

CONSTANTS
  TotalPages,    \* totalPages
  ModelPages,    \* modelPageCount: pages 1..ModelPages hold the model
  Workers,       \* the worker goroutines
  ChannelCap,    \* capacity of both channels (Workers*8 in the code)
  MaxRuns        \* bound: how many times the generator is started

ASSUME DagAssumption ==
  /\ TotalPages \in Nat \ {0}
  /\ ModelPages \in Nat
  /\ ModelPages < TotalPages
  /\ Workers # {}
  /\ ChannelCap \in Nat \ {0}
  /\ MaxRuns \in Nat

Pages == 0..(TotalPages - 1)
Files == {"dag", "sidecar", "meta"}

VARIABLES
  run,        \* the number of the present or last run
  force,      \* its --force
  pc,         \* where its main goroutine is
  target,     \* index in CommitOrder of the file being committed
  next,       \* the page the producer sends next
  producer,   \* "sending", "waiting" (jobs closed, in wg.Wait) or "done"
  producerErr,\* an error is in the channel of that name
  jobs,       \* the two channels
  results,
  worker,     \* worker[w]: what w is doing
  seen,       \* seenPages; writtenPages is its size
  firstErr,   \* firstErr # nil
  pages,      \* the pages that really are in the temporary page file
  files,      \* files[f]: the run whose file has the final name, 0 if none
  temps,      \* temporary files <<r, f>> on disk
  forced,     \* history: the runs that were started with --force,
  crashed     \* and the runs that crashed

mainVars == <<run, force, pc, target>>
pipeVars == <<next, producer, producerErr, jobs, results, worker, seen, firstErr, pages>>
fileVars == <<files, temps>>
history == <<forced, crashed>>
vars == <<mainVars, pipeVars, fileVars, history>>

Running == {"preflight", "collect", "sidecar", "manifest", "clear", "rename", "verify"}
Ended == {"none", "done", "failed", "crashed"}

Idle == [at |-> "idle"]
Gone == [at |-> "gone"]
Building(p) == [at |-> "building", page |-> p]
Sending(p, ok) == [at |-> "sending", page |-> p, ok |-> ok]

TypeOK ==
  /\ run \in 0..MaxRuns
  /\ force \in BOOLEAN
  /\ pc \in Running \cup Ended
  /\ target \in 1..3
  /\ next \in 0..TotalPages
  /\ producer \in {"sending", "waiting", "done"}
  /\ producerErr \in BOOLEAN
  /\ jobs \in Seq(Pages)
  /\ results \in Seq([page : Pages, ok : BOOLEAN])
  /\ worker \in [Workers -> {Idle, Gone} \cup {Building(p) : p \in Pages}
                              \cup {Sending(p, ok) : p \in Pages, ok \in BOOLEAN}]
  /\ seen \subseteq Pages
  /\ firstErr \in BOOLEAN
  /\ pages \subseteq Pages
  /\ files \in [Files -> 0..MaxRuns]
  /\ temps \subseteq (1..MaxRuns) \X Files
  /\ forced \subseteq 1..MaxRuns
  /\ crashed \subseteq 1..MaxRuns

NewPipeline ==
  /\ next' = 0
  /\ producer' = "sending"
  /\ producerErr' = FALSE
  /\ jobs' = <<>>
  /\ results' = <<>>
  /\ worker' = [w \in Workers |-> Idle]
  /\ seen' = {}
  /\ firstErr' = FALSE
  /\ pages' = {}

Init ==
  /\ run = 0
  /\ force = FALSE
  /\ pc = "none"
  /\ target = 1
  /\ next = 0
  /\ producer = "done"
  /\ producerErr = FALSE
  /\ jobs = <<>>
  /\ results = <<>>
  /\ worker = [w \in Workers |-> Gone]
  /\ seen = {}
  /\ firstErr = FALSE
  /\ pages = {}
  /\ files = [f \in Files |-> 0]
  /\ temps = {}
  /\ forced = {}
  /\ crashed = {}

ReturnErrorOnly ==
  /\ pc' = "failed"
  /\ UNCHANGED temps

\* runGenerate returns an error: the deferred os.Remove calls delete its
\* temporary files.
ReturnError ==
  /\ pc' = "failed"
  /\ temps' = {t \in temps : t[1] # run}

Start(f) ==
  /\ pc \in Ended
  /\ run < MaxRuns
  /\ run' = run + 1
  /\ force' = f
  /\ pc' = "preflight"
  /\ target' = 1
  /\ forced' = IF f THEN forced \cup {run + 1} ELSE forced
  /\ UNCHANGED <<pipeVars, fileVars, crashed>>

\* preflightAtomicTargets, then the temporary page file is created and the
\* goroutines are started.
Preflight ==
  /\ pc = "preflight"
  /\ IF ~force /\ \E f \in Files : files[f] # 0
     THEN ReturnError /\ UNCHANGED pipeVars
     ELSE /\ pc' = "collect"
          /\ temps' = temps \cup {<<run, "dag">>}
          /\ NewPipeline
  /\ UNCHANGED <<run, force, target, files, history>>

-----------------------------------------------------------------------------
(* The goroutines of the pipeline *)

Collecting == pc = "collect"
jobsClosed == producer # "sending"
resultsClosed == producer = "done"

\* The index page, the model pages, the filler pages, in this order; a send
\* waits for room in the channel.
SendJob ==
  /\ Collecting
  /\ producer = "sending"
  /\ next < TotalPages
  /\ Len(jobs) < ChannelCap
  /\ jobs' = Append(jobs, next)
  /\ next' = next + 1
  /\ UNCHANGED <<mainVars, producer, producerErr, results, worker, seen, firstErr, pages, fileVars, history>>

\* All jobs are sent, and close(jobs).
CloseJobs ==
  /\ Collecting
  /\ producer = "sending"
  /\ next = TotalPages
  /\ producer' = "waiting"
  /\ UNCHANGED <<mainVars, next, producerErr, jobs, results, worker, seen, firstErr, pages, fileVars, history>>

\* enqueueModelJobs cannot open the model or read its next shard: the error goes
\* into producerErr, and close(jobs).
ModelReadError ==
  /\ Collecting
  /\ producer = "sending"
  /\ next = 1 \/ next \in 1..ModelPages
  /\ producerErr' = TRUE
  /\ producer' = "waiting"
  /\ UNCHANGED <<mainVars, next, jobs, results, worker, seen, firstErr, pages, fileVars, history>>

CloseWithoutWait ==
  /\ Collecting
  /\ producer = "waiting"
  /\ producer' = "done"
  /\ UNCHANGED <<mainVars, next, producerErr, jobs, results, worker, seen, firstErr, pages, fileVars, history>>

\* wg.Wait() returns: close(results), and close(producerErr).
CloseResults ==
  /\ Collecting
  /\ producer = "waiting"
  /\ \A w \in Workers : worker[w] = Gone
  /\ producer' = "done"
  /\ UNCHANGED <<mainVars, next, producerErr, jobs, results, worker, seen, firstErr, pages, fileVars, history>>

WorkerGoes(w, to) == worker' = [worker EXCEPT ![w] = to]

TakeJob(w) ==
  /\ Collecting
  /\ worker[w] = Idle
  /\ jobs # <<>>
  /\ WorkerGoes(w, Building(Head(jobs)))
  /\ jobs' = Tail(jobs)
  /\ UNCHANGED <<mainVars, next, producer, producerErr, results, seen, firstErr, pages, fileVars, history>>

\* buildUnifiedPage returns a page or an error, or panics and is recovered.
BuildPage(w) ==
  /\ Collecting
  /\ worker[w].at = "building"
  /\ \E ok \in BOOLEAN : WorkerGoes(w, Sending(worker[w].page, ok))
  /\ UNCHANGED <<mainVars, next, producer, producerErr, jobs, results, seen, firstErr, pages, fileVars, history>>

SendResult(w) ==
  /\ Collecting
  /\ worker[w].at = "sending"
  /\ Len(results) < ChannelCap
  /\ results' = Append(results, [page |-> worker[w].page, ok |-> worker[w].ok])
  /\ WorkerGoes(w, Idle)
  /\ UNCHANGED <<mainVars, next, producer, producerErr, jobs, seen, firstErr, pages, fileVars, history>>

\* No more jobs: wg.Done().
WorkerExit(w) ==
  /\ Collecting
  /\ worker[w] = Idle
  /\ jobs = <<>> /\ jobsClosed
  /\ WorkerGoes(w, Gone)
  /\ UNCHANGED <<mainVars, next, producer, producerErr, jobs, results, seen, firstErr, pages, fileVars, history>>

-----------------------------------------------------------------------------
(* The collector *)

CollectUncheckedWrite ==
  /\ Collecting
  /\ results # <<>>
  /\ results' = Tail(results)
  /\ LET res == Head(results) IN
     IF ~res.ok \/ res.page \in seen
     THEN firstErr' = TRUE /\ UNCHANGED <<seen, pages>>
     ELSE /\ pages' \in {pages, pages \cup {res.page}}
          /\ seen' = seen \cup {res.page}
          /\ UNCHANGED firstErr
  /\ UNCHANGED <<mainVars, next, producer, producerErr, jobs, worker, fileVars, history>>

CollectUntilError ==
  /\ Collecting
  /\ results # <<>>
  /\ ~firstErr
  /\ results' = Tail(results)
  /\ LET res == Head(results) IN
     \/ /\ ~res.ok \/ res.page \in seen
        /\ firstErr' = TRUE
        /\ UNCHANGED <<seen, pages>>
     \/ /\ res.ok /\ res.page \notin seen
        /\ pages' = pages \cup {res.page}
        /\ seen' = seen \cup {res.page}
        /\ UNCHANGED firstErr
  /\ UNCHANGED <<mainVars, next, producer, producerErr, jobs, worker, fileVars, history>>

\* A result is received: an error, a page seen before or a failing WriteAt sets
\* firstErr (a built page passes strictValidateBuiltPage); the loop goes on.
Collect ==
  /\ Collecting
  /\ results # <<>>
  /\ results' = Tail(results)
  /\ LET res == Head(results) IN
     \/ /\ firstErr' = TRUE
        /\ UNCHANGED <<seen, pages>>
     \/ /\ res.ok /\ res.page \notin seen
        /\ pages' = pages \cup {res.page}
        /\ seen' = seen \cup {res.page}
        /\ UNCHANGED firstErr
  /\ UNCHANGED <<mainVars, next, producer, producerErr, jobs, worker, fileVars, history>>

\* results is closed and empty: return the producer's or the first error, or a
\* "strict page commit failed", or sync and close the page file.
EndCollect ==
  /\ Collecting
  /\ results = <<>> /\ resultsClosed
  /\ IF producerErr \/ firstErr \/ Cardinality(seen) # TotalPages
     THEN ReturnError
     ELSE pc' = "sidecar" /\ UNCHANGED temps
  /\ UNCHANGED <<run, force, target, pipeVars, files, history>>

\* computeRootsFromFile reads and checks every page, and validateRootsNonEmpty
\* refuses a DAG without model pages; then the sidecar is built from the same
\* pages into its temporary file.
BuildSidecar ==
  /\ pc = "sidecar"
  /\ IF pages = Pages /\ ModelPages > 0
     THEN pc' = "clear" /\ temps' = temps \cup {<<run, "sidecar">>}
     ELSE ReturnError
  /\ UNCHANGED <<run, force, target, pipeVars, files, history>>

-----------------------------------------------------------------------------
(* The commit *)

CommitManifestFirst == <<"meta", "dag", "sidecar">>

\* The order in which the files get their final names.
CommitOrder == <<"dag", "sidecar", "meta">>

Target == CommitOrder[target]

\* writeFileAtomic writes the manifest into a temporary file of its own.
WriteManifest ==
  /\ pc = "manifest"
  /\ IF ~force /\ files["meta"] # 0
     THEN ReturnError
     ELSE pc' = "clear" /\ temps' = temps \cup {<<run, "meta">>}
  /\ UNCHANGED <<run, force, target, pipeVars, files, history>>

\* commitAtomicPath, first half: the final name must be free, or with --force
\* what has it is removed.
Clear ==
  /\ pc = "clear"
  /\ IF ~force /\ files[Target] # 0
     THEN ReturnError /\ UNCHANGED files
     ELSE /\ pc' = "rename"
          /\ files' = [files EXCEPT ![Target] = 0]
          /\ UNCHANGED temps
  /\ UNCHANGED <<run, force, target, pipeVars, history>>

NextTarget ==
  IF target < 3
  THEN /\ target' = target + 1
       /\ pc' = IF CommitOrder[target + 1] = "meta" THEN "manifest" ELSE "clear"
  ELSE UNCHANGED target /\ pc' \in {"verify", "done"}

RenameUnchecked ==
  /\ pc = "rename"
  /\ files' \in {files, [files EXCEPT ![Target] = run]}
  /\ temps' = temps \ {<<run, Target>>}
  /\ NextTarget
  /\ UNCHANGED <<run, force, pipeVars, history>>

\* commitAtomicPath, second half.  After the last file the run is a success, or
\* it goes on to verify, as cfg.Verify says.
Rename ==
  /\ pc = "rename"
  /\ files' = [files EXCEPT ![Target] = run]
  /\ temps' = temps \ {<<run, Target>>}
  /\ NextTarget
  /\ UNCHANGED <<run, force, pipeVars, history>>

\* verifyDagAgainstManifest: page file and sidecar must have the manifest's roots.
Verify ==
  /\ pc = "verify"
  /\ IF \A f \in Files : files[f] # 0 /\ files[f] = files["meta"]
     THEN pc' = "done" /\ UNCHANGED temps
     ELSE ReturnError
  /\ UNCHANGED <<run, force, target, pipeVars, files, history>>

\* A file operation of main fails, at any statement outside the collecting loop.
FileError ==
  /\ pc \in Running \ {"collect"}
  /\ ReturnError
  /\ UNCHANGED <<run, force, target, pipeVars, files, history>>

\* The process is killed: goroutines vanish, files stay.
Crash ==
  /\ pc \in Running
  /\ pc' = "crashed"
  /\ crashed' = crashed \cup {run}
  /\ UNCHANGED <<run, force, target, pipeVars, fileVars, forced>>

Step ==
  \/ Preflight
  \/ SendJob \/ CloseJobs \/ ModelReadError \/ CloseResults
  \/ \E w \in Workers : TakeJob(w) \/ BuildPage(w) \/ SendResult(w) \/ WorkerExit(w)
  \/ Collect \/ EndCollect
  \/ BuildSidecar \/ WriteManifest \/ Clear \/ Rename \/ Verify
  \/ FileError

Next ==
  \/ \E f \in BOOLEAN : Start(f)
  \/ Step
  \/ Crash

Spec == Init /\ [][Next]_vars

\* As long as some goroutine of the process can go on, one does.
FairSpec == Spec /\ WF_vars(Step)

-----------------------------------------------------------------------------
(* Properties *)

\* The collector only accepts a complete page file: when main goes on to the
\* roots, every page was built, written once and counted, whatever failed in
\* producer, workers and writes, and in whatever order the results came.
AcceptedIsComplete ==
  pc \in {"sidecar", "manifest", "clear", "rename", "verify", "done"} => pages = Pages

\* results is closed only when no worker can send on it any more (a send on a
\* closed channel panics outside the recovered function).
ClosedAfterLastSend == resultsClosed => \A w \in Workers : worker[w] = Gone

\* The manifest is the commit point.  A page file or sidecar that does not belong
\* to the manifest is the trace of a later run with --force that did not end.
ManifestIsCommitPoint ==
  files["meta"] # 0 =>
    \A f \in Files : files[f] # files["meta"] =>
      \E r \in forced : r > files["meta"] /\ files[f] \in {0, r}

\* A run that reports success has published its three files and left nothing else,
\* also after runs that crashed or failed half-way.
SuccessPublishes ==
  pc = "done" => /\ \A f \in Files : files[f] = run
                 /\ \A t \in temps : t[1] # run

\* Only a crash leaves temporary files behind.
TempsOnlyAfterCrash == \A t \in temps : t[1] \in crashed \/ (t[1] = run /\ pc \in Running)

\* Generation comes to an end: with full channels, errors in workers or collector,
\* or a producer that gives up, nobody waits for ever.
GenerateEnds == pc \in Running ~> pc \in Ended
=============================================================================
