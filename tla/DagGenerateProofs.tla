-------------------------- MODULE DagGenerateProofs --------------------------
(***************************************************************************)
(* What a run of the generator guarantees, for any number of pages,        *)
(* workers and runs, any channel capacity, and every failure and crash.    *)
(***************************************************************************)
EXTENDS DagGenerate, FiniteSetTheorems, TLAPS

\* A page is counted when it has been written, and only then.
Counting == seen = pages

\* Which files have their final names, and whose they are.  Nobody but a run with
\* --force touches the files of an earlier one, and while it does, its own are
\* put in place in the commit order.
Committing ==
  /\ \A f \in Files : files[f] <= run
  /\ pc \in Running => run > 0
  /\ force => run \in forced
  /\ pc \in Running \ {"verify"} => files["meta"] < run
  /\ pc \in {"collect", "sidecar", "manifest", "clear", "rename"} /\ ~force => files["meta"] = 0
  /\ pc \in {"preflight", "collect", "sidecar"} => target = 1
  /\ pc = "manifest" => target = 3
  /\ pc \in {"manifest", "clear", "rename"} =>
       /\ target > 1 => files["dag"] = run
       /\ target > 2 => files["sidecar"] = run
  /\ pc \in {"verify", "done"} => \A f \in Files : files[f] = run

\* The temporary files of the present run: those of the files that are built and
\* not yet committed.
OwnTemps ==
  /\ \A t \in temps : t[1] <= run
  /\ \A f \in Files : <<run, f>> \in temps =>
       \/ pc = "crashed"
       \/ pc \in {"collect", "sidecar"} /\ f = "dag"
       \/ pc \in {"clear", "rename"} /\ f = "dag" /\ target = 1
       \/ pc \in {"clear", "rename"} /\ f = "sidecar" /\ target \in {1, 2}
       \/ pc \in {"clear", "rename"} /\ f = "meta" /\ target = 3

Inv ==
  /\ TypeOK
  /\ Counting
  /\ AcceptedIsComplete
  /\ ClosedAfterLastSend
  /\ Committing
  /\ ManifestIsCommitPoint
  /\ OwnTemps
  /\ TempsOnlyAfterCrash

-----------------------------------------------------------------------------
\* As many different pages as there are is all of them.
LEMMA PagesCounted ==
  /\ IsFiniteSet(Pages) /\ Cardinality(Pages) = TotalPages
  /\ \A S \in SUBSET Pages : Cardinality(S) = TotalPages => S = Pages
<1>1. IsFiniteSet(Pages) /\ Cardinality(Pages) = TotalPages
      BY DagAssumption, FS_Interval DEF Pages
<1> QED BY <1>1, FS_Subset

\* The first element of a channel, and the rest.
LEMMA FirstOf ==
  ASSUME NEW S, NEW q \in Seq(S), q # <<>>
  PROVE  Head(q) \in S /\ Tail(q) \in Seq(S)
  OBVIOUS

\* What a worker may be doing.
WorkerStates ==
  {Idle, Gone} \cup {Building(p) : p \in Pages} \cup {Sending(p, ok) : p \in Pages, ok \in BOOLEAN}

-----------------------------------------------------------------------------
(* The goroutines of the pipeline *)

\* What the pipeline has to preserve; it runs while main is collecting and leaves
\* main's variables and the files alone.
PipeStep ==
  \/ SendJob \/ CloseJobs \/ ModelReadError \/ CloseResults
  \/ \E w \in Workers : TakeJob(w) \/ BuildPage(w) \/ SendResult(w) \/ WorkerExit(w)
  \/ Collect

\* The pipeline leaves main and the files alone.
LEMMA PipeLeavesMain ==
  PipeStep => pc = "collect" /\ UNCHANGED <<mainVars, fileVars, history>>
  BY DEF PipeStep, SendJob, CloseJobs, ModelReadError, CloseResults, TakeJob, BuildPage, SendResult,
         WorkerExit, Collect, Collecting

PipeType ==
  /\ next \in 0..TotalPages
  /\ producer \in {"sending", "waiting", "done"}
  /\ producerErr \in BOOLEAN
  /\ jobs \in Seq(Pages)
  /\ results \in Seq([page : Pages, ok : BOOLEAN])
  /\ worker \in [Workers -> WorkerStates]
  /\ seen \subseteq Pages
  /\ firstErr \in BOOLEAN
  /\ pages \subseteq Pages

MainType ==
  /\ run \in 0..MaxRuns
  /\ force \in BOOLEAN
  /\ pc \in Running \cup Ended
  /\ target \in 1..3
  /\ files \in [Files -> 0..MaxRuns]
  /\ temps \subseteq (1..MaxRuns) \X Files
  /\ forced \subseteq 1..MaxRuns
  /\ crashed \subseteq 1..MaxRuns

\* The types of the pipeline and of main.
LEMMA TypeParts == TypeOK <=> PipeType /\ MainType
  BY DEF TypeOK, PipeType, MainType, WorkerStates

\* The same of the next state.
LEMMA TypePartsNext == TypeOK' <=> PipeType' /\ MainType'
  BY DEF TypeOK, PipeType, MainType, WorkerStates

\* The pages are counted as they are written, and results is closed by the last
\* worker's leave.
LEMMA PipeInv ==
  ASSUME PipeType, Counting, ClosedAfterLastSend, PipeStep
  PROVE  PipeType' /\ Counting' /\ ClosedAfterLastSend'
<1> USE DEF PipeType, Counting, ClosedAfterLastSend, resultsClosed
<1>0. Gone \in WorkerStates /\ Idle \in WorkerStates
      BY DEF WorkerStates
<1>1. CASE SendJob
  <2>1. next \in Pages
        BY <1>1, DagAssumption DEF SendJob, Pages
  <2>2. jobs' \in Seq(Pages) /\ next' \in 0..TotalPages
        BY <1>1, <2>1, DagAssumption DEF SendJob, Pages
  <2> QED BY <1>1, <2>2 DEF SendJob
<1>2. CASE CloseJobs
      BY <1>2 DEF CloseJobs
<1>3. CASE ModelReadError
      BY <1>3 DEF ModelReadError
<1>4. CASE CloseResults
      BY <1>4 DEF CloseResults
<1>5. ASSUME NEW w \in Workers, TakeJob(w) PROVE PipeType' /\ Counting' /\ ClosedAfterLastSend'
  <2>1. Head(jobs) \in Pages /\ Tail(jobs) \in Seq(Pages)
        BY <1>5 DEF TakeJob
  <2>2. Building(Head(jobs)) \in WorkerStates
        BY <2>1 DEF WorkerStates
  <2>3. worker' \in [Workers -> WorkerStates]
        BY <1>5, <2>2 DEF TakeJob, WorkerGoes
  <2>4. producer # "done"
        BY <1>5 DEF TakeJob, Idle, Gone
  <2> QED BY <1>5, <2>1, <2>3, <2>4 DEF TakeJob
<1>6. ASSUME NEW w \in Workers, BuildPage(w) PROVE PipeType' /\ Counting' /\ ClosedAfterLastSend'
  <2>1. worker[w].page \in Pages
        BY <1>6 DEF BuildPage, WorkerStates, Idle, Gone, Building, Sending
  <2>2. PICK ok \in BOOLEAN : WorkerGoes(w, Sending(worker[w].page, ok))
        BY <1>6 DEF BuildPage
  <2>3. Sending(worker[w].page, ok) \in WorkerStates
        BY <2>1 DEF WorkerStates
  <2>4. worker' \in [Workers -> WorkerStates]
        BY <2>2, <2>3 DEF WorkerGoes
  <2>5. producer # "done"
        BY <1>6 DEF BuildPage, Gone
  <2> QED BY <1>6, <2>4, <2>5 DEF BuildPage
<1>7. ASSUME NEW w \in Workers, SendResult(w) PROVE PipeType' /\ Counting' /\ ClosedAfterLastSend'
  <2>1. worker[w].page \in Pages /\ worker[w].ok \in BOOLEAN
        BY <1>7 DEF SendResult, WorkerStates, Idle, Gone, Building, Sending
  <2>2. results' \in Seq([page : Pages, ok : BOOLEAN])
        BY <1>7, <2>1 DEF SendResult
  <2>3. worker' \in [Workers -> WorkerStates]
        BY <1>0, <1>7 DEF SendResult, WorkerGoes
  <2>4. producer # "done"
        BY <1>7 DEF SendResult, Gone
  <2> QED BY <1>7, <2>2, <2>3, <2>4 DEF SendResult
<1>8. ASSUME NEW w \in Workers, WorkerExit(w) PROVE PipeType' /\ Counting' /\ ClosedAfterLastSend'
  <2>1. worker' \in [Workers -> WorkerStates]
        BY <1>0, <1>8 DEF WorkerExit, WorkerGoes
  <2>2. producer # "done"
        BY <1>8 DEF WorkerExit, Idle, Gone
  <2> QED BY <1>8, <2>1, <2>2 DEF WorkerExit
<1>9. CASE Collect
  <2>0. Head(results) \in [page : Pages, ok : BOOLEAN]
        BY <1>9, FirstOf DEF Collect
  <2>1. Head(results).page \in Pages /\ Tail(results) \in Seq([page : Pages, ok : BOOLEAN])
        BY <1>9, <2>0 DEF Collect
  <2>2. results' \in Seq([page : Pages, ok : BOOLEAN])
        BY <1>9, <2>1 DEF Collect
  <2>3. seen' \subseteq Pages /\ pages' = seen' /\ firstErr' \in BOOLEAN
        BY <1>9, <2>1 DEF Collect
  <2> QED BY <1>9, <2>2, <2>3 DEF Collect
<1> QED BY <1>1, <1>2, <1>3, <1>4, <1>5, <1>6, <1>7, <1>8, <1>9 DEF PipeStep

\* No generator has run yet.
LEMMA InitInv == Init => Inv
<1> SUFFICES ASSUME Init PROVE Inv
    OBVIOUS
<1>1. PipeType
  <2>1. worker \in [Workers -> WorkerStates]
        BY DEF Init, WorkerStates
  <2>2. jobs \in Seq(Pages) /\ results \in Seq([page : Pages, ok : BOOLEAN])
        BY DEF Init
  <2>3. producerErr \in BOOLEAN /\ firstErr \in BOOLEAN
        BY Zenon DEF Init
  <2>4. next \in 0..TotalPages
        BY DagAssumption DEF Init
  <2> QED BY <2>1, <2>2, <2>3, <2>4, Zenon DEF Init, PipeType
<1>2. MainType
  <2>1. files \in [Files -> 0..MaxRuns]
        BY DagAssumption DEF Init
  <2>2. run \in 0..MaxRuns /\ target \in 1..3
        BY DagAssumption DEF Init
  <2> QED BY <2>1, <2>2, Zenon DEF Init, MainType, Ended
<1>3. Counting /\ ClosedAfterLastSend /\ AcceptedIsComplete
      BY DEF Init, Counting, ClosedAfterLastSend, AcceptedIsComplete
<1>4. Committing /\ ManifestIsCommitPoint
      BY DEF Init, Committing, ManifestIsCommitPoint, Files, Running
<1>5. OwnTemps /\ TempsOnlyAfterCrash
      BY DEF Init, OwnTemps, TempsOnlyAfterCrash
<1> QED BY <1>1, <1>2, <1>3, <1>4, <1>5, TypeParts DEF Inv

-----------------------------------------------------------------------------
(* Main *)

FileInv == MainType /\ Committing /\ ManifestIsCommitPoint /\ OwnTemps /\ TempsOnlyAfterCrash

\* runGenerate returns an error from any statement: its temporary files are gone
\* and the files that have their final names stay.
LEMMA ReturnErrorInv ==
  ASSUME FileInv, pc \in Running, ReturnError, UNCHANGED <<run, force, target, files, history>>
  PROVE  FileInv'
<1> USE DEF FileInv, history
<1>1. MainType'
      BY DEF MainType, ReturnError, Ended
<1>2. Committing'
      BY DEF Committing, ReturnError, Running
<1>3. ManifestIsCommitPoint'
      BY DEF ManifestIsCommitPoint
<1>4. OwnTemps'
      BY DEF OwnTemps, ReturnError
<1>5. TempsOnlyAfterCrash'
      BY DEF TempsOnlyAfterCrash, ReturnError
<1> QED BY <1>1, <1>2, <1>3, <1>4, <1>5

\* A step of main that leaves the files alone and may make the temporary file f.
LEMMA BuildStep ==
  ASSUME FileInv, NEW f \in Files, pc \in Running \ {"rename", "verify"},
         temps' = temps \cup {<<run, f>>}, UNCHANGED <<run, force, target, files, history>>,
         \/ pc = "preflight" /\ pc' = "collect" /\ f = "dag" /\ (~force => files["meta"] = 0)
         \/ pc = "sidecar" /\ pc' = "clear" /\ f = "sidecar"
         \/ pc = "manifest" /\ pc' = "clear" /\ f = "meta"
  PROVE  FileInv'
<1> USE DEF FileInv, history
<1>0. run \in 1..MaxRuns
      BY DagAssumption DEF MainType, Committing, Files
<1>1. MainType'
      BY <1>0 DEF MainType, Running
<1>2. Committing'
      BY DEF Committing, Running
<1>3. ManifestIsCommitPoint'
      BY DEF ManifestIsCommitPoint
<1>4. OwnTemps'
      BY <1>0 DEF OwnTemps, Committing
<1>5. TempsOnlyAfterCrash'
      BY DEF TempsOnlyAfterCrash, Running
<1> QED BY <1>1, <1>2, <1>3, <1>4, <1>5

\* A generator starts.
LEMMA StartInv ==
  ASSUME FileInv, NEW f \in BOOLEAN, Start(f)
  PROVE  FileInv'
<1> USE DEF FileInv, fileVars
<1>0. run \in 0..MaxRuns /\ run + 1 \in 1..MaxRuns /\ run' = run + 1
      BY DagAssumption DEF Start, MainType
<1>1. MainType'
      BY <1>0 DEF Start, MainType, Running
<1>2. Committing'
      BY <1>0 DEF Start, Committing, MainType, Files
<1>3. ManifestIsCommitPoint'
      BY DEF Start, ManifestIsCommitPoint
<1>4. OwnTemps'
      BY <1>0 DEF Start, OwnTemps, MainType
<1>5. TempsOnlyAfterCrash'
      BY DEF Start, TempsOnlyAfterCrash, Running, Ended
<1> QED BY <1>1, <1>2, <1>3, <1>4, <1>5

\* A generator dies.
LEMMA CrashInv ==
  ASSUME FileInv, Crash
  PROVE  FileInv'
<1> USE DEF FileInv, fileVars
<1>0. run \in 1..MaxRuns
      BY DagAssumption DEF Crash, MainType, Committing
<1>1. MainType'
      BY <1>0 DEF Crash, MainType, Ended
<1>2. Committing'
      BY DEF Crash, Committing, Running
<1>3. ManifestIsCommitPoint'
      BY DEF Crash, ManifestIsCommitPoint
<1>4. OwnTemps'
      BY DEF Crash, OwnTemps
<1>5. TempsOnlyAfterCrash'
      BY DEF Crash, TempsOnlyAfterCrash
<1> QED BY <1>1, <1>2, <1>3, <1>4, <1>5

\* main removes what the output path holds.
LEMMA ClearInv ==
  ASSUME FileInv, Clear
  PROVE  FileInv'
<1> USE DEF FileInv, history
<1>0. pc = "clear" /\ pc \in Running
      BY DEF Clear, Running
<1>1. CASE ~force /\ files[Target] # 0
      BY <1>0, <1>1, ReturnErrorInv DEF Clear
<1>2. CASE ~(~force /\ files[Target] # 0)
  <2>1. /\ pc' = "rename" /\ files' = [files EXCEPT ![Target] = 0]
        /\ UNCHANGED <<run, force, target, temps, forced, crashed>>
        BY <1>2 DEF Clear
  <2>2. /\ target \in 1..3
        /\ target = 1 => Target = "dag"
        /\ target = 2 => Target = "sidecar"
        /\ target = 3 => Target = "meta"
        BY DEF MainType, Target, CommitOrder
  <2>3. Target \in Files
        BY <2>2 DEF Files
  <2>4. /\ files' \in [Files -> 0..MaxRuns] /\ files'[Target] = 0
        /\ \A f \in Files : f # Target => files'[f] = files[f]
        BY <2>1, <2>3, DagAssumption DEF MainType
  <2>5. MainType'
        BY <2>1, <2>4 DEF MainType, Running
  <2>6. Committing'
        BY <1>0, <2>1, <2>2, <2>4 DEF Committing, MainType, Files, Running
  <2>7. ManifestIsCommitPoint'
    <3> SUFFICES ASSUME files'["meta"] # 0, NEW f \in Files, files'[f] # files'["meta"]
                 PROVE  \E r \in forced' : r > files'["meta"] /\ files'[f] \in {0, r}
        BY DEF ManifestIsCommitPoint
    <3>1. Target # "meta" /\ files'["meta"] = files["meta"]
          BY <2>4 DEF Files
    <3>2. CASE f # Target
          BY <2>1, <2>4, <3>1, <3>2 DEF ManifestIsCommitPoint
    <3>3. CASE f = Target
      <4>1. files["meta"] # 0
            BY <3>1
      <4>2. run \in forced /\ files["meta"] < run
            BY <1>0, <4>1 DEF Committing, Running
      <4> QED BY <2>1, <2>4, <3>1, <3>3, <4>2 DEF MainType
    <3> QED BY <3>2, <3>3
  <2>8. OwnTemps'
        BY <1>0, <2>1 DEF OwnTemps
  <2>9. TempsOnlyAfterCrash'
        BY <1>0, <2>1 DEF TempsOnlyAfterCrash, Running
  <2> QED BY <2>5, <2>6, <2>7, <2>8, <2>9
<1> QED BY <1>1, <1>2

\* main renames a temporary file.
LEMMA RenameInv ==
  ASSUME FileInv, Rename
  PROVE  FileInv'
<1> USE DEF FileInv, history
<1>0. pc = "rename" /\ pc \in Running
      BY DEF Rename, Running
<1>1. /\ target \in 1..3
      /\ target = 1 => Target = "dag"
      /\ target = 2 => Target = "sidecar"
      /\ target = 3 => Target = "meta"
      /\ Target \in Files
      BY DEF MainType, Target, CommitOrder, Files
<1>2. /\ target = 1 => target' = 2 /\ pc' = "clear"
      /\ target = 2 => target' = 3 /\ pc' = "manifest"
      /\ target = 3 => target' = 3 /\ pc' \in {"verify", "done"}
      BY <1>1 DEF Rename, NextTarget, CommitOrder
<1>3. /\ temps' = temps \ {<<run, Target>>}
      /\ UNCHANGED <<run, force, forced, crashed>>
      BY DEF Rename
<1>4. run \in 0..MaxRuns /\ files' \in [Files -> 0..MaxRuns] /\ files'[Target] = run
      BY <1>1 DEF Rename, MainType
<1>5. \A f \in Files : f # Target => files'[f] = files[f]
      BY <1>1 DEF Rename, MainType
<1>6. MainType'
      BY <1>1, <1>2, <1>3, <1>4 DEF MainType, Running, Ended
<1>7. Committing'
  <2>1. \A f \in Files : files'[f] <= run'
        BY <1>3, <1>4, <1>5 DEF Committing
  <2>2. target # 3 => files'["meta"] = files["meta"]
        BY <1>1, <1>5 DEF Files
  <2>3. target = 3 => \A f \in Files : files'[f] = run
        BY <1>0, <1>1, <1>4, <1>5 DEF Committing, Files
  <2>4. /\ target = 1 => files'["dag"] = run
        /\ target = 2 => files'["dag"] = run /\ files'["sidecar"] = run
        BY <1>0, <1>1, <1>4, <1>5 DEF Committing, Files
  <2> QED BY <1>0, <1>1, <1>2, <1>3, <2>1, <2>2, <2>3, <2>4 DEF Committing, Running, Ended
<1>8. ManifestIsCommitPoint'
  <2> SUFFICES ASSUME files'["meta"] # 0, NEW f \in Files, files'[f] # files'["meta"]
               PROVE  \E r \in forced' : r > files'["meta"] /\ files'[f] \in {0, r}
      BY DEF ManifestIsCommitPoint
  <2>1. target # 3
        BY <1>0, <1>1, <1>4, <1>5 DEF Committing, Files
  <2>2. files'["meta"] = files["meta"]
        BY <1>1, <1>5, <2>1 DEF Files
  <2>3. CASE f # Target
        BY <1>3, <1>5, <2>2, <2>3 DEF ManifestIsCommitPoint
  <2>4. CASE f = Target
    <3>1. run \in forced /\ files["meta"] < run
          BY <1>0, <2>2 DEF Committing, Running
    <3> QED BY <1>3, <1>4, <2>2, <2>4, <3>1 DEF MainType
  <2> QED BY <2>3, <2>4
<1>9. OwnTemps'
      BY <1>0, <1>1, <1>2, <1>3 DEF OwnTemps
<1>10. TempsOnlyAfterCrash'
  <2> SUFFICES ASSUME NEW t \in temps' PROVE t[1] \in crashed' \/ (t[1] = run' /\ pc' \in Running)
      BY DEF TempsOnlyAfterCrash
  <2>1. t \in temps /\ t # <<run, Target>>
        BY <1>3
  <2>2. t[2] \in Files /\ t = <<t[1], t[2]>>
        BY <2>1 DEF MainType
  <2>3. CASE t[1] \in crashed
        BY <1>3, <2>3
  <2>4. CASE t[1] = run
    <3>1. <<run, t[2]>> \in temps /\ t[2] # Target
          BY <2>1, <2>2, <2>4
    <3>2. target # 3
          BY <1>0, <1>1, <2>2, <3>1 DEF OwnTemps, Files
    <3> QED BY <1>1, <1>2, <1>3, <2>4, <3>2 DEF Running
  <2> QED BY <2>1, <2>3, <2>4 DEF TempsOnlyAfterCrash
<1> QED BY <1>6, <1>7, <1>8, <1>9, <1>10

\* Every step of the process, and every crash, preserves the invariant.
LEMMA NextInv == Inv /\ [Next]_vars => Inv'
<1> SUFFICES ASSUME Inv, [Next]_vars PROVE Inv'
    OBVIOUS
<1>0. PipeType /\ FileInv /\ Counting /\ AcceptedIsComplete /\ ClosedAfterLastSend
      BY TypeParts DEF Inv, FileInv
<1> SUFFICES PipeType' /\ FileInv' /\ Counting' /\ AcceptedIsComplete' /\ ClosedAfterLastSend'
    BY TypePartsNext DEF Inv, FileInv
<1> DEFINE PipeGood == PipeType /\ Counting /\ ClosedAfterLastSend
<1>a. PipeGood /\ UNCHANGED pipeVars => PipeGood'
      BY DEF PipeType, Counting, ClosedAfterLastSend, resultsClosed, pipeVars
<1>b. ReturnError => AcceptedIsComplete'
      BY DEF ReturnError, AcceptedIsComplete
<1>1. ASSUME NEW f \in BOOLEAN, Start(f) PROVE PipeGood' /\ FileInv' /\ AcceptedIsComplete'
  <2>1. PipeGood' /\ FileInv'
        BY <1>0, <1>1, <1>a, StartInv DEF Start
  <2> QED BY <1>1, <2>1 DEF Start, AcceptedIsComplete
<1>2. CASE Preflight
  <2>1. CASE ~force /\ \E f \in Files : files[f] # 0
    <3>1. /\ ReturnError /\ UNCHANGED <<run, force, target, files, history, pipeVars>>
          /\ pc \in Running
          BY <1>2, <2>1 DEF Preflight, Running
    <3> QED BY <1>0, <1>a, <1>b, <3>1, ReturnErrorInv
  <2>2. CASE ~(~force /\ \E f \in Files : files[f] # 0)
    <3>1. /\ pc = "preflight" /\ pc' = "collect" /\ temps' = temps \cup {<<run, "dag">>}
          /\ NewPipeline /\ UNCHANGED <<run, force, target, files, history>>
          BY <1>2, <2>2 DEF Preflight
    <3>2. ~force => files["meta"] = 0
          BY <2>2 DEF Files
    <3>3. FileInv'
          BY <1>0, <3>1, <3>2, BuildStep DEF Files, Running
    <3>4. PipeGood'
      <4>1. worker' \in [Workers -> WorkerStates]
            BY <3>1 DEF NewPipeline, WorkerStates
      <4>2. jobs' \in Seq(Pages) /\ results' \in Seq([page : Pages, ok : BOOLEAN])
            BY <3>1 DEF NewPipeline
      <4>3. producerErr' \in BOOLEAN /\ firstErr' \in BOOLEAN
            BY <3>1, Zenon DEF NewPipeline
      <4>4. next' \in 0..TotalPages
            BY <3>1, DagAssumption DEF NewPipeline
      <4>5. PipeType'
            BY <3>1, <4>1, <4>2, <4>3, <4>4, Zenon DEF NewPipeline, PipeType
      <4> QED BY <3>1, <4>5 DEF NewPipeline, Counting, ClosedAfterLastSend, resultsClosed
    <3> QED BY <3>1, <3>3, <3>4 DEF AcceptedIsComplete
  <2> QED BY <2>1, <2>2
<1>3. CASE PipeStep
  <2>1. PipeGood'
        BY <1>0, <1>3, PipeInv
  <2>2. pc = "collect" /\ UNCHANGED <<mainVars, fileVars, history>>
        BY <1>3, PipeLeavesMain
  <2>3. FileInv'
        BY <1>0, <2>2
        DEF FileInv, MainType, Committing, ManifestIsCommitPoint, OwnTemps, TempsOnlyAfterCrash,
            mainVars, fileVars, history
  <2> QED BY <2>1, <2>2, <2>3 DEF AcceptedIsComplete, mainVars
<1>4. CASE EndCollect
  <2>0. /\ pc = "collect" /\ pc \in Running
        /\ UNCHANGED <<run, force, target, files, history, pipeVars>>
        BY <1>4 DEF EndCollect, Collecting, Running
  <2>1. CASE ReturnError
        BY <1>0, <1>a, <1>b, <2>0, <2>1, ReturnErrorInv
  <2>2. CASE ~ReturnError
    <3>1. pc' = "sidecar" /\ UNCHANGED temps /\ Cardinality(seen) = TotalPages
          BY <1>4, <2>2 DEF EndCollect
    <3>2. pages = Pages
          BY <1>0, <3>1, PagesCounted DEF PipeType, Counting
    <3>3. FileInv'
          BY <1>0, <2>0, <3>1
          DEF FileInv, MainType, Committing, ManifestIsCommitPoint, OwnTemps, TempsOnlyAfterCrash,
              history, Running
    <3> QED BY <1>0, <1>a, <2>0, <3>2, <3>3 DEF AcceptedIsComplete, pipeVars
  <2> QED BY <2>1, <2>2
<1>5. CASE BuildSidecar
  <2>0. /\ pc = "sidecar" /\ pc \in Running
        /\ UNCHANGED <<run, force, target, files, history, pipeVars>>
        BY <1>5 DEF BuildSidecar, Running
  <2>1. CASE ReturnError
        BY <1>0, <1>a, <1>b, <2>0, <2>1, ReturnErrorInv
  <2>2. CASE ~ReturnError
    <3>1. pc' = "clear" /\ temps' = temps \cup {<<run, "sidecar">>}
          BY <1>5, <2>2 DEF BuildSidecar
    <3>2. FileInv'
          BY <1>0, <2>0, <3>1, BuildStep DEF Files
    <3> QED BY <1>0, <1>a, <2>0, <3>1, <3>2 DEF AcceptedIsComplete, pipeVars
  <2> QED BY <2>1, <2>2
<1>6. CASE WriteManifest
  <2>0. /\ pc = "manifest" /\ pc \in Running
        /\ UNCHANGED <<run, force, target, files, history, pipeVars>>
        BY <1>6 DEF WriteManifest, Running
  <2>1. CASE ReturnError
        BY <1>0, <1>a, <1>b, <2>0, <2>1, ReturnErrorInv
  <2>2. CASE ~ReturnError
    <3>1. pc' = "clear" /\ temps' = temps \cup {<<run, "meta">>}
          BY <1>6, <2>2 DEF WriteManifest
    <3>2. FileInv'
          BY <1>0, <2>0, <3>1, BuildStep DEF Files
    <3> QED BY <1>0, <1>a, <2>0, <3>1, <3>2 DEF AcceptedIsComplete, pipeVars
  <2> QED BY <2>1, <2>2
<1>7. CASE Clear
  <2>1. FileInv' /\ PipeGood'
        BY <1>0, <1>7, <1>a, ClearInv DEF Clear
  <2> QED BY <1>0, <1>7, <2>1 DEF Clear, AcceptedIsComplete, pipeVars
<1>8. CASE Rename
  <2>1. FileInv' /\ PipeGood'
        BY <1>0, <1>8, <1>a, RenameInv DEF Rename
  <2> QED BY <1>0, <1>8, <2>1 DEF Rename, AcceptedIsComplete, pipeVars
<1>9. CASE Verify
  <2>0. /\ pc = "verify" /\ pc \in Running
        /\ UNCHANGED <<run, force, target, files, history, pipeVars>>
        BY <1>9 DEF Verify, Running
  <2>1. CASE ReturnError
        BY <1>0, <1>a, <1>b, <2>0, <2>1, ReturnErrorInv
  <2>2. CASE ~ReturnError
    <3>1. pc' = "done" /\ UNCHANGED temps
          BY <1>9, <2>2 DEF Verify
    <3>2. MainType' /\ Committing' /\ ManifestIsCommitPoint'
          BY <1>0, <2>0, <3>1
          DEF FileInv, MainType, Committing, ManifestIsCommitPoint, history, Running, Ended
    <3>3. OwnTemps'
          BY <1>0, <2>0, <3>1 DEF FileInv, OwnTemps, history
    <3>4. TempsOnlyAfterCrash'
      <4>1. \A t \in temps : t = <<t[1], t[2]>> /\ t[2] \in Files
            BY <1>0 DEF FileInv, MainType
      <4>2. \A t \in temps : t[1] # run
            BY <1>0, <2>0, <4>1 DEF FileInv, OwnTemps
      <4> QED BY <1>0, <2>0, <3>1, <4>2 DEF FileInv, TempsOnlyAfterCrash, history
    <3> QED BY <1>0, <1>a, <2>0, <3>1, <3>2, <3>3, <3>4 DEF FileInv, AcceptedIsComplete, pipeVars
  <2> QED BY <2>1, <2>2
<1>10. CASE FileError
  <2>1. /\ ReturnError /\ UNCHANGED <<run, force, target, files, history, pipeVars>>
        /\ pc \in Running
        BY <1>10 DEF FileError
  <2> QED BY <1>0, <1>a, <1>b, <2>1, ReturnErrorInv
<1>11. CASE Crash
  <2>1. FileInv' /\ PipeGood'
        BY <1>0, <1>11, <1>a, CrashInv DEF Crash
  <2> QED BY <1>11, <2>1 DEF Crash, AcceptedIsComplete
<1>12. CASE UNCHANGED vars
      BY <1>0, <1>12
      DEF vars, mainVars, pipeVars, fileVars, history, PipeType, FileInv, MainType, Committing,
          ManifestIsCommitPoint, OwnTemps, TempsOnlyAfterCrash, Counting, ClosedAfterLastSend,
          AcceptedIsComplete, resultsClosed
<1> QED
    BY <1>1, <1>2, <1>3, <1>4, <1>5, <1>6, <1>7, <1>8, <1>9, <1>10, <1>11, <1>12
    DEF Next, Step, PipeStep

\* The inductive invariant holds in every reachable state.
THEOREM Invariance == Spec => []Inv
<1>1. Init => Inv
      BY InitInv
<1>2. Inv /\ [Next]_vars => Inv'
      BY NextInv
<1> QED BY <1>1, <1>2, PTL DEF Spec

\* The variables of the generator have their types.
THEOREM TypeCorrect == Spec => []TypeOK
<1>1. Inv => TypeOK
      BY DEF Inv
<1> QED BY <1>1, Invariance, PTL

\* Only a complete page file is accepted: for any number of pages and workers and
\* any order of results, main goes on only when every page has been built and
\* written.
THEOREM CompleteWhenAccepted == Spec => []AcceptedIsComplete
<1>1. Inv => AcceptedIsComplete
      BY DEF Inv
<1> QED BY <1>1, Invariance, PTL

\* The producer closes the results channel only when no worker will send on it.
THEOREM NoSendOnClosed == Spec => []ClosedAfterLastSend
<1>1. Inv => ClosedAfterLastSend
      BY DEF Inv
<1> QED BY <1>1, Invariance, PTL

\* The manifest is the commit point of any sequence of runs, failed, crashed or
\* successful: what does not belong to it is the trace of a later forced run.
THEOREM CommitPoint == Spec => []ManifestIsCommitPoint
<1>1. Inv => ManifestIsCommitPoint
      BY DEF Inv
<1> QED BY <1>1, Invariance, PTL

\* A run that reports success has published its three files and left no temporary
\* file.
THEOREM SuccessIsPublished == Spec => []SuccessPublishes
<1>1. Inv => SuccessPublishes
  <2> SUFFICES ASSUME Inv, pc = "done"
               PROVE  (\A f \in Files : files[f] = run) /\ \A t \in temps : t[1] # run
      BY DEF SuccessPublishes
  <2>1. \A t \in temps : t = <<t[1], t[2]>> /\ t[2] \in Files
        BY DEF Inv, TypeOK
  <2> QED BY <2>1 DEF Inv, Committing, OwnTemps
<1> QED BY <1>1, Invariance, PTL

\* Every temporary file on disk belongs to the running generator or to one that
\* was killed.
THEOREM NoTempsLeft == Spec => []TempsOnlyAfterCrash
<1>1. Inv => TempsOnlyAfterCrash
      BY DEF Inv
<1> QED BY <1>1, Invariance, PTL
=============================================================================
