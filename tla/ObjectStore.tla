----------------------------- MODULE ObjectStore -----------------------------
(***************************************************************************)
(* The content-addressed store of internal/storage/store.go, in which a    *)
(* node keeps its finalized blocks and a miner its AISeal proofs, and from *)
(* which GET /v1/objects/{hash} and GET /v1/proofs/{hash} are answered.    *)
(*                                                                         *)
(* An object is identified with its SHA-256 id.  Put keeps it in memory    *)
(* and, given a directory, in a file of that name, which writeAtomic       *)
(* writes under a temporary name first.  Several calls run at once: the    *)
(* lock covers the map only, so every file operation is a step of its own  *)
(* and may fail.                                                           *)
(*                                                                         *)
(* Faults.  The process may end at any step, the machine may lose power,   *)
(* and a file may decay.  A process that ends leaves the files as they     *)
(* are.  When power is lost, data that was not synced may be lost in part, *)
(* and so may a name given since the last start, as nothing syncs the      *)
(* directory.  Temporary files that are left are never read again, and not *)
(* modelled.                                                               *)
(*                                                                         *)
(* FileGoodUnhashed, SyncSkipped and StatLoosely are faulty versions of    *)
(* the definitions after them and not part of the specification (see       *)
(* README).                                                                *)
(***************************************************************************)
EXTENDS Integers

CONSTANTS
  Objects,     \* what is put, each identified with its id
  Size,        \* Size[o]: number of bytes
  MaxBytes,    \* the store's maxBytes
  Callers,     \* the goroutines that use the store
  MaxFaults,   \* bound: how often the process ends, power fails or a file decays
  Partial,     \* the content of a file that was not written to its end
  Decayed,     \* the content of a file that has been altered on disk
  Nothing      \* no file, no object, no answer

ASSUME StoreAssumption ==
  /\ Size \in [Objects -> Nat]
  /\ MaxBytes \in Nat \ {0}
  /\ MaxFaults \in Nat
  /\ Partial \notin Objects /\ Decayed \notin Objects /\ Nothing \notin Objects
  /\ Decayed # Nothing

VARIABLES
  dir,      \* whether the store has a directory
  memory,   \* memory[o]: the entry of Store.objects for id o
  file,     \* file[o]: the content of the file with the name o
  synced,   \* the files whose content is on the disk, too
  stable,   \* stable[o]: the content of the file that has the name o on the disk
  call,     \* call[c]: the call that c makes: its step, its object, its buffer
  acked,    \* the objects whose Put has succeeded, as far as they must still be there
  faults    \* how many faults there have been

disk == <<file, synced, stable>>
vars == <<dir, memory, disk, call, acked, faults>>

Contents == Objects \cup {Partial, Decayed, Nothing}
PutSteps == {"create", "write", "sync", "close", "stat", "rename"}
Call == [step : PutSteps \cup {"ready", "read", "cache"}, object : Objects \cup {Nothing},
         data : Contents, durable : BOOLEAN]
Ready == [step |-> "ready", object |-> Nothing, data |-> Nothing, durable |-> FALSE]

TypeOK ==
  /\ dir \in BOOLEAN
  /\ memory \in [Objects -> Contents]
  /\ file \in [Objects -> Contents]
  /\ synced \subseteq Objects
  /\ stable \in [Objects -> Contents]
  /\ call \in [Callers -> Call]
  /\ acked \subseteq Objects
  /\ faults \in 0..MaxFaults

Init ==
  /\ dir \in BOOLEAN
  /\ memory = [o \in Objects |-> Nothing]
  /\ file = [o \in Objects |-> Nothing]
  /\ synced = {}
  /\ stable = [o \in Objects |-> Nothing]
  /\ call = [c \in Callers |-> Ready]
  /\ acked = {}
  /\ faults = 0

-----------------------------------------------------------------------------
(* Put *)

Storable(o) == Size[o] > 0 /\ Size[o] <= MaxBytes

Goto(c, step) == call' = [call EXCEPT ![c].step = step]

\* The call returns; for writeAtomic, with its deferred removal of the temporary
\* file.
Return(c) == call' = [call EXCEPT ![c] = Ready]

\* Put up to writeAtomic: the object is in memory before it is in its file.
Put(c, o) ==
  /\ call[c] = Ready
  /\ Storable(o)
  /\ memory' = [memory EXCEPT ![o] = o]
  /\ IF dir
     THEN /\ call' = [call EXCEPT ![c] = [Ready EXCEPT !.step = "create", !.object = o]]
          /\ UNCHANGED acked
     ELSE acked' = acked \cup {o} /\ UNCHANGED call
  /\ UNCHANGED <<dir, disk, faults>>

\* writeAtomic step by step; data and durable are about the temporary file.
CreateTemp(c) ==
  /\ call[c].step = "create"
  /\ Goto(c, "write")
  /\ UNCHANGED <<dir, memory, disk, acked, faults>>

Write(c) ==
  /\ call[c].step = "write"
  /\ call' = [call EXCEPT ![c].step = "sync", ![c].data = call[c].object]
  /\ UNCHANGED <<dir, memory, disk, acked, faults>>

SyncSkipped(c) ==
  /\ call[c].step = "sync"
  /\ Goto(c, "close")
  /\ UNCHANGED <<dir, memory, disk, acked, faults>>

Sync(c) ==
  /\ call[c].step = "sync"
  /\ call' = [call EXCEPT ![c].step = "close", ![c].durable = TRUE]
  /\ UNCHANGED <<dir, memory, disk, acked, faults>>

Close(c) ==
  /\ call[c].step = "close"
  /\ Goto(c, "stat")
  /\ UNCHANGED <<dir, memory, disk, acked, faults>>

\* A Stat that takes every error but "does not exist" for success.
StatLoosely(c) ==
  /\ call[c].step = "stat"
  /\ \/ file[call[c].object] = Nothing /\ Goto(c, "rename") /\ UNCHANGED acked
     \/ Return(c) /\ acked' = acked \cup {call[c].object}
  /\ UNCHANGED <<dir, memory, disk, faults>>

\* A file of that name is taken for the object, whatever is in it.  Stat may
\* fail although there is one.
Stat(c) ==
  /\ call[c].step = "stat"
  /\ \/ Goto(c, "rename") /\ UNCHANGED acked
     \/ /\ file[call[c].object] # Nothing
        /\ Return(c)
        /\ acked' = acked \cup {call[c].object}
  /\ UNCHANGED <<dir, memory, disk, faults>>

Rename(c) ==
  LET o == call[c].object
  IN /\ call[c].step = "rename"
     /\ file' = [file EXCEPT ![o] = call[c].data]
     /\ synced' = IF call[c].durable THEN synced \cup {o} ELSE synced \ {o}
     /\ acked' = acked \cup {o}
     /\ Return(c)
     /\ UNCHANGED <<dir, memory, stable, faults>>

\* Any of these operations fails: Put returns the error, and the object stays in
\* memory.
PutFails(c) ==
  /\ call[c].step \in PutSteps \ {"stat"}
  /\ Return(c)
  /\ UNCHANGED <<dir, memory, disk, acked, faults>>

-----------------------------------------------------------------------------
(* Get *)

\* Get of a normalised id that is not in memory.  (An answer from memory, and the
\* "not found" to a name that is no id or to a store without directory, change
\* nothing.)
Get(c, o) ==
  /\ call[c] = Ready
  /\ memory[o] = Nothing
  /\ dir
  /\ call' = [call EXCEPT ![c] = [Ready EXCEPT !.step = "read", !.object = o]]
  /\ UNCHANGED <<dir, memory, disk, acked, faults>>

FileGoodUnhashed(o) == file[o] # Nothing

\* The file is there and not too long, and its content has the hash o.
FileGood(o) == file[o] # Nothing /\ Size[o] <= MaxBytes /\ file[o] = o

Read(c) ==
  /\ call[c].step = "read"
  /\ IF FileGood(call[c].object)
     THEN call' = [call EXCEPT ![c].step = "cache", ![c].data = file[call[c].object]]
     ELSE Return(c)
  /\ UNCHANGED <<dir, memory, disk, acked, faults>>

\* The content is kept in memory and returned.
Cache(c) ==
  /\ call[c].step = "cache"
  /\ memory' = [memory EXCEPT ![call[c].object] = call[c].data]
  /\ Return(c)
  /\ UNCHANGED <<dir, disk, acked, faults>>

-----------------------------------------------------------------------------
(* Faults *)

Fault == faults < MaxFaults /\ faults' = faults + 1

\* New: an empty map, and the files as they are.  Without a directory nothing is
\* left.
Restart ==
  /\ Fault
  /\ memory' = [o \in Objects |-> Nothing]
  /\ call' = [c \in Callers |-> Ready]
  /\ acked' = IF dir THEN acked ELSE {}
  /\ UNCHANGED <<dir, disk>>

\* A new name may be lost with the power, and content that was not synced.
AfterPowerLoss(o) ==
  {stable[o], file[o]} \cup (IF o \in synced \/ file[o] = Nothing THEN {} ELSE {Partial})

LosePower ==
  /\ Fault
  /\ memory' = [o \in Objects |-> Nothing]
  /\ call' = [c \in Callers |-> Ready]
  /\ file' \in {f \in [Objects -> Contents] : \A o \in Objects : f[o] \in AfterPowerLoss(o)}
  /\ stable' = file'
  /\ synced' = {o \in Objects : file'[o] # Nothing}
  /\ acked' = {o \in acked : stable[o] # Nothing}
  /\ UNCHANGED dir

Decay(o) ==
  /\ Fault
  /\ file[o] # Nothing
  /\ file' = [file EXCEPT ![o] = Decayed]
  /\ stable' = [stable EXCEPT ![o] = IF @ = Nothing THEN @ ELSE Decayed]
  /\ UNCHANGED <<dir, memory, synced, call, acked>>

WriteAtomic(c) == CreateTemp(c) \/ Write(c) \/ Sync(c) \/ Close(c) \/ Stat(c) \/ Rename(c)

Next ==
  \/ \E c \in Callers, o \in Objects : Put(c, o) \/ Get(c, o)
  \/ \E c \in Callers : WriteAtomic(c) \/ PutFails(c) \/ Read(c) \/ Cache(c)
  \/ Restart \/ LosePower \/ \E o \in Objects : Decay(o)

Spec == Init /\ [][Next]_vars

-----------------------------------------------------------------------------
(* Properties *)

\* Whatever happened to the files, Get answers with the object of that id: from
\* memory, which calls fill from their own data and from the disk, or from what it
\* has just read.
GetIsGenuine ==
  /\ \A o \in Objects : memory[o] \in {o, Nothing}
  /\ \A c \in Callers : call[c].step = "cache" => call[c].data = call[c].object

\* "Atomic writes": under the name of an object there is the whole object or no
\* file, also after a loss of power between any two steps of calls that write the
\* same object, unless the disk has altered it.
FileIsWhole == \A o \in Objects : file[o] \in {o, Decayed, Nothing}

Found(o) == memory[o] # Nothing \/ (dir /\ FileGood(o))

\* A Put that has succeeded is found by every Get from then on, also after a
\* restart, whoever else puts the object or fails to.  Exceptions: a store without
\* directory forgets, the loss of power may take a new name away, and a file that
\* has decayed stays, because the next Put of its object takes it for good.
PutIsKept == \A o \in acked : Found(o) \/ file[o] = Decayed
=============================================================================
