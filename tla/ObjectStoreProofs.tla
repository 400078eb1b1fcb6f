-------------------------- MODULE ObjectStoreProofs --------------------------
(***************************************************************************)
(* The promises of the object store, for any objects, callers and number   *)
(* of faults.                                                              *)
(***************************************************************************)
EXTENDS ObjectStore, TLAPS

\* A temporary file that has been written holds the object, and one that has been
\* synced is durable; only storable objects get that far.
TempsGood ==
  \A c \in Callers :
    /\ call[c].step \in PutSteps => call[c].object \in Objects /\ Storable(call[c].object)
    /\ call[c].step \in {"sync", "close", "stat", "rename"} => call[c].data = call[c].object
    /\ call[c].step \in {"close", "stat", "rename"} => call[c].durable
    /\ call[c].step \in {"read", "cache"} => call[c].object \in Objects
    /\ call[c].step \in PutSteps => dir

\* What has a name is whole or decayed, there and on the disk, and is synced; a
\* store without directory has no files.
DiskGood ==
  \A o \in Objects :
    /\ file[o] \in {o, Decayed, Nothing}
    /\ stable[o] \in {o, Decayed, Nothing}
    /\ file[o] # Nothing => o \in synced
    /\ ~dir => file[o] = Nothing /\ stable[o] = Nothing

\* A successful Put has left a file, or an entry in the map if there are no files.
AckedKept ==
  \A o \in acked :
    /\ Storable(o)
    /\ IF dir THEN file[o] # Nothing ELSE memory[o] = o

Inv == TypeOK /\ TempsGood /\ DiskGood /\ AckedKept /\ GetIsGenuine

-----------------------------------------------------------------------------
\* The store is empty and nobody calls it.
LEMMA InitInv == Init => Inv
  BY StoreAssumption DEF Init, Inv, TypeOK, TempsGood, DiskGood, AckedKept, GetIsGenuine, Ready, Call,
         Contents, PutSteps

\* What a call may look like, and what becomes of it when nobody else's changes.
CallGood(k) ==
  /\ k \in Call
  /\ k.step \in PutSteps => dir /\ k.object \in Objects /\ Storable(k.object)
  /\ k.step \in {"sync", "close", "stat", "rename"} => k.data = k.object
  /\ k.step \in {"close", "stat", "rename"} => k.durable
  /\ k.step \in {"read", "cache"} => k.object \in Objects
  /\ k.step = "cache" => k.data = k.object

\* The invariant, with what it says of each call put together.
LEMMA CallsGood ==
  Inv <=> /\ TypeOK /\ DiskGood /\ AckedKept
          /\ \A o \in Objects : memory[o] \in {o, Nothing}
          /\ \A c \in Callers : CallGood(call[c])
  BY DEF Inv, TypeOK, TempsGood, GetIsGenuine, CallGood

\* The same of the next state.
LEMMA CallsGoodNext ==
  Inv' <=> /\ TypeOK' /\ DiskGood' /\ AckedKept'
           /\ \A o \in Objects : memory'[o] \in {o, Nothing}
           /\ \A c \in Callers : CallGood(call[c])'
  BY DEF Inv, TypeOK, TempsGood, GetIsGenuine, CallGood

\* A caller without a call is in order.
LEMMA ReadyGood == CallGood(Ready)
  BY DEF CallGood, Ready, Call, Contents, PutSteps

\* One call goes on to k and the others stay as they are.
LEMMA CallStep ==
  ASSUME Inv, NEW c \in Callers, NEW k, call' = [call EXCEPT ![c] = k], CallGood(k),
         UNCHANGED dir
  PROVE  /\ call' \in [Callers -> Call]
         /\ \A x \in Callers : CallGood(call[x])'
<1>1. call \in [Callers -> Call] /\ k \in Call
      BY DEF Inv, TypeOK, CallGood
<1>2. call'[c] = k /\ \A x \in Callers : x # c => call'[x] = call[x]
      BY <1>1
<1>3. \A x \in Callers : CallGood(call'[x])
      BY <1>2, CallsGood
<1> QED
    BY <1>1, <1>3 DEF CallGood

\* Every step of every call, and every fault, preserves the invariant.
LEMMA NextInv == Inv /\ [Next]_vars => Inv'
<1> SUFFICES ASSUME Inv, [Next]_vars PROVE Inv'
    OBVIOUS
<1> USE DEF disk
<1>0. /\ TypeOK /\ DiskGood /\ AckedKept
      /\ \A o \in Objects : memory[o] \in {o, Nothing}
      /\ \A c \in Callers : CallGood(call[c])
      BY CallsGood
<1>1. ASSUME NEW c \in Callers, NEW o \in Objects, Put(c, o) PROVE Inv'
  <2> DEFINE k == [Ready EXCEPT !.step = "create", !.object = o]
  <2>1. dir => CallGood(k)
        BY <1>1, ReadyGood DEF CallGood, Put, Ready, Call, PutSteps
  <2>2. /\ call' \in [Callers -> Call]
        /\ \A x \in Callers : CallGood(call[x])'
    <3>1. CASE dir
          BY <1>1, <2>1, <3>1, CallStep DEF Put
    <3>2. CASE ~dir
          BY <1>0, <1>1, <3>2 DEF Put, TypeOK, CallGood
    <3> QED BY <3>1, <3>2
  <2>3. /\ memory' \in [Objects -> Contents]
        /\ \A x \in Objects : memory'[x] \in {x, Nothing} /\ (memory[x] = x => memory'[x] = x)
        /\ memory'[o] = o
        BY <1>0, <1>1 DEF Put, TypeOK, Contents
  <2>4. AckedKept'
        BY <1>0, <1>1, <2>3 DEF Put, AckedKept, TypeOK, Storable
  <2>5. TypeOK' /\ DiskGood'
        BY <1>0, <1>1, <2>2, <2>3 DEF Put, TypeOK, DiskGood
  <2> QED BY <2>2, <2>3, <2>4, <2>5, CallsGoodNext
<1>2. ASSUME NEW c \in Callers, NEW o \in Objects, Get(c, o) PROVE Inv'
  <2> DEFINE k == [Ready EXCEPT !.step = "read", !.object = o]
  <2>1. CallGood(k) /\ call' = [call EXCEPT ![c] = k]
        BY <1>2, ReadyGood DEF Get, CallGood, Ready, Call, PutSteps
  <2>2. /\ call' \in [Callers -> Call]
        /\ \A x \in Callers : CallGood(call[x])'
        BY <1>2, <2>1, CallStep DEF Get
  <2> QED BY <1>0, <1>2, <2>2, CallsGoodNext DEF Get, TypeOK, DiskGood, AckedKept
<1>3. ASSUME NEW c \in Callers, CreateTemp(c) PROVE Inv'
  <2> DEFINE k == [call[c] EXCEPT !.step = "write"]
  <2>1. CallGood(k) /\ call' = [call EXCEPT ![c] = k]
        BY <1>0, <1>3 DEF CreateTemp, Goto, CallGood, Call, PutSteps, Contents, TypeOK
  <2>2. /\ call' \in [Callers -> Call]
        /\ \A x \in Callers : CallGood(call[x])'
        BY <1>3, <2>1, CallStep DEF CreateTemp
  <2> QED BY <1>0, <1>3, <2>2, CallsGoodNext DEF CreateTemp, TypeOK, DiskGood, AckedKept
<1>4. ASSUME NEW c \in Callers, Write(c) PROVE Inv'
  <2> DEFINE k == [call[c] EXCEPT !.step = "sync", !.data = call[c].object]
  <2>1. CallGood(k) /\ call' = [call EXCEPT ![c] = k]
        BY <1>0, <1>4 DEF Write, Goto, CallGood, Call, PutSteps, Contents, TypeOK
  <2>2. /\ call' \in [Callers -> Call]
        /\ \A x \in Callers : CallGood(call[x])'
        BY <1>4, <2>1, CallStep DEF Write
  <2> QED BY <1>0, <1>4, <2>2, CallsGoodNext DEF Write, TypeOK, DiskGood, AckedKept
<1>5. ASSUME NEW c \in Callers, Sync(c) PROVE Inv'
  <2> DEFINE k == [call[c] EXCEPT !.step = "close", !.durable = TRUE]
  <2>1. CallGood(k) /\ call' = [call EXCEPT ![c] = k]
        BY <1>0, <1>5 DEF Sync, Goto, CallGood, Call, PutSteps, Contents, TypeOK
  <2>2. /\ call' \in [Callers -> Call]
        /\ \A x \in Callers : CallGood(call[x])'
        BY <1>5, <2>1, CallStep DEF Sync
  <2> QED BY <1>0, <1>5, <2>2, CallsGoodNext DEF Sync, TypeOK, DiskGood, AckedKept
<1>6. ASSUME NEW c \in Callers, Close(c) PROVE Inv'
  <2> DEFINE k == [call[c] EXCEPT !.step = "stat"]
  <2>1. CallGood(k) /\ call' = [call EXCEPT ![c] = k]
        BY <1>0, <1>6 DEF Close, Goto, CallGood, Call, PutSteps, Contents, TypeOK
  <2>2. /\ call' \in [Callers -> Call]
        /\ \A x \in Callers : CallGood(call[x])'
        BY <1>6, <2>1, CallStep DEF Close
  <2> QED BY <1>0, <1>6, <2>2, CallsGoodNext DEF Close, TypeOK, DiskGood, AckedKept
<1>7. ASSUME NEW c \in Callers, Stat(c) PROVE Inv'
  <2> DEFINE o == call[c].object
  <2>1. o \in Objects /\ Storable(o) /\ dir
        BY <1>0, <1>7 DEF Stat, CallGood, PutSteps
  <2>2. /\ call' \in [Callers -> Call]
        /\ \A x \in Callers : CallGood(call[x])'
    <3>1. CASE Goto(c, "rename")
      <4> DEFINE k == [call[c] EXCEPT !.step = "rename"]
      <4>1. CallGood(k) /\ call' = [call EXCEPT ![c] = k]
            BY <1>0, <1>7, <3>1 DEF Stat, Goto, CallGood, Call, PutSteps, TypeOK
      <4> QED BY <1>7, <4>1, CallStep DEF Stat
    <3>2. CASE Return(c)
          BY <1>7, <3>2, CallStep, ReadyGood DEF Stat, Return
    <3> QED BY <1>7, <3>1, <3>2 DEF Stat
  <2>3. AckedKept'
        BY <1>0, <1>7, <2>1 DEF Stat, AckedKept, Storable
  <2> QED BY <1>0, <1>7, <2>1, <2>2, <2>3, CallsGoodNext DEF Stat, TypeOK, DiskGood
<1>8. ASSUME NEW c \in Callers, Rename(c) PROVE Inv'
  <2> DEFINE o == call[c].object
  <2>1. o \in Objects /\ Storable(o) /\ dir /\ call[c].data = o /\ call[c].durable
        BY <1>0, <1>8 DEF Rename, CallGood, PutSteps
  <2>2. /\ call' \in [Callers -> Call]
        /\ \A x \in Callers : CallGood(call[x])'
        BY <1>8, CallStep, ReadyGood DEF Rename, Return
  <2>3. file' = [file EXCEPT ![o] = o] /\ synced' = synced \cup {o} /\ acked' = acked \cup {o}
        BY <1>8, <2>1 DEF Rename
  <2>4. /\ file' \in [Objects -> Contents]
        /\ file'[o] = o /\ \A x \in Objects : x # o => file'[x] = file[x]
        BY <1>0, <2>1, <2>3 DEF TypeOK, Contents
  <2>5. DiskGood'
        BY <1>0, <1>8, <2>1, <2>3, <2>4 DEF Rename, DiskGood
  <2>6. AckedKept'
        BY <1>0, <1>8, <2>1, <2>3, <2>4, StoreAssumption DEF Rename, AckedKept, TypeOK, Storable
  <2>7. TypeOK'
        BY <1>0, <1>8, <2>1, <2>2, <2>3, <2>4 DEF Rename, TypeOK
  <2> QED BY <1>0, <1>8, <2>2, <2>5, <2>6, <2>7, CallsGoodNext DEF Rename
<1>9. ASSUME NEW c \in Callers, PutFails(c) PROVE Inv'
  <2>1. /\ call' \in [Callers -> Call]
        /\ \A x \in Callers : CallGood(call[x])'
        BY <1>9, CallStep, ReadyGood DEF PutFails, Return
  <2> QED BY <1>0, <1>9, <2>1, CallsGoodNext DEF PutFails, TypeOK, DiskGood, AckedKept
<1>10. ASSUME NEW c \in Callers, Read(c) PROVE Inv'
  <2> DEFINE o == call[c].object
             k == [call[c] EXCEPT !.step = "cache", !.data = file[o]]
  <2>1. /\ call' \in [Callers -> Call]
        /\ \A x \in Callers : CallGood(call[x])'
    <3>1. CASE FileGood(o)
      <4>1. o \in Objects /\ file[o] = o
            BY <1>0, <1>10, <3>1 DEF Read, CallGood, FileGood
      <4>2. CallGood(k) /\ call' = [call EXCEPT ![c] = k]
            BY <1>0, <1>10, <3>1, <4>1 DEF Read, CallGood, Call, PutSteps, Contents, TypeOK
      <4> QED BY <1>10, <4>2, CallStep DEF Read
    <3>2. CASE ~FileGood(o)
          BY <1>10, <3>2, CallStep, ReadyGood DEF Read, Return
    <3> QED BY <3>1, <3>2
  <2> QED BY <1>0, <1>10, <2>1, CallsGoodNext DEF Read, TypeOK, DiskGood, AckedKept
<1>11. ASSUME NEW c \in Callers, Cache(c) PROVE Inv'
  <2> DEFINE o == call[c].object
  <2>1. o \in Objects /\ call[c].data = o
        BY <1>0, <1>11 DEF Cache, CallGood
  <2>2. /\ call' \in [Callers -> Call]
        /\ \A x \in Callers : CallGood(call[x])'
        BY <1>11, CallStep, ReadyGood DEF Cache, Return
  <2>3. /\ memory' \in [Objects -> Contents]
        /\ \A x \in Objects : memory'[x] \in {x, Nothing} /\ (memory[x] = x => memory'[x] = x)
        BY <1>0, <1>11, <2>1 DEF Cache, TypeOK, Contents
  <2>4. AckedKept'
        BY <1>0, <1>11, <2>3 DEF Cache, AckedKept, TypeOK, Storable
  <2> QED BY <1>0, <1>11, <2>2, <2>3, <2>4, CallsGoodNext DEF Cache, TypeOK, DiskGood
<1>12. ASSUME call' = [c \in Callers |-> Ready], UNCHANGED dir
       PROVE  /\ call' \in [Callers -> Call]
              /\ \A x \in Callers : CallGood(call[x])'
  <2>1. \A x \in Callers : CallGood(call'[x])
        BY <1>12, ReadyGood
  <2> QED BY <1>12, <2>1 DEF CallGood
<1>13. CASE Restart
  <2>1. /\ memory' \in [Objects -> Contents]
        /\ \A x \in Objects : memory'[x] = Nothing
        BY <1>13 DEF Restart, Contents
  <2>2. AckedKept'
        BY <1>0, <1>13 DEF Restart, AckedKept, Storable
  <2>3. faults' \in 0..MaxFaults
        BY <1>0, <1>13, StoreAssumption DEF Restart, Fault, TypeOK
  <2> QED BY <1>0, <1>12, <1>13, <2>1, <2>2, <2>3, CallsGoodNext DEF Restart, TypeOK, DiskGood
<1>14. CASE LosePower
  <2>1. /\ memory' \in [Objects -> Contents]
        /\ \A x \in Objects : memory'[x] = Nothing
        BY <1>14 DEF LosePower, Contents
  <2>2. /\ file' \in [Objects -> Contents] /\ stable' = file'
        /\ \A x \in Objects : file'[x] \in {stable[x], file[x]}
        BY <1>0, <1>14 DEF LosePower, AfterPowerLoss, DiskGood
  <2>3. synced' = {x \in Objects : file'[x] # Nothing}
        BY <1>14 DEF LosePower
  <2>4. DiskGood'
        BY <1>0, <1>14, <2>2, <2>3 DEF LosePower, DiskGood
  <2>5. AckedKept'
    <3>1. acked' \subseteq acked /\ UNCHANGED dir /\ \A x \in acked' : stable[x] # Nothing
          BY <1>14 DEF LosePower
    <3>2. acked' # {} => dir
          BY <1>0, <3>1 DEF DiskGood, TypeOK
    <3> QED BY <1>0, <2>2, <3>1, <3>2 DEF AckedKept, TypeOK, Storable
  <2>6. faults' \in 0..MaxFaults
        BY <1>0, <1>14, StoreAssumption DEF LosePower, Fault, TypeOK
  <2> QED BY <1>0, <1>12, <1>14, <2>1, <2>2, <2>3, <2>4, <2>5, <2>6, CallsGoodNext
          DEF LosePower, TypeOK
<1>15. ASSUME NEW o \in Objects, Decay(o) PROVE Inv'
  <2>1. /\ file' \in [Objects -> Contents] /\ stable' \in [Objects -> Contents]
        /\ \A x \in Objects : file'[x] = IF x = o THEN Decayed ELSE file[x]
        /\ \A x \in Objects : stable'[x] \in {stable[x], Decayed}
        BY <1>0, <1>15 DEF Decay, TypeOK, Contents
  <2>2. faults' \in 0..MaxFaults
        BY <1>0, <1>15, StoreAssumption DEF Decay, Fault, TypeOK
  <2>3. DiskGood'
        BY <1>0, <1>15, <2>1 DEF Decay, DiskGood
  <2>4. AckedKept'
        BY <1>0, <1>15, <2>1, StoreAssumption DEF Decay, AckedKept, TypeOK, Storable
  <2>5. \A x \in Callers : CallGood(call[x])'
        BY <1>0, <1>15 DEF Decay, CallGood
  <2> QED BY <1>0, <1>15, <2>1, <2>2, <2>3, <2>4, <2>5, CallsGoodNext DEF Decay, TypeOK
<1>16. CASE UNCHANGED vars
       BY <1>0, <1>16, CallsGoodNext DEF vars, TypeOK, DiskGood, AckedKept, CallGood
<1> QED
    BY <1>1, <1>2, <1>3, <1>4, <1>5, <1>6, <1>7, <1>8, <1>9, <1>10, <1>11, <1>13,
       <1>14, <1>15, <1>16 DEF Next, WriteAtomic

\* The invariant holds in every reachable state.
LEMMA InvHolds == Spec => []Inv
  BY InitInv, NextInv, PTL DEF Spec

\* Get never answers with anything but the object of the id it was asked for.
THEOREM GetIsGenuineHolds == Spec => []GetIsGenuine
<1>1. Inv => GetIsGenuine
      BY DEF Inv
<1> QED
    BY <1>1, InvHolds, PTL

\* The writes of writeAtomic are atomic, also when power is lost.
THEOREM FileIsWholeHolds == Spec => []FileIsWhole
<1>1. Inv => FileIsWhole
      BY DEF Inv, DiskGood, FileIsWhole
<1> QED
    BY <1>1, InvHolds, PTL

\* What a Put has acknowledged stays retrievable.
THEOREM PutIsKeptHolds == Spec => []PutIsKept
<1>1. ASSUME Inv PROVE PutIsKept
  <2> SUFFICES ASSUME NEW o \in acked PROVE Found(o) \/ file[o] = Decayed
      BY DEF PutIsKept
  <2>1. o \in Objects /\ Storable(o) /\ file[o] \in {o, Decayed, Nothing}
        BY <1>1 DEF Inv, TypeOK, DiskGood, AckedKept
  <2>2. CASE dir
        BY <1>1, <2>1, <2>2 DEF Inv, AckedKept, Found, FileGood, Storable
  <2>3. CASE ~dir
        BY <1>1, <2>1, <2>3, StoreAssumption DEF Inv, AckedKept, Found
  <2> QED BY <2>2, <2>3
<1> QED
    BY <1>1, InvHolds, PTL
=============================================================================
