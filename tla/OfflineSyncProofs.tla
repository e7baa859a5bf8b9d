------------------------- MODULE OfflineSyncProofs -------------------------
(* Theorems about OfflineSync, for every set of keys and tasks, every limit  *)
(* and every mode.                                                           *)
EXTENDS OfflineSync, FiniteSetTheorems, TLAPS

Records == [id: 0 .. MaxOps, version: 0 .. MaxOps, live: BOOLEAN]
Issues  == [id: Op, version: 0 .. MaxOps, second: Nat]
Calls   == [at: {"idle", "read", "stored", "sized"}, key: Key, op: 0 .. MaxOps,
            id: 0 .. MaxOps, version: 0 .. MaxOps]
Items   == [op: Op, retries: 0 .. MaxAttempts]
Syncs   == [at: {"idle", "pushing", "ok", "err"}, batch: Seq(Items),
            attempt: 0 .. MaxAttempts]

(* What TypeOK rests on, when n operations have been created: versions cannot *)
(* outrun them, and only operations that exist are queued and pushed.        *)
RecordSound(r, n) == r.version <= n /\ (r.live => r.id # 0)

CallSound(c, a, apps, n) ==
    /\ c.version <= n
    /\ c.at # "idle" => a \in apps
    /\ c.at \in {"stored", "sized"} => c.op \in 1 .. n
    /\ c.at = "read" => c.id # 0

SyncSound(b, n) ==
    /\ \A i \in 1 .. Len(b.batch) : b.batch[i].op \in 1 .. n
    /\ b.at # "idle" => b.batch # <<>>

Sound ==
    /\ TypeOK
    /\ Len(issued) <= MaxOps
    /\ \A k \in Key : RecordSound(records[k], Len(issued))
    /\ \A a \in App : CallSound(app[a], a, mode.apps, Len(issued))
    /\ \A s \in Sync : SyncSound(sync[s], Len(issued))

LEMMA Types ==
    ASSUME Sound
    PROVE  /\ issued \in Seq(Issues) /\ Len(issued) \in Nat
           /\ records \in [Key -> Records] /\ app \in [App -> Calls]
           /\ sync \in [Sync -> Syncs]
<1>1. issued \in Seq(Issues)
  BY DEF Sound, TypeOK, Issues
<1>2. records \in [Key -> Records] /\ app \in [App -> Calls]
  BY DEF Sound, TypeOK, Records, Calls
<1>3. sync \in [Sync -> Syncs]
  BY DEF Sound, TypeOK, Syncs, Items
<1>4. QED BY <1>1, <1>2, <1>3

LEMMA SoundGrows ==
    ASSUME NEW n \in Nat, n + 1 <= MaxOps
    PROVE  /\ \A r \in Records : RecordSound(r, n) => RecordSound(r, n + 1)
           /\ \A c \in Calls : \A a, apps :
                  CallSound(c, a, apps, n) => CallSound(c, a, apps, n + 1)
           /\ \A b \in Syncs : SyncSound(b, n) => SyncSound(b, n + 1)
BY OfflineAssumption
   DEF Records, RecordSound, Calls, CallSound, Syncs, SyncSound, Items, Op

LEMMA Idle ==
    /\ NoCall \in Calls /\ NoCall.at = "idle" /\ NoCall.version = 0
    /\ NoSync \in Syncs /\ NoSync.at = "idle" /\ NoSync.batch = <<>>
<1>1. (CHOOSE k \in Key : TRUE) \in Key
  BY OfflineAssumption
<1>2. QED BY <1>1, OfflineAssumption DEF NoCall, NoSync, Calls, Syncs, Items

LEMMA IdleSound ==
    ASSUME NEW n \in Nat
    PROVE  SyncSound(NoSync, n) /\ \A a, apps : CallSound(NoCall, a, apps, n)
BY Idle DEF CallSound, SyncSound

LEMMA SoundInit == Init => Sound
<1> SUFFICES ASSUME Init PROVE Sound
  OBVIOUS
<1>1. TypeOK
  BY Idle, OfflineAssumption
     DEF Init, TypeOK, Calls, Syncs, Items, Op, Issued
<1>2. Len(issued) = 0
  BY DEF Init
<1>3. \A k \in Key : RecordSound(records[k], Len(issued))
  BY <1>2 DEF Init, RecordSound
<1>4. QED BY <1>1, <1>2, <1>3, IdleSound, OfflineAssumption DEF Init, Sound

LEMMA ModeType ==
    ASSUME TypeOK
    PROVE  /\ mode.apps \in SUBSET App /\ mode.syncs \in SUBSET Sync
           /\ mode.ops \in 0 .. MaxOps
<1>1. mode \in [apps: SUBSET App, syncs: SUBSET Sync, faults: BOOLEAN,
                ties: BOOLEAN, ops: 0 .. MaxOps]
  BY OfflineAssumption DEF TypeOK
<1>2. QED BY <1>1

(* One operation more.                                                       *)
LEMMA PutRecordSound ==
    ASSUME Sound, NEW a \in App, NEW k \in Key, NEW id \in Op,
           NEW version \in Nat, version <= Len(issued) + 1, a \in mode.apps,
           PutRecord(a, k, id, version)
    PROVE  Sound'
<1>1. issued \in Seq(Issues)
  BY DEF Sound, TypeOK, Issues
<1>2. Len(issued) \in Nat /\ Len(issued) < MaxOps /\ MaxOps \in Nat
  BY <1>1, ModeType, OfflineAssumption DEF PutRecord, Sound
<1>3. /\ issued' \in Seq(Issues) /\ Len(issued') = Len(issued) + 1
  <2>1. PICK second \in 1 .. MaxOps :
            issued' = Append(issued, [id |-> id, version |-> version, second |-> second])
    BY DEF PutRecord
  <2> DEFINE r == [id |-> id, version |-> version, second |-> second]
  <2>2. r \in Issues
    BY <1>2 DEF Issues
  <2> HIDE DEF r
  <2>3. issued' = Append(issued, r)
    BY <2>1 DEF r
  <2>4. QED BY <1>1, <2>2, <2>3
<1>4. /\ records' \in [Key -> Records]
      /\ \A j \in Key : RecordSound(records'[j], Len(issued'))
  <2> DEFINE r == [id |-> id, version |-> version, live |-> TRUE]
  <2>1. /\ r \in Records /\ RecordSound(r, Len(issued'))
    BY <1>2, <1>3 DEF Records, RecordSound, Op
  <2>2. /\ records \in [Key -> Records]
        /\ \A j \in Key : RecordSound(records[j], Len(issued'))
    <3>1. \A j \in Key : records[j] \in Records /\ RecordSound(records[j], Len(issued))
      BY Types DEF Sound
    <3>2. QED BY <1>2, <1>3, <3>1, SoundGrows, Types
  <2>3. records' = [records EXCEPT ![k] = r]
    BY DEF PutRecord
  <2> HIDE DEF r
  <2>4. QED BY <2>1, <2>2, <2>3
<1>5. /\ app' \in [App -> Calls]
      /\ \A b \in App : CallSound(app'[b], b, mode.apps, Len(issued'))
  <2> DEFINE c == [at |-> "stored", key |-> k, id |-> 0, version |-> 0,
                   op |-> Len(issued) + 1]
  <2>1. /\ c \in Calls /\ CallSound(c, a, mode.apps, Len(issued'))
    BY <1>2, <1>3 DEF Calls, CallSound
  <2>2. /\ app \in [App -> Calls]
        /\ \A b \in App : CallSound(app[b], b, mode.apps, Len(issued'))
    <3>1. \A b \in App : /\ app[b] \in Calls
                          /\ CallSound(app[b], b, mode.apps, Len(issued))
      BY Types DEF Sound
    <3>2. QED BY <1>2, <1>3, <3>1, SoundGrows, Types
  <2>3. app' = [app EXCEPT ![a] = c]
    BY DEF PutRecord
  <2> HIDE DEF c
  <2>4. QED BY <2>1, <2>2, <2>3
<1>6. /\ sync' = sync /\ mode' = mode /\ queue' = queue /\ retries' = retries
      /\ healthy' = healthy /\ remote' = remote /\ crashes' = crashes
      /\ accepted' = accepted /\ delivered' = delivered /\ aged' = aged
      /\ failed' = failed
  BY DEF PutRecord, ghosts
<1>7. \A s \in Sync : SyncSound(sync'[s], Len(issued'))
  <2>1. sync \in [Sync -> Syncs] /\ \A s \in Sync : SyncSound(sync[s], Len(issued))
    BY DEF Sound, TypeOK, Syncs, Items
  <2>2. \A s \in Sync : SyncSound(sync[s], Len(issued'))
    BY <1>2, <1>3, <2>1, SoundGrows
  <2>3. QED BY <1>6, <2>2
<1>8. Issued \subseteq Issued'
  BY <1>2, <1>3 DEF Issued
<1>9. TypeOK'
  BY <1>3, <1>4, <1>5, <1>6, <1>8 DEF Sound, TypeOK, Records, Issues, Calls
<1>10. Len(issued') <= MaxOps
  BY <1>2, <1>3
<1>11. QED BY <1>4, <1>5, <1>6, <1>7, <1>9, <1>10 DEF Sound

LEMMA LenNotZero == ASSUME NEW S, NEW q \in Seq(S), Len(q) # 0 PROVE q # <<>>
OBVIOUS

LEMMA TailFacts ==
    ASSUME NEW S, NEW q \in Seq(S), q # <<>>
    PROVE  /\ Tail(q) \in Seq(S) /\ Len(Tail(q)) = Len(q) - 1
           /\ Len(q) # 1 => Tail(q) # <<>>
           /\ \A i \in 1 .. Len(Tail(q)) : Tail(q)[i] = q[i + 1]
<1>1. Tail(q) \in Seq(S) /\ Len(Tail(q)) = Len(q) - 1
  OBVIOUS
<1>2. Len(q) # 1 => Tail(q) # <<>>
  BY SMTT(20), <1>1, LenNotZero
<1>3. \A i \in 1 .. Len(Tail(q)) : Tail(q)[i] = q[i + 1]
  BY <1>1
<1>4. QED BY <1>1, <1>2, <1>3

(* The first operation of a batch, and the batch without it.                 *)
LEMMA BatchStep ==
    ASSUME NEW b \in Syncs, NEW n \in Nat, SyncSound(b, n), b.at # "idle"
    PROVE  /\ Head(b.batch) \in Items /\ Head(b.batch).op \in 1 .. n
           /\ Len(b.batch) \in Nat \ {0} /\ Head(b.batch) = b.batch[1]
           /\ Len(b.batch) # 1 =>
                LET c == [at |-> "pushing", attempt |-> 0, batch |-> Tail(b.batch)]
                IN c \in Syncs /\ SyncSound(c, n)
<1>1. b.batch \in Seq(Items) /\ b.batch # <<>>
  BY DEF Syncs, SyncSound
<1>2. /\ Len(b.batch) \in Nat \ {0} /\ Head(b.batch) = b.batch[1]
      /\ b.batch[1] \in Items
  BY <1>1
<1>3. b.batch[1].op \in 1 .. n
  BY <1>2 DEF SyncSound
<1>4. ASSUME Len(b.batch) # 1
      PROVE  LET c == [at |-> "pushing", attempt |-> 0, batch |-> Tail(b.batch)]
             IN c \in Syncs /\ SyncSound(c, n)
  <2> DEFINE r == Tail(b.batch)
  <2>1. /\ r \in Seq(Items) /\ Len(r) = Len(b.batch) - 1 /\ r # <<>>
        /\ \A i \in 1 .. Len(r) : r[i] = b.batch[i + 1]
    BY <1>1, <1>2, <1>4, TailFacts
  <2> HIDE DEF r
  <2>2. \A i \in 1 .. Len(r) : r[i].op \in 1 .. n
    BY <1>2, <2>1 DEF SyncSound
  <2> DEFINE c == [at |-> "pushing", attempt |-> 0, batch |-> r]
  <2>3. c \in Syncs
    BY <2>1, OfflineAssumption DEF Syncs
  <2>4. SyncSound(c, n)
    BY <2>1, <2>2 DEF SyncSound
  <2>5. QED BY <2>3, <2>4 DEF r
<1>5. QED BY <1>2, <1>3, <1>4

LEMMA NextSound ==
    ASSUME Sound, NEW s \in Sync, sync[s].at # "idle", NextOperation(s)
    PROVE  /\ sync' \in [Sync -> Syncs]
           /\ \A r \in Sync : SyncSound(sync'[r], Len(issued))
<1>1. sync \in [Sync -> Syncs] /\ Len(issued) \in Nat
  BY Types
<1>2. \A r \in Sync : SyncSound(sync[r], Len(issued))
  BY DEF Sound
<1> DEFINE c == IF Len(sync[s].batch) = 1 THEN NoSync
                ELSE [at |-> "pushing", attempt |-> 0, batch |-> Tail(sync[s].batch)]
<1>3. c \in Syncs /\ SyncSound(c, Len(issued))
  BY <1>1, <1>2, Idle, IdleSound, BatchStep
<1>4. sync' = [sync EXCEPT ![s] = c]
  BY DEF NextOperation
<1> HIDE DEF c
<1>5. QED BY <1>1, <1>2, <1>3, <1>4

(* One sync changed, and nothing that the others rest on.                    *)
LEMMA SyncPutSound ==
    ASSUME Sound, NEW s \in Sync, NEW b \in Syncs, SyncSound(b, Len(issued)),
           sync' = [sync EXCEPT ![s] = b]
    PROVE  /\ sync' \in [Sync -> Syncs]
           /\ \A r \in Sync : SyncSound(sync'[r], Len(issued))
<1>1. sync \in [Sync -> Syncs] /\ \A r \in Sync : SyncSound(sync[r], Len(issued))
  BY DEF Sound, TypeOK, Syncs, Items
<1>2. QED BY <1>1

LEMMA AppPutSound ==
    ASSUME Sound, NEW a \in App, NEW c \in Calls,
           CallSound(c, a, mode.apps, Len(issued)), app' = [app EXCEPT ![a] = c]
    PROVE  /\ app' \in [App -> Calls]
           /\ \A b \in App : CallSound(app'[b], b, mode.apps, Len(issued))
<1>1. /\ app \in [App -> Calls]
      /\ \A b \in App : CallSound(app[b], b, mode.apps, Len(issued))
  BY DEF Sound, TypeOK, Calls
<1>2. QED BY <1>1

(* The operation a sync has reached exists.                                  *)
LEMMA CurrentExists ==
    ASSUME Sound, NEW s \in Sync, sync[s].at # "idle"
    PROVE  /\ Current(s) \in Items /\ Current(s).op \in Issued
           /\ issued[Current(s).op] \in Issues
<1>1. /\ sync[s] \in Syncs /\ SyncSound(sync[s], Len(issued)) /\ Len(issued) \in Nat
      /\ issued \in Seq(Issues)
  BY Types DEF Sound
<1>2. Current(s) \in Items /\ Current(s).op \in 1 .. Len(issued)
  BY <1>1, BatchStep DEF Current
<1>3. QED BY <1>1, <1>2 DEF Issued

LEMMA DeliverType ==
    ASSUME Sound, NEW s \in Sync, sync[s].at # "idle", Deliver(Current(s).op)
    PROVE  remote' \in [Op -> -1 .. MaxOps] /\ delivered' \subseteq Issued
<1>1. /\ remote \in [Op -> -1 .. MaxOps] /\ delivered \subseteq Issued
      /\ MaxOps \in Nat
  BY OfflineAssumption DEF Sound, TypeOK
<1> DEFINE o == Current(s).op
           i == issued[o].id
           v == issued[o].version
<1>2. o \in Issued /\ i \in Op /\ v \in -1 .. MaxOps
  BY <1>1, CurrentExists DEF Issues
<1>3. delivered' = delivered \cup {o} /\ remote' = [remote EXCEPT ![i] = v]
  BY DEF Deliver
<1> HIDE DEF o, i, v
<1>4. QED BY <1>1, <1>2, <1>3

LEMMA SoundStep == Sound /\ [Next]_vars => Sound'
<1> SUFFICES ASSUME Sound, [Next]_vars PROVE Sound'
  OBVIOUS
<1>0. /\ issued \in Seq(Issues) /\ Len(issued) \in Nat
      /\ records \in [Key -> Records] /\ app \in [App -> Calls]
      /\ sync \in [Sync -> Syncs]
  BY Types
<1>1. ASSUME NEW a \in App, NEW k \in Key, Write(a, k) PROVE Sound'
  <2>1. Len(issued) + 1 \in Op
    BY <1>0, <1>1, ModeType, OfflineAssumption DEF Write, PutRecord, Op, Sound
  <2>2. QED BY <1>0, <1>1, <2>1, PutRecordSound DEF Write
<1>2. ASSUME NEW a \in App, NEW k \in Key, ReadForUpdate(a, k) PROVE Sound'
  <2> DEFINE c == [at |-> "read", key |-> k, op |-> 0, id |-> records[k].id,
                   version |-> records[k].version]
  <2>1. RecordSound(records[k], Len(issued)) /\ records[k] \in Records
    BY <1>0 DEF Sound
  <2>2. c \in Calls /\ CallSound(c, a, mode.apps, Len(issued))
    BY <1>2, <2>1, OfflineAssumption
       DEF ReadForUpdate, RecordSound, CallSound, Records, Calls
  <2>3. app' = [app EXCEPT ![a] = c]
    BY <1>2 DEF ReadForUpdate
  <2> HIDE DEF c
  <2>4. /\ app' \in [App -> Calls]
        /\ \A b \in App : CallSound(app'[b], b, mode.apps, Len(issued))
    BY <1>0, <2>2, <2>3 DEF Sound
  <2>5. QED BY <1>2, <2>4 DEF ReadForUpdate, Sound, TypeOK, storage, ghosts, Issued, Calls
<1>3. ASSUME NEW a \in App, Update(a) PROVE Sound'
  <2>1. /\ app[a] \in Calls /\ CallSound(app[a], a, mode.apps, Len(issued))
        /\ app[a].at = "read" /\ PutRecord(a, app[a].key, app[a].id, app[a].version + 1)
    BY <1>0, <1>3 DEF Sound, Update
  <2>2. /\ app[a].id \in Op /\ app[a].key \in Key /\ app[a].version + 1 \in Nat
        /\ app[a].version + 1 <= Len(issued) + 1 /\ a \in mode.apps
    BY <1>0, <2>1, OfflineAssumption DEF CallSound, Calls, Op
  <2>3. QED BY <2>1, <2>2, PutRecordSound
<1>4. ASSUME NEW a \in App, CheckSize(a) PROVE Sound'
  <2> DEFINE c == IF Cardinality(queue) >= MaxQueueSize THEN NoCall
                  ELSE [app[a] EXCEPT !.at = "sized"]
  <2>1. /\ app[a] \in Calls /\ CallSound(app[a], a, mode.apps, Len(issued))
        /\ app[a].at = "stored"
    BY <1>0, <1>4 DEF Sound, CheckSize
  <2>2. c \in Calls /\ CallSound(c, a, mode.apps, Len(issued))
    BY <1>0, <2>1, Idle, IdleSound DEF Calls, CallSound
  <2>3. app' = [app EXCEPT ![a] = c]
    BY <1>4 DEF CheckSize
  <2> HIDE DEF c
  <2>4. /\ app' \in [App -> Calls]
        /\ \A b \in App : CallSound(app'[b], b, mode.apps, Len(issued))
    BY <2>2, <2>3, AppPutSound
  <2>5. QED BY <1>4, <2>4 DEF CheckSize, Sound, TypeOK, storage, ghosts, Issued, Calls
<1>5. ASSUME NEW a \in App, Enqueue(a) PROVE Sound'
  <2>1. /\ CallSound(app[a], a, mode.apps, Len(issued)) /\ app[a].at = "sized"
    BY <1>5 DEF Sound, Enqueue
  <2>2. app[a].op \in Issued
    BY <2>1 DEF CallSound, Issued
  <2>3. /\ app' \in [App -> Calls]
        /\ \A b \in App : CallSound(app'[b], b, mode.apps, Len(issued))
    BY <1>0, <1>5, Idle, IdleSound, AppPutSound DEF Enqueue
  <2>4. QED BY <1>5, <2>2, <2>3 DEF Enqueue, Sound, TypeOK, Issued, Calls
<1>6. ASSUME NEW k \in Key, Delete(k) PROVE Sound'
  <2> DEFINE r == [records[k] EXCEPT !.live = FALSE]
  <2>1. r \in Records /\ RecordSound(r, Len(issued))
    BY <1>0 DEF Sound, Records, RecordSound
  <2>2. records' = [records EXCEPT ![k] = r]
    BY <1>6 DEF Delete
  <2> HIDE DEF r
  <2>3. /\ records' \in [Key -> Records]
        /\ \A j \in Key : RecordSound(records'[j], Len(issued))
    BY <1>0, <2>1, <2>2 DEF Sound
  <2>4. QED BY <1>6, <2>3 DEF Delete, Sound, TypeOK, ghosts, Issued, Records
<1>7. ASSUME NEW o \in Op, Prune(o) PROVE Sound'
  BY <1>7 DEF Prune, Sound, TypeOK, Issued
<1>8. ASSUME NEW s \in Sync, StartSync(s) PROVE Sound'
  <2>0. PICK n \in 1 .. BatchSize :
          \E batch \in [1 .. n -> queue] :
            sync' = [sync EXCEPT ![s] =
              [at |-> "pushing", attempt |-> 0,
               batch |-> [i \in 1 .. n |-> [op |-> batch[i],
                                            retries |-> retries[batch[i]]]]]]
    BY <1>8 DEF StartSync
  <2>1. PICK batch \in [1 .. n -> queue] :
            sync' = [sync EXCEPT ![s] =
              [at |-> "pushing", attempt |-> 0,
               batch |-> [i \in 1 .. n |-> [op |-> batch[i],
                                            retries |-> retries[batch[i]]]]]]
    BY <2>0
  <2> DEFINE q == [i \in 1 .. n |-> [op |-> batch[i], retries |-> retries[batch[i]]]]
             b == [at |-> "pushing", attempt |-> 0, batch |-> q]
  <2>2. /\ queue \subseteq Issued /\ Issued \subseteq Op
        /\ retries \in [Op -> 0 .. MaxAttempts] /\ n \in Nat \ {0}
    <3>1. Len(issued) <= MaxOps
      BY DEF Sound
    <3>2. queue \subseteq Issued /\ retries \in [Op -> 0 .. MaxAttempts]
      BY DEF Sound, TypeOK
    <3>3. QED BY <1>0, <3>1, <3>2, OfflineAssumption DEF Issued, Op
  <2>3. \A i \in 1 .. n : q[i] \in Items /\ q[i].op \in 1 .. Len(issued)
    BY <2>2 DEF Items, Issued
  <2>4. q \in Seq(Items) /\ Len(q) = n /\ q # <<>>
    BY <2>2, <2>3
  <2> HIDE DEF q
  <2>5. b \in Syncs /\ SyncSound(b, Len(issued))
    BY <2>3, <2>4, OfflineAssumption DEF Syncs, SyncSound
  <2>6. sync' = [sync EXCEPT ![s] = b]
    BY <2>1 DEF q
  <2> HIDE DEF b
  <2>7. /\ sync' \in [Sync -> Syncs]
        /\ \A r \in Sync : SyncSound(sync'[r], Len(issued))
    BY <2>5, <2>6, SyncPutSound
  <2>8. QED BY <1>8, <2>7
            DEF StartSync, Sound, TypeOK, storage, ghosts, Issued, Syncs, Items
<1>9. ASSUME NEW s \in Sync, PushSucceeds(s) PROVE Sound'
  <2> DEFINE b == [sync[s] EXCEPT !.at = "ok"]
  <2>1. /\ sync[s] \in Syncs /\ SyncSound(sync[s], Len(issued))
        /\ sync[s].at = "pushing"
    BY <1>0, <1>9 DEF Sound, PushSucceeds
  <2>2. b \in Syncs /\ SyncSound(b, Len(issued))
    BY <2>1 DEF Syncs, SyncSound
  <2>3. sync' = [sync EXCEPT ![s] = b]
    BY <1>9 DEF PushSucceeds
  <2> HIDE DEF b
  <2>4. /\ sync' \in [Sync -> Syncs]
        /\ \A r \in Sync : SyncSound(sync'[r], Len(issued))
    BY <2>2, <2>3, SyncPutSound
  <2>5. remote' \in [Op -> -1 .. MaxOps] /\ delivered' \subseteq Issued
    BY <1>9, <2>1, DeliverType DEF PushSucceeds
  <2>6. QED BY <1>9, <2>4, <2>5
            DEF PushSucceeds, Sound, TypeOK, storage, Issued, Syncs, Items
<1>10. ASSUME NEW s \in Sync, PushFails(s) PROVE Sound'
  <2>1. /\ sync[s] \in Syncs /\ SyncSound(sync[s], Len(issued))
        /\ sync[s].at = "pushing"
    BY <1>0, <1>10 DEF Sound, PushFails
  <2>2. remote' \in [Op -> -1 .. MaxOps] /\ delivered' \subseteq Issued
    BY <1>10, <2>1, DeliverType DEF PushFails, Sound, TypeOK
  <2>3. PICK b : /\ sync' = [sync EXCEPT ![s] = b] /\ b.batch = sync[s].batch
                 /\ b \in Syncs
    <3>1. CASE sync[s].attempt < MaxAttempts
      <4> DEFINE b == [sync[s] EXCEPT !.attempt = sync[s].attempt + 1]
      <4>1. b \in Syncs /\ b.batch = sync[s].batch
        BY <2>1, <3>1, OfflineAssumption DEF Syncs
      <4>2. sync' = [sync EXCEPT ![s] = b]
        BY <1>10, <2>1, <3>1, OfflineAssumption DEF PushFails, Syncs
      <4> HIDE DEF b
      <4>3. QED BY <4>1, <4>2
    <3>2. CASE ~(sync[s].attempt < MaxAttempts)
      <4> DEFINE b == [sync[s] EXCEPT !.at = "err"]
      <4>1. b \in Syncs /\ b.batch = sync[s].batch
        BY <2>1 DEF Syncs
      <4>2. sync' = [sync EXCEPT ![s] = b]
        BY <1>10, <3>2 DEF PushFails
      <4> HIDE DEF b
      <4>3. QED BY <4>1, <4>2
    <3>3. QED BY <3>1, <3>2
  <2>4. SyncSound(b, Len(issued))
    BY <2>1, <2>3 DEF SyncSound
  <2>5. /\ sync' \in [Sync -> Syncs]
        /\ \A r \in Sync : SyncSound(sync'[r], Len(issued))
    BY <2>3, <2>4, SyncPutSound
  <2>6. failed' \in [Op -> 0 .. MaxAttempts + 1]
    <3>1. failed \in [Op -> 0 .. MaxAttempts + 1] /\ Current(s).op \in Op
      BY <2>1, CurrentExists DEF Sound, TypeOK, Items
    <3> DEFINE o == Current(s).op
               n == IF failed[o] > MaxAttempts THEN failed[o] ELSE failed[o] + 1
    <3>2. n \in 0 .. MaxAttempts + 1
      BY <3>1, OfflineAssumption
    <3>3. failed' = failed \/ failed' = [failed EXCEPT ![o] = n]
      BY <1>10 DEF PushFails
    <3> HIDE DEF o, n
    <3>4. QED BY <3>1, <3>2, <3>3
  <2>7. QED BY <1>10, <2>2, <2>5, <2>6
            DEF PushFails, Sound, TypeOK, storage, Issued, Syncs, Items
<1>11. ASSUME NEW s \in Sync, Dequeue(s) PROVE Sound'
  <2>1. /\ sync' \in [Sync -> Syncs]
        /\ \A r \in Sync : SyncSound(sync'[r], Len(issued))
    BY <1>11, NextSound DEF Dequeue
  <2>2. QED BY <1>11, <2>1 DEF Dequeue, Sound, TypeOK, ghosts, Issued, Syncs, Items
<1>12. ASSUME NEW s \in Sync, Requeue(s) PROVE Sound'
  <2>1. /\ sync' \in [Sync -> Syncs]
        /\ \A r \in Sync : SyncSound(sync'[r], Len(issued))
    BY <1>12, NextSound DEF Requeue
  <2>2. retries' \in [Op -> 0 .. MaxAttempts]
    <3>1. /\ retries \in [Op -> 0 .. MaxAttempts] /\ Current(s) \in Items
          /\ Current(s).retries < MaxAttempts
      BY <1>12, CurrentExists DEF Requeue, Sound, TypeOK
    <3> DEFINE n == Current(s).retries + 1
               o == Current(s).op
    <3>2. n \in 0 .. MaxAttempts
      BY <3>1, OfflineAssumption DEF Items
    <3>3. retries' = retries \/ retries' = [retries EXCEPT ![o] = n]
      BY <1>12 DEF Requeue
    <3> HIDE DEF n, o
    <3>4. QED BY <3>1, <3>2, <3>3
  <2>3. QED BY <1>12, <2>1, <2>2
            DEF Requeue, Sound, TypeOK, ghosts, Issued, Syncs, Items
<1>13. ASSUME NEW s \in Sync, GiveUp(s) PROVE Sound'
  <2>1. /\ sync' \in [Sync -> Syncs]
        /\ \A r \in Sync : SyncSound(sync'[r], Len(issued))
    BY <1>13, NextSound DEF GiveUp
  <2>2. QED BY <1>13, <2>1 DEF GiveUp, Sound, TypeOK, ghosts, Issued, Syncs, Items
<1>14. ASSUME NEW s \in Sync, CutShort(s) PROVE Sound'
  <2>1. /\ sync' \in [Sync -> Syncs]
        /\ \A r \in Sync : SyncSound(sync'[r], Len(issued))
    BY <1>0, <1>14, Idle, IdleSound, SyncPutSound DEF CutShort
  <2>2. crashes' \in 0 .. MaxCrashes
    BY <1>14, OfflineAssumption DEF CutShort, Sound, TypeOK
  <2>3. QED BY <1>14, <2>1, <2>2
            DEF CutShort, Sound, TypeOK, storage, ghosts, Issued, Syncs, Items
<1>15. ASSUME Crash PROVE Sound'
  <2>1. /\ app' \in [App -> Calls] /\ sync' \in [Sync -> Syncs]
        /\ \A a \in App : CallSound(app'[a], a, mode.apps, Len(issued))
        /\ \A s \in Sync : SyncSound(sync'[s], Len(issued))
    BY <1>0, <1>15, Idle, IdleSound DEF Crash
  <2>2. crashes' \in 0 .. MaxCrashes
    BY <1>15, OfflineAssumption DEF Crash, Sound, TypeOK
  <2>3. QED BY <1>15, <2>1, <2>2
            DEF Crash, Sound, TypeOK, storage, ghosts, Issued, Syncs, Items, Calls
<1>16. ASSUME RemoteChanges PROVE Sound'
  BY <1>16 DEF RemoteChanges, Sound, TypeOK, storage, ghosts, Issued
<1>17. ASSUME UNCHANGED vars PROVE Sound'
  BY <1>17 DEF vars, Sound, TypeOK, storage, ghosts, Issued
<1>18. QED
  BY <1>1, <1>2, <1>3, <1>4, <1>5, <1>6, <1>7, <1>8, <1>9, <1>10, <1>11, <1>12,
     <1>13, <1>14, <1>15, <1>16, <1>17 DEF Next, SyncStep

(* Every reachable state is of the type that TypeOK states.                  *)
THEOREM TypeCorrect == Spec => []TypeOK
<1>1. Sound => TypeOK
  BY DEF Sound
<1>2. QED BY <1>1, SoundInit, SoundStep, PTL DEF Spec

(* What a sync owes for the batch it works on: the retry counts it has read   *)
(* are no more than the failures, and at an outcome the operation has been    *)
(* delivered, or has failed once more than its count says.                    *)
SyncOwes(b, f, D) ==
    /\ \A i \in 1 .. Len(b.batch) : b.batch[i].retries <= f[b.batch[i].op]
    /\ b.at = "ok" => Head(b.batch).op \in D
    /\ b.at = "err" => f[Head(b.batch).op] > Head(b.batch).retries

Owing ==
    /\ \A o \in Op : retries[o] <= failed[o]
    /\ \A s \in Sync : SyncOwes(sync[s], failed, delivered)
    /\ NothingIsDroppedEarly

Counts == [Op -> 0 .. MaxAttempts + 1]

LEMMA OwesGrows ==
    ASSUME NEW b \in Syncs, NEW n \in Nat, SyncSound(b, n), n <= MaxOps,
           NEW f \in Counts, NEW g \in Counts, \A o \in Op : f[o] <= g[o],
           NEW D, NEW E, D \subseteq E, SyncOwes(b, f, D)
    PROVE  SyncOwes(b, g, E)
<1>1. /\ b.batch \in Seq(Items) /\ Len(b.batch) \in Nat
      /\ \A i \in 1 .. Len(b.batch) : b.batch[i] \in Items /\ b.batch[i].op \in Op
  <2>1. b.batch \in Seq(Items) /\ Len(b.batch) \in Nat
    BY DEF Syncs
  <2>2. \A i \in 1 .. Len(b.batch) : b.batch[i] \in Items
    BY <2>1
  <2>3. QED BY <2>1, <2>2 DEF Items
<1>2. \A i \in 1 .. Len(b.batch) : b.batch[i].retries <= g[b.batch[i].op]
  <2> TAKE i \in 1 .. Len(b.batch)
  <2>1. /\ b.batch[i].retries <= f[b.batch[i].op] /\ b.batch[i].op \in Op
        /\ b.batch[i].retries \in Nat
    BY <1>1, OfflineAssumption DEF SyncOwes, Items
  <2>2. f[b.batch[i].op] <= g[b.batch[i].op]
    BY <2>1
  <2>3. f[b.batch[i].op] \in Nat /\ g[b.batch[i].op] \in Nat
    BY <2>1, OfflineAssumption DEF Counts
  <2>4. QED BY <2>1, <2>2, <2>3
<1>3. b.at = "ok" => Head(b.batch).op \in E
  BY DEF SyncOwes
<1>4. ASSUME b.at = "err" PROVE g[Head(b.batch).op] > Head(b.batch).retries
  <2>1. Head(b.batch) \in Items
    BY <1>4, BatchStep
  <2> DEFINE o == Head(b.batch).op
             r == Head(b.batch).retries
  <2>2. /\ o \in Op /\ r \in Nat /\ f[o] > r
    BY <1>4, <2>1, OfflineAssumption DEF SyncOwes, Items
  <2> HIDE DEF o, r
  <2>3. f[o] <= g[o] /\ f[o] \in Nat /\ g[o] \in Nat
    BY <2>2, OfflineAssumption DEF Counts
  <2>4. g[o] > r
    BY <2>2, <2>3
  <2>5. QED BY <2>4 DEF o, r
<1>5. QED BY <1>2, <1>3, <1>4 DEF SyncOwes

LEMMA IdleOwes == ASSUME NEW f, NEW D PROVE SyncOwes(NoSync, f, D)
BY DEF SyncOwes, NoSync

(* The sync goes on to the next operation of its batch.                      *)
LEMMA NextOwes ==
    ASSUME Sound, Owing, NEW s \in Sync, sync[s].at # "idle", NextOperation(s)
    PROVE  \A r \in Sync : SyncOwes(sync'[r], failed, delivered)
<1>1. /\ sync \in [Sync -> Syncs] /\ SyncSound(sync[s], Len(issued))
      /\ \A r \in Sync : SyncOwes(sync[r], failed, delivered)
  BY Types DEF Sound, Owing
<1> DEFINE q == sync[s].batch
           t == Tail(q)
           c == IF Len(q) = 1 THEN NoSync
                ELSE [at |-> "pushing", attempt |-> 0, batch |-> t]
<1>2. SyncOwes(c, failed, delivered)
  <2>1. CASE Len(q) = 1
    BY <2>1, IdleOwes
  <2>2. CASE Len(q) # 1
    <3>1. q \in Seq(Items) /\ q # <<>>
      BY <1>1 DEF Syncs, SyncSound
    <3>2. /\ Len(t) = Len(q) - 1 /\ Len(q) \in Nat
          /\ \A i \in 1 .. Len(t) : t[i] = q[i + 1]
      BY <3>1, TailFacts
    <3>3. \A i \in 1 .. Len(q) : q[i].retries <= failed[q[i].op]
      BY <1>1 DEF SyncOwes
    <3> HIDE DEF q, t
    <3>4. \A i \in 1 .. Len(t) : t[i].retries <= failed[t[i].op]
      BY <3>2, <3>3
    <3>5. QED BY <2>2, <3>4 DEF SyncOwes
  <2>3. QED BY <2>1, <2>2
<1>3. sync' = [sync EXCEPT ![s] = c]
  BY DEF NextOperation
<1> HIDE DEF c
<1>4. QED BY <1>1, <1>2, <1>3

(* The operation leaves the queue with its due.                              *)
LEMMA LeavesQueue ==
    ASSUME Owing, NEW o, queue' = queue \ {o},
           UNCHANGED <<accepted, delivered, aged, failed>>,
           o \in delivered \/ failed[o] > MaxAttempts
    PROVE  NothingIsDroppedEarly'
BY DEF Owing, NothingIsDroppedEarly

LEMMA OwingStep ==
    ASSUME Sound, Sound', Owing, [Next]_vars
    PROVE  Owing'
<1>0. /\ sync \in [Sync -> Syncs] /\ Len(issued) \in Nat /\ Len(issued) <= MaxOps
      /\ \A s \in Sync : SyncSound(sync[s], Len(issued))
      /\ \A s \in Sync : SyncOwes(sync[s], failed, delivered)
      /\ \A o \in Op : retries[o] <= failed[o]
      /\ NothingIsDroppedEarly
  BY Types DEF Sound, Owing
<1>t. /\ failed \in Counts /\ failed' \in Counts
      /\ retries \in [Op -> 0 .. MaxAttempts]
  BY DEF Sound, TypeOK, Counts
<1>o. queue \subseteq Op /\ accepted \subseteq Op
  <2>1. Issued \subseteq Op
    BY <1>0, OfflineAssumption DEF Issued, Op
  <2>2. queue \subseteq Issued /\ accepted \subseteq Issued
    BY DEF Sound, TypeOK
  <2>3. QED BY <2>1, <2>2
<1>1. ASSUME UNCHANGED <<sync, retries, queue, ghosts>> PROVE Owing'
  BY <1>0, <1>1 DEF Owing, NothingIsDroppedEarly, ghosts
<1>2. ASSUME NEW a \in App, Enqueue(a) PROVE Owing'
  BY <1>0, <1>2 DEF Enqueue, Owing, NothingIsDroppedEarly
<1>3. ASSUME NEW o \in Op, Prune(o) PROVE Owing'
  BY <1>0, <1>3 DEF Prune, Owing, NothingIsDroppedEarly
<1>4. ASSUME NEW s \in Sync, StartSync(s) PROVE Owing'
  <2>1. PICK n \in 1 .. BatchSize :
          \E batch \in [1 .. n -> queue] :
            sync' = [sync EXCEPT ![s] =
              [at |-> "pushing", attempt |-> 0,
               batch |-> [i \in 1 .. n |-> [op |-> batch[i],
                                            retries |-> retries[batch[i]]]]]]
    BY <1>4 DEF StartSync
  <2>2. PICK batch \in [1 .. n -> queue] :
            sync' = [sync EXCEPT ![s] =
              [at |-> "pushing", attempt |-> 0,
               batch |-> [i \in 1 .. n |-> [op |-> batch[i],
                                            retries |-> retries[batch[i]]]]]]
    BY <2>1
  <2> DEFINE q == [i \in 1 .. n |-> [op |-> batch[i], retries |-> retries[batch[i]]]]
             b == [at |-> "pushing", attempt |-> 0, batch |-> q]
  <2>3. Len(q) = n
    BY OfflineAssumption
  <2>4. \A i \in 1 .. n : batch[i] \in Op
    BY <1>o
  <2>5. \A i \in 1 .. Len(q) : q[i].retries <= failed[q[i].op]
    BY <1>0, <2>3, <2>4
  <2> HIDE DEF q
  <2>6. SyncOwes(b, failed, delivered)
    BY <2>5 DEF SyncOwes
  <2>7. sync' = [sync EXCEPT ![s] = b]
    BY <2>2 DEF q
  <2> HIDE DEF b
  <2>8. \A r \in Sync : SyncOwes(sync'[r], failed, delivered)
    BY <1>0, <2>6, <2>7
  <2>9. QED BY <1>0, <1>4, <2>8 DEF StartSync, storage, ghosts, Owing, NothingIsDroppedEarly
<1>5. ASSUME NEW s \in Sync, PushSucceeds(s) PROVE Owing'
  <2>1. /\ delivered' = delivered \cup {Current(s).op} /\ sync[s].at = "pushing"
        /\ sync' = [sync EXCEPT ![s].at = "ok"]
        /\ retries' = retries /\ failed' = failed /\ queue' = queue
        /\ accepted' = accepted /\ aged' = aged
    BY <1>5 DEF PushSucceeds, Deliver, storage
  <2> DEFINE b == [sync[s] EXCEPT !.at = "ok"]
  <2>2. \A r \in Sync : SyncOwes(sync[r], failed, delivered')
    <3>1. \A o \in Op : failed[o] <= failed[o]
      BY <1>t, OfflineAssumption DEF Counts
    <3>2. delivered \subseteq delivered'
      BY <2>1
    <3>3. QED BY <1>0, <1>t, <3>1, <3>2, OwesGrows
  <2>3. /\ b.batch = sync[s].batch /\ b.at = "ok"
    BY <1>0 DEF Syncs
  <2>4. sync' = [sync EXCEPT ![s] = b]
    BY <2>1
  <2> HIDE DEF b
  <2>5. SyncOwes(b, failed, delivered')
    BY <2>1, <2>2, <2>3 DEF SyncOwes, Current
  <2>6. \A r \in Sync : SyncOwes(sync'[r], failed', delivered')
    BY <1>0, <2>1, <2>2, <2>4, <2>5
  <2>7. NothingIsDroppedEarly'
    BY <1>0, <2>1 DEF NothingIsDroppedEarly
  <2>8. QED BY <1>0, <2>1, <2>6, <2>7 DEF Owing
<1>6. ASSUME NEW s \in Sync, PushFails(s) PROVE Owing'
  <2>1. /\ delivered \subseteq delivered' /\ sync[s].at = "pushing"
        /\ retries' = retries /\ queue' = queue
        /\ accepted' = accepted /\ aged' = aged
    BY <1>6 DEF PushFails, Deliver, storage
  <2>2. /\ Current(s) \in Items /\ Current(s) = Head(sync[s].batch)
        /\ Head(sync[s].batch) = sync[s].batch[1] /\ 1 \in 1 .. Len(sync[s].batch)
    <3>1. sync[s] \in Syncs /\ SyncSound(sync[s], Len(issued)) /\ sync[s].at # "idle"
      BY <1>0, <2>1
    <3>2. Len(sync[s].batch) \in Nat \ {0}
      BY <1>0, <3>1, BatchStep
    <3>3. /\ Head(sync[s].batch) \in Items
          /\ Head(sync[s].batch) = sync[s].batch[1]
      BY <1>0, <3>1, BatchStep
    <3>4. QED BY <3>2, <3>3 DEF Current
  <2> DEFINE o == Current(s).op
             r == Current(s).retries
  <2>3. o \in Op /\ r \in 0 .. MaxAttempts /\ r <= failed[o]
    BY <1>0, <2>2 DEF SyncOwes, Items
  <2>4. failed[o] \in 0 .. MaxAttempts + 1
    BY <1>t, <2>3 DEF Counts
  <2>5. \A p \in Op : failed[p] <= failed'[p] /\ failed'[p] \in Nat
    <3>1. /\ \A p \in Op : failed[p] \in Nat /\ failed'[p] \in Nat
      BY <1>t, OfflineAssumption DEF Counts
    <3>2. \A p \in Op : failed'[p] = failed[p] \/ failed'[p] = failed[p] + 1
      BY <1>t, <1>6, <2>3 DEF PushFails, Counts
    <3>3. QED BY <3>1, <3>2
  <2>6. \A u \in Sync : SyncOwes(sync[u], failed', delivered')
    BY <1>0, <1>t, <2>1, <2>5, OwesGrows
  <2>7. PICK b : /\ sync' = [sync EXCEPT ![s] = b] /\ b.batch = sync[s].batch
                 /\ b.at = "pushing" \/ (b.at = "err" /\ failed'[o] > r)
    <3>1. CASE sync[s].attempt < MaxAttempts
      <4> DEFINE b == [sync[s] EXCEPT !.attempt = sync[s].attempt + 1]
      <4>1. b.at = "pushing" /\ b.batch = sync[s].batch
        BY <1>0, <2>1 DEF Syncs
      <4>2. sync' = [sync EXCEPT ![s] = b]
        BY <1>0, <1>6, <3>1, OfflineAssumption DEF PushFails, Syncs
      <4> HIDE DEF b, o, r
      <4>3. QED BY <4>1, <4>2
    <3>2. CASE ~(sync[s].attempt < MaxAttempts)
      <4> DEFINE b == [sync[s] EXCEPT !.at = "err"]
      <4>1. b.at = "err" /\ b.batch = sync[s].batch
        BY <1>0 DEF Syncs
      <4>2. sync' = [sync EXCEPT ![s] = b]
        BY <1>6, <3>2 DEF PushFails
      <4>3. failed'[o] > r
        <5>1. failed' = [failed EXCEPT ![o] = IF failed[o] > MaxAttempts
                                              THEN failed[o] ELSE failed[o] + 1]
          BY <1>6, <3>2 DEF PushFails
        <5> HIDE DEF o, r
        <5>2. failed'[o] = IF failed[o] > MaxAttempts THEN failed[o] ELSE failed[o] + 1
          BY <1>t, <2>3, <5>1 DEF Counts
        <5>3. QED BY <2>3, <2>4, <5>2, OfflineAssumption
      <4> HIDE DEF b, o, r
      <4>4. QED BY <4>1, <4>2, <4>3
    <3>3. QED BY <3>1, <3>2
  <2>8. SyncOwes(b, failed', delivered')
    BY <2>2, <2>6, <2>7 DEF SyncOwes
  <2> HIDE DEF o, r
  <2>9. \A u \in Sync : SyncOwes(sync'[u], failed', delivered')
    BY <1>0, <2>6, <2>7, <2>8
  <2>10. \A p \in Op : retries'[p] <= failed'[p]
    BY <1>0, <1>t, <2>1, <2>5, OfflineAssumption DEF Counts
  <2>11. NothingIsDroppedEarly'
    <3>1. accepted \subseteq Op
      BY <1>o
    <3>2. \A p \in Op : failed[p] \in Nat
      BY <1>t, OfflineAssumption DEF Counts
    <3>3. QED BY <1>0, <2>1, <2>5, <3>1, <3>2, OfflineAssumption
              DEF NothingIsDroppedEarly
  <2>12. QED BY <2>9, <2>10, <2>11 DEF Owing
<1>7. ASSUME NEW s \in Sync, Dequeue(s) PROVE Owing'
  <2>1. \A r \in Sync : SyncOwes(sync'[r], failed, delivered)
    BY <1>7, NextOwes DEF Dequeue
  <2>2. Current(s).op \in delivered
    BY <1>0, <1>7 DEF Dequeue, SyncOwes, Current
  <2>3. NothingIsDroppedEarly'
    BY <1>7, <2>2, LeavesQueue DEF Dequeue, ghosts
  <2>4. QED BY <1>0, <1>7, <2>1, <2>3 DEF Dequeue, ghosts, Owing
<1>8. ASSUME NEW s \in Sync, Requeue(s) PROVE Owing'
  <2>1. \A r \in Sync : SyncOwes(sync'[r], failed, delivered)
    BY <1>8, NextOwes DEF Requeue
  <2>2. Current(s) \in Items /\ failed[Current(s).op] > Current(s).retries
    BY <1>0, <1>8, CurrentExists DEF Requeue, SyncOwes, Current
  <2>3. \A o \in Op : retries'[o] <= failed[o]
    <3> DEFINE n == Current(s).retries
               p == Current(s).op
    <3>1. p \in Op /\ n \in Nat /\ failed[p] > n /\ failed[p] \in Nat
      BY <1>t, <2>2, OfflineAssumption DEF Items, Counts
    <3>2. retries' = retries \/ retries' = [retries EXCEPT ![p] = n + 1]
      BY <1>8 DEF Requeue
    <3> HIDE DEF n, p
    <3>3. QED BY <1>0, <1>t, <3>1, <3>2
  <2>4. QED BY <1>0, <1>8, <2>1, <2>3 DEF Requeue, ghosts, Owing, NothingIsDroppedEarly
<1>9. ASSUME NEW s \in Sync, GiveUp(s) PROVE Owing'
  <2>1. \A r \in Sync : SyncOwes(sync'[r], failed, delivered)
    BY <1>9, NextOwes DEF GiveUp
  <2>2. failed[Current(s).op] > MaxAttempts
    <3>1. /\ Current(s) \in Items /\ failed[Current(s).op] > Current(s).retries
          /\ Current(s).retries >= MaxAttempts
      BY <1>0, <1>9, CurrentExists DEF GiveUp, SyncOwes, Current
    <3>2. failed[Current(s).op] \in Nat /\ Current(s).retries \in Nat
      BY <1>t, <3>1, OfflineAssumption DEF Counts, Items
    <3>3. QED BY <3>1, <3>2, OfflineAssumption
  <2>3. NothingIsDroppedEarly'
    BY <1>9, <2>2, LeavesQueue DEF GiveUp, ghosts
  <2>4. QED BY <1>0, <1>9, <2>1, <2>3 DEF GiveUp, ghosts, Owing
<1>10. ASSUME NEW s \in Sync, CutShort(s) PROVE Owing'
  <2>1. \A r \in Sync : SyncOwes(sync'[r], failed, delivered)
    BY <1>0, <1>10, IdleOwes DEF CutShort
  <2>2. QED BY <1>0, <1>10, <2>1
            DEF CutShort, storage, ghosts, Owing, NothingIsDroppedEarly
<1>11. ASSUME Crash PROVE Owing'
  BY <1>0, <1>11, IdleOwes DEF Crash, storage, ghosts, Owing, NothingIsDroppedEarly
<1>12. ASSUME NEW a \in App, NEW k \in Key, Write(a, k) \/ ReadForUpdate(a, k)
       PROVE Owing'
  BY <1>1, <1>12 DEF Write, ReadForUpdate, PutRecord, storage
<1>13. CASE RemoteChanges \/ UNCHANGED vars
  BY <1>1, <1>13 DEF RemoteChanges, vars, storage
<1>14. ASSUME NEW k \in Key, Delete(k) PROVE Owing'
  BY <1>1, <1>14 DEF Delete
<1>15. ASSUME NEW a \in App, Update(a) \/ CheckSize(a) PROVE Owing'
  BY <1>1, <1>15 DEF Update, CheckSize, PutRecord, storage
<1>16. QED
  BY <1>2, <1>3, <1>4, <1>5, <1>6, <1>7, <1>8, <1>9, <1>10, <1>11, <1>12, <1>13,
     <1>14, <1>15 DEF Next, SyncStep

(* An operation that was accepted is in the queue until it has been pushed,   *)
(* has reached its age limit or has used up its retries, although syncs at    *)
(* once write retry counts that are out of date and a crash ends any of them. *)
THEOREM DroppedOnlyWhenDue == Spec => []NothingIsDroppedEarly
<1>1. Init => Owing
  BY IdleOwes DEF Init, Owing, NothingIsDroppedEarly
<1>2. Sound /\ Owing /\ [Next]_vars => (Sound /\ Owing)'
  BY SoundStep, OwingStep
<1>3. Owing => NothingIsDroppedEarly
  BY DEF Owing
<1>4. QED BY <1>1, <1>2, <1>3, SoundInit, PTL DEF Spec

(* Writers that have looked at the size and have not inserted yet.           *)
Sized == {a \in App : app[a].at = "sized"}

Bounded == Cardinality(queue) + Cardinality(Sized)
               <= MaxQueueSize - 1 + Cardinality(mode.apps)

LEMMA Finite ==
    ASSUME Sound
    PROVE  /\ IsFiniteSet(queue) /\ IsFiniteSet(Sized) /\ IsFiniteSet(mode.apps)
           /\ Sized \subseteq mode.apps
           /\ Cardinality(Sized) <= Cardinality(mode.apps)
           /\ Cardinality(queue) \in Nat /\ Cardinality(Sized) \in Nat
           /\ Cardinality(mode.apps) \in Nat
<1>1. IsFiniteSet(queue)
  <2>1. queue \subseteq 1 .. Len(issued) /\ Len(issued) \in Nat
    BY Types DEF Sound, TypeOK, Issued
  <2>2. IsFiniteSet(1 .. Len(issued))
    BY <2>1, FS_Interval
  <2>3. QED BY <2>1, <2>2, FS_Subset
<1>2. IsFiniteSet(mode.apps)
  BY ModeType, OfflineAssumption, FS_Subset DEF Sound
<1>3. Sized \subseteq mode.apps
  BY DEF Sized, Sound, CallSound
<1>4. IsFiniteSet(Sized) /\ Cardinality(Sized) <= Cardinality(mode.apps)
  BY <1>2, <1>3, FS_Subset
<1>5. QED BY <1>1, <1>2, <1>3, <1>4, FS_CardinalityType

(* A step after which neither set has more members.                          *)
LEMMA NoMore ==
    ASSUME Sound, Sound', Bounded, mode' = mode,
           queue' \subseteq queue, Sized' \subseteq Sized
    PROVE  Bounded'
<1>1. Cardinality(queue') <= Cardinality(queue)
  BY Finite, FS_Subset
<1>2. Cardinality(Sized') <= Cardinality(Sized)
  BY Finite, FS_Subset
<1>3. /\ Cardinality(queue') \in Nat /\ Cardinality(Sized') \in Nat
  <2>1. IsFiniteSet(queue') /\ IsFiniteSet(Sized')
    BY Finite, FS_Subset
  <2>2. QED BY <2>1, FS_CardinalityType
<1>4. QED BY <1>1, <1>2, <1>3, Finite, OfflineAssumption DEF Bounded

LEMMA BoundedStep ==
    ASSUME Sound, Sound', Bounded, [Next]_vars
    PROVE  Bounded'
<1>0. app \in [App -> Calls]
  BY Types
<1>1. ASSUME mode' = mode, queue' \subseteq queue, app' = app PROVE Bounded'
  BY <1>1, NoMore DEF Sized
<1>2. ASSUME NEW a \in App, NEW c, c.at # "sized", mode' = mode, queue' = queue,
             app' = [app EXCEPT ![a] = c]
      PROVE  Bounded'
  <2>1. Sized' \subseteq Sized
    BY <1>0, <1>2 DEF Sized
  <2>2. QED BY <1>2, <2>1, NoMore
<1>3. ASSUME NEW a \in App, CheckSize(a) PROVE Bounded'
  <2>1. CASE Cardinality(queue) >= MaxQueueSize
    BY <1>2, <1>3, <2>1, Idle DEF CheckSize, storage
  <2>2. CASE ~(Cardinality(queue) >= MaxQueueSize)
    <3>1. queue' = queue /\ mode' = mode
      BY <1>3 DEF CheckSize, storage
    <3>2. Cardinality(Sized') <= Cardinality(mode.apps) /\ Cardinality(Sized') \in Nat
      <4>1. Sized' \subseteq mode.apps
        BY <3>1 DEF Sized, Sound, CallSound
      <4>2. QED BY <4>1, Finite, FS_Subset, FS_CardinalityType
    <3>3. QED BY <2>2, <3>1, <3>2, Finite, OfflineAssumption DEF Bounded
  <2>3. QED BY <2>1, <2>2
<1>4. ASSUME NEW a \in App, Enqueue(a) PROVE Bounded'
  <2>1. /\ a \in Sized /\ queue' = queue \cup {app[a].op} /\ mode' = mode
    BY <1>4 DEF Enqueue, Sized
  <2>2. Sized' = Sized \ {a}
    <3>1. app' = [app EXCEPT ![a] = NoCall] /\ NoCall.at # "sized"
      BY <1>4, Idle DEF Enqueue
    <3>2. QED BY <1>0, <3>1 DEF Sized
  <2>3. Cardinality(Sized') = Cardinality(Sized) - 1
    BY <2>1, <2>2, Finite, FS_RemoveElement
  <2>4. Cardinality(queue') <= Cardinality(queue) + 1 /\ Cardinality(queue') \in Nat
    <3> DEFINE o == app[a].op
    <3>1. queue' = queue \cup {o} /\ IsFiniteSet(queue) /\ Cardinality(queue) \in Nat
      BY <2>1, Finite
    <3> HIDE DEF o
    <3>2. \/ Cardinality(queue \cup {o}) = Cardinality(queue)
          \/ Cardinality(queue \cup {o}) = Cardinality(queue) + 1
      BY <3>1, FS_AddElement
    <3>3. QED BY <3>1, <3>2
  <2>5. QED BY <2>1, <2>3, <2>4, Finite, OfflineAssumption DEF Bounded
<1>5. ASSUME NEW a \in App, NEW k \in Key, Write(a, k) PROVE Bounded'
  BY <1>2, <1>5 DEF Write, PutRecord
<1>6. ASSUME NEW a \in App, NEW k \in Key, ReadForUpdate(a, k) PROVE Bounded'
  BY <1>2, <1>6 DEF ReadForUpdate, storage
<1>7. ASSUME NEW a \in App, Update(a) PROVE Bounded'
  BY <1>2, <1>7 DEF Update, PutRecord
<1>8. ASSUME Crash PROVE Bounded'
  <2>1. Sized' \subseteq Sized
    BY <1>8, Idle DEF Sized, Crash
  <2>2. QED BY <1>8, <2>1, NoMore DEF Crash, storage
<1>9. ASSUME NEW s \in Sync, StartSync(s) \/ SyncStep(s) \/ CutShort(s) PROVE Bounded'
  BY <1>1, <1>9 DEF SyncStep, StartSync, PushSucceeds, PushFails, Dequeue, Requeue,
                    GiveUp, CutShort, storage
<1>10. ASSUME NEW o \in Op, Prune(o) PROVE Bounded'
  BY <1>1, <1>10 DEF Prune
<1>11. ASSUME NEW k \in Key, Delete(k) PROVE Bounded'
  BY <1>1, <1>11 DEF Delete
<1>12. CASE RemoteChanges \/ UNCHANGED vars
  BY <1>1, <1>12 DEF RemoteChanges, vars, storage
<1>13. QED
  BY <1>3, <1>4, <1>5, <1>6, <1>7, <1>8, <1>9, <1>10, <1>11, <1>12 DEF Next

(* The queue never holds MaxQueueSize operations and one more for each writer *)
(* at work, although each writer looks at its size and inserts in two steps.  *)
THEOREM QueueStaysBounded == Spec => []QueueIsBounded
<1>1. Init => Bounded
  <2> SUFFICES ASSUME Init PROVE Bounded
    OBVIOUS
  <2>1. queue = {} /\ Sized = {}
    BY Idle DEF Init, Sized
  <2>2. QED BY <2>1, SoundInit, Finite, FS_EmptySet, OfflineAssumption DEF Bounded
<1>2. Sound /\ Bounded /\ [Next]_vars => (Sound /\ Bounded)'
  BY SoundStep, BoundedStep
<1>3. Sound /\ Bounded => QueueIsBounded
  BY Finite, OfflineAssumption DEF Bounded, QueueIsBounded
<1>4. QED BY <1>1, <1>2, <1>3, SoundInit, PTL DEF Spec
-----------------------------------------------------------------------------
(* Versions in order: one writer, one sync, a remote that does not fail and  *)
(* no two operations of one second.                                          *)

(* A later version of a record is a later operation, the table of records    *)
(* has the latest, and no two keys share a record.                           *)
VersionsGrow ==
    /\ \A i \in Issued : issued[i].second = i /\ issued[i].id <= i
    /\ \A i, j \in Issued : i < j /\ issued[i].id = issued[j].id
                               => issued[i].version < issued[j].version
    /\ \A k \in Key : /\ records[k].id <= Len(issued)
                      /\ \A i \in Issued : issued[i].id = records[k].id
                                              => issued[i].version <= records[k].version
    /\ \A k, l \in Key : k # l /\ records[k].id = records[l].id => records[k].id = 0

(* What the writer has read is still so; what it enqueues is the last.       *)
OneWriter ==
    \A a \in App :
        /\ app[a].at = "read" => /\ app[a].id = records[app[a].key].id
                                 /\ app[a].version = records[app[a].key].version
        /\ app[a].at \in {"stored", "sized"} => app[a].op = Len(issued)

(* A batch is pushed in the order of creation, Q has nothing older that is   *)
(* not in it, and nothing that was delivered (D) is newer.                   *)
InOrder(b, Q, D) ==
    /\ b.at # "err" /\ (b.at = "idle" => b.batch = <<>>)
    /\ \A i, j \in 1 .. Len(b.batch) : i < j => b.batch[i].op < b.batch[j].op
    /\ \A i \in 1 .. Len(b.batch) : \A q \in Q :
           q < b.batch[i].op => \E j \in 1 .. Len(b.batch) : j < i /\ b.batch[j].op = q
    /\ \A i \in 1 .. Len(b.batch) : \A d \in D : d <= b.batch[i].op

OneSync ==
    /\ healthy
    /\ \A s \in Sync : InOrder(sync[s], queue, delivered)
    /\ \A s \in Sync : sync[s].at # "idle" => s \in mode.syncs
    /\ \A d \in delivered : \A q \in queue : d <= q
    /\ \A o \in Op : remote[o] # -1 =>
           \E d \in delivered : issued[d].id = o /\ issued[d].version = remote[o]

OrderInv == Orderly => VersionsGrow /\ OneWriter /\ OneSync

LEMMA OneTask ==
    ASSUME Sound, Orderly
    PROVE  /\ \A a, b \in mode.apps : a = b
           /\ \A s, t \in mode.syncs : s = t
<1>1. IsFiniteSet(mode.apps) /\ IsFiniteSet(mode.syncs)
  BY ModeType, OfflineAssumption, FS_Subset DEF Sound
<1>2. (\E x : mode.apps = {x}) /\ (\E x : mode.syncs = {x})
  BY <1>1, FS_Singleton DEF Orderly
<1>3. QED BY <1>2

LEMMA OrderTypes ==
    ASSUME Sound
    PROVE  /\ Len(issued) \in Nat /\ Issued = 1 .. Len(issued)
           /\ \A i \in Issued : /\ issued[i].id \in Nat \ {0} /\ issued[i].version \in Nat
                                /\ issued[i].second \in Nat
           /\ \A k \in Key : records[k].id \in Nat /\ records[k].version \in Nat
           /\ \A a \in App : /\ app[a].key \in Key /\ app[a].id \in Nat
                             /\ app[a].version \in Nat /\ app[a].op \in Nat
           /\ queue \subseteq Issued /\ delivered \subseteq Issued
<1>1. /\ issued \in Seq(Issues) /\ Len(issued) \in Nat /\ Issued = 1 .. Len(issued)
      /\ records \in [Key -> Records] /\ app \in [App -> Calls] /\ MaxOps \in Nat
  BY Types, OfflineAssumption DEF Issued
<1>2. \A i \in Issued : issued[i] \in Issues
  BY <1>1
<1>3. \A i \in Issued : /\ issued[i].id \in Nat \ {0} /\ issued[i].version \in Nat
                          /\ issued[i].second \in Nat
  BY <1>1, <1>2 DEF Issues, Op
<1>4. \A k \in Key : records[k].id \in Nat /\ records[k].version \in Nat
  BY <1>1 DEF Records
<1>5. \A a \in App : /\ app[a].key \in Key /\ app[a].id \in Nat
                      /\ app[a].version \in Nat /\ app[a].op \in Nat
  BY <1>1 DEF Calls
<1>6. QED BY <1>1, <1>3, <1>4, <1>5 DEF Sound, TypeOK

(* What a writer puts: a new record, or the version after the one it read.   *)
Succeeds(k, id, version) ==
    /\ id \in 1 .. Len(issued) + 1 /\ version \in Nat
    /\ \A i \in Issued : issued[i].id = id => issued[i].version < version
    /\ \A l \in Key \ {k} : records[l].id # id

LEMMA WriteSucceeds ==
    ASSUME Sound, VersionsGrow, NEW k \in Key
    PROVE  Succeeds(k, Len(issued) + 1, 0)
BY OrderTypes DEF VersionsGrow, Succeeds

LEMMA UpdateSucceeds ==
    ASSUME Sound, VersionsGrow, OneWriter, NEW a \in App, app[a].at = "read"
    PROVE  Succeeds(app[a].key, app[a].id, app[a].version + 1)
<1>1. app[a].id # 0
  BY DEF Sound, CallSound
<1>2. PICK k \in Key, id \in Nat, v \in Nat :
          /\ k = app[a].key /\ id = app[a].id /\ v = app[a].version
          /\ id = records[k].id /\ v = records[k].version
  BY OrderTypes DEF OneWriter
<1>3. id \in 1 .. Len(issued)
  BY <1>1, <1>2, OrderTypes DEF VersionsGrow
<1>4. \A i \in Issued : issued[i].id = id => issued[i].version < v + 1
  BY <1>2, OrderTypes DEF VersionsGrow
<1>5. \A l \in Key \ {k} : records[l].id # id
  BY <1>1, <1>2 DEF VersionsGrow
<1>6. Succeeds(k, id, v + 1)
  BY <1>3, <1>4, <1>5, OrderTypes DEF Succeeds
<1>7. QED BY <1>2, <1>6

LEMMA PutRecordGrows ==
    ASSUME Sound, Sound', Orderly, VersionsGrow, NEW a \in App, NEW k \in Key, NEW id, NEW version,
           Succeeds(k, id, version), PutRecord(a, k, id, version)
    PROVE  /\ VersionsGrow' /\ Len(issued') = Len(issued) + 1
           /\ \A i \in Issued : issued'[i] = issued[i]
<1>1. PICK second : Now(second) /\ issued' = Append(issued, [id |-> id, version |-> version,
                                                             second |-> second])
  BY DEF PutRecord
<1>2. issued \in Seq(Issues) /\ Len(issued) \in Nat
  BY Types
<1>3. second = Len(issued) + 1
  <2>1. CASE issued = <<>>
    BY <1>1, <2>1 DEF Now, Orderly
  <2>2. CASE issued # <<>>
    <3>1. Len(issued) \in Issued
      BY <1>2, <2>2, LenNotZero DEF Issued
    <3>2. issued[Len(issued)].second = Len(issued)
      BY <3>1 DEF VersionsGrow
    <3>3. QED BY <1>1, <2>2, <3>2 DEF Now, Orderly
  <2>3. QED BY <2>1, <2>2
<1> DEFINE e == [id |-> id, version |-> version, second |-> second]
<1>4. PICK n : n = Len(issued)
  OBVIOUS
<1>5. /\ n \in Nat /\ Issued = 1 .. n /\ Len(issued') = n + 1
      /\ Issued' = 1 .. n + 1
      /\ issued'[n + 1] = e /\ \A i \in 1 .. n : issued'[i] = issued[i]
  <2>1. Len(issued') = n + 1 /\ issued'[n + 1] = e /\ \A i \in 1 .. n : issued'[i] = issued[i]
    BY <1>1, <1>2, <1>4
  <2>2. QED BY <1>2, <1>4, <2>1 DEF Issued
<1>6. e.id = id /\ e.version = version /\ e.second = n + 1
  BY <1>3, <1>4
<1> HIDE DEF e
<1>7. records' = [records EXCEPT ![k] = [id |-> id, version |-> version, live |-> TRUE]]
  BY DEF PutRecord
<1>8. records \in [Key -> Records]
  BY Types
<1>9. /\ records'[k].id = id /\ records'[k].version = version
      /\ \A l \in Key \ {k} : records'[l] = records[l]
  BY <1>7, <1>8
<1>10. /\ id \in 1 .. n + 1 /\ version \in Nat
       /\ \A i \in 1 .. n : issued[i].id = id => issued[i].version < version
       /\ \A l \in Key \ {k} : records[l].id # id
  BY <1>4, <1>5 DEF Succeeds
<1>11. \A i \in 1 .. n + 1 : issued'[i].second = i /\ issued'[i].id <= i
  <2>1. \A i \in 1 .. n : issued'[i].second = i /\ issued'[i].id <= i
    BY <1>5 DEF VersionsGrow
  <2>2. issued'[n + 1].second = n + 1 /\ issued'[n + 1].id <= n + 1
    BY <1>5, <1>6, <1>10
  <2>3. QED BY <1>5, <2>1, <2>2
<1>12. \A i, j \in 1 .. n + 1 : i < j /\ issued'[i].id = issued'[j].id
                                   => issued'[i].version < issued'[j].version
  <2>1. SUFFICES ASSUME NEW i \in 1 .. n + 1, NEW j \in 1 .. n + 1, i < j,
                        issued'[i].id = issued'[j].id
                 PROVE  issued'[i].version < issued'[j].version
    OBVIOUS
  <2>2. i \in 1 .. n /\ issued'[i] = issued[i]
    BY <1>5, <2>1
  <2>3. CASE j = n + 1
    BY <1>5, <1>6, <1>10, <2>1, <2>2, <2>3
  <2>4. CASE j \in 1 .. n
    BY <1>5, <2>1, <2>2, <2>4 DEF VersionsGrow
  <2>5. QED BY <1>5, <2>3, <2>4
<1>13. \A l \in Key : /\ records'[l].id <= n + 1
                      /\ \A i \in 1 .. n + 1 : issued'[i].id = records'[l].id
                                              => issued'[i].version <= records'[l].version
  <2>1. /\ records'[k].id <= n + 1
        /\ \A i \in 1 .. n + 1 : issued'[i].id = records'[k].id
                                    => issued'[i].version <= records'[k].version
    <3>1. \A i \in 1 .. n : issued[i].version \in Nat
      BY <1>5, OrderTypes
    <3>2. \A i \in 1 .. n : issued'[i].id = id => issued'[i].version <= version
      BY <1>5, <1>10, <3>1
    <3>3. QED BY <1>5, <1>6, <1>9, <1>10, <3>2
  <2>2. ASSUME NEW l \in Key \ {k}
        PROVE  /\ records'[l].id <= n + 1
               /\ \A i \in 1 .. n + 1 : issued'[i].id = records'[l].id
                                           => issued'[i].version <= records'[l].version
    <3>1. records[l].id <= n /\ records[l].id \in Nat
      BY <1>4, OrderTypes DEF VersionsGrow
    <3>2. \A i \in 1 .. n : issued[i].id = records[l].id => issued[i].version <= records[l].version
      BY <1>5 DEF VersionsGrow
    <3>3. issued'[n + 1].id # records[l].id
      BY <1>5, <1>6, <1>10
    <3>4. QED BY <1>5, <1>9, <3>1, <3>2, <3>3
  <2>3. QED BY <2>1, <2>2
<1>14. \A l, m \in Key : l # m /\ records'[l].id = records'[m].id => records'[l].id = 0
  BY <1>9, <1>10 DEF VersionsGrow
<1>15. VersionsGrow'
  BY <1>5, <1>11, <1>12, <1>13, <1>14 DEF VersionsGrow
<1>16. QED BY <1>4, <1>5, <1>15

(* Steps that create no operation and change no version of a record.         *)
LEMMA SameVersions ==
    ASSUME VersionsGrow, UNCHANGED issued,
           \A k \in Key : records'[k].id = records[k].id /\ records'[k].version = records[k].version
    PROVE  VersionsGrow'
BY DEF VersionsGrow, Issued

LEMMA SameWriter ==
    ASSUME OneWriter, UNCHANGED <<issued, app>>,
           \A k \in Key : records'[k].id = records[k].id /\ records'[k].version = records[k].version,
           \A a \in App : app[a].key \in Key
    PROVE  OneWriter'
BY DEF OneWriter

(* Only the writer's own call changes.                                       *)
LEMMA WriterMoves ==
    ASSUME Sound, Orderly, NEW a \in App, a \in mode.apps, NEW c, app' = [app EXCEPT ![a] = c],
           c.at = "read" => c.id = records'[c.key].id /\ c.version = records'[c.key].version,
           c.at \in {"stored", "sized"} => c.op = Len(issued')
    PROVE  OneWriter'
<1>1. app \in [App -> Calls]
  BY Types
<1>2. \A b \in App \ {a} : app'[b].at = "idle"
  BY <1>1, OneTask DEF Sound, CallSound
<1>3. app'[a] = c
  BY <1>1
<1>4. QED BY <1>2, <1>3 DEF OneWriter

LEMMA SameSync ==
    ASSUME Sound, OneSync, UNCHANGED <<sync, delivered, remote, mode, healthy>>,
           queue' \subseteq queue \/ (queue' \subseteq queue \cup {Len(issued)}),
           \A i \in Issued : issued'[i] = issued[i]
    PROVE  OneSync'
<1>1. /\ Len(issued) \in Nat /\ Issued = 1 .. Len(issued) /\ delivered \subseteq Issued
  BY OrderTypes
<1>2. ASSUME NEW s \in Sync PROVE InOrder(sync[s], queue', delivered)
  <2>1. InOrder(sync[s], queue, delivered)
    BY DEF OneSync
  <2>2. \A i \in 1 .. Len(sync[s].batch) : sync[s].batch[i].op \in 1 .. Len(issued)
    BY DEF Sound, SyncSound
  <2>3. ASSUME NEW i \in 1 .. Len(sync[s].batch), NEW q \in queue', q < sync[s].batch[i].op
        PROVE  q \in queue
    BY <1>1, <2>2, <2>3
  <2>4. QED BY <2>1, <2>3 DEF InOrder
<1>3. \A d \in delivered : \A q \in queue' : d <= q
  BY <1>1 DEF OneSync
<1>4. \A o \in Op : remote[o] # -1 =>
          \E d \in delivered : issued'[d].id = o /\ issued'[d].version = remote[o]
  BY <1>1 DEF OneSync
<1>5. QED BY <1>2, <1>3, <1>4 DEF OneSync

(* One sync goes on with the batch b.                                        *)
LEMMA SyncMoves ==
    ASSUME Sound, OneSync, NEW s \in Sync, NEW b, sync' = [sync EXCEPT ![s] = b],
           UNCHANGED <<issued, mode, healthy>>, queue' \subseteq queue, Orderly,
           b.at # "idle" => s \in mode.syncs, InOrder(b, queue', delivered'),
           s \in mode.syncs,
           \A d \in delivered' : \A q \in queue' : d <= q,
           \A o \in Op : remote'[o] # -1 =>
               \E d \in delivered' : issued[d].id = o /\ issued[d].version = remote'[o]
    PROVE  OneSync'
<1>1. sync \in [Sync -> Syncs]
  BY Types
<1>2. \A t \in Sync \ {s} : sync'[t] = sync[t] /\ sync[t].at = "idle"
  BY <1>1, OneTask DEF OneSync
<1>3. sync'[s] = b
  BY <1>1
<1>4. ASSUME NEW t \in Sync \ {s} PROVE InOrder(sync'[t], queue', delivered')
  <2>1. sync'[t].batch = <<>> /\ sync'[t].at = "idle"
    BY <1>2 DEF OneSync, InOrder
  <2>2. Len(sync'[t].batch) = 0
    BY <2>1
  <2>3. QED BY <2>1, <2>2 DEF InOrder
<1>5. \A t \in Sync : InOrder(sync'[t], queue', delivered')
  BY <1>3, <1>4
<1>6. \A t \in Sync : sync'[t].at # "idle" => t \in mode.syncs
  BY <1>2, <1>3
<1>7. QED BY <1>5, <1>6 DEF OneSync

LEMMA NothingInOrder == ASSUME NEW Q, NEW D PROVE InOrder(NoSync, Q, D)
<1>1. NoSync.at = "idle" /\ NoSync.batch = <<>> /\ Len(NoSync.batch) = 0
  BY Idle
<1>2. QED BY <1>1 DEF InOrder

LEMMA StartInOrder ==
    ASSUME Sound, VersionsGrow, OneSync, Orderly, NEW s \in Sync, StartSync(s)
    PROVE  OneSync'
<1>0. /\ Len(issued) \in Nat /\ Issued = 1 .. Len(issued)
      /\ queue \subseteq Issued /\ delivered \subseteq Issued
  BY OrderTypes
<1>1. PICK n \in 1 .. BatchSize : \E batch \in [1 .. n -> queue] :
          /\ Oldest(batch)
          /\ sync' = [sync EXCEPT ![s] =
                 [at |-> "pushing", attempt |-> 0,
                  batch |-> [i \in 1 .. n |-> [op |-> batch[i], retries |-> retries[batch[i]]]]]]
  BY DEF StartSync
<1>2. PICK batch \in [1 .. n -> queue] :
          /\ Oldest(batch)
          /\ sync' = [sync EXCEPT ![s] =
                 [at |-> "pushing", attempt |-> 0,
                  batch |-> [i \in 1 .. n |-> [op |-> batch[i], retries |-> retries[batch[i]]]]]]
  BY <1>1
<1> DEFINE f == [i \in 1 .. n |-> [op |-> batch[i], retries |-> retries[batch[i]]]]
           b == [at |-> "pushing", attempt |-> 0, batch |-> f]
<1>3. n \in Nat /\ n >= 1 /\ DOMAIN batch = 1 .. n /\ \A i \in 1 .. n : batch[i] \in queue
  BY OfflineAssumption
<1>4. Len(f) = n /\ \A i \in 1 .. n : f[i].op = batch[i]
  <2>1. \A i \in 1 .. n : f[i].op = batch[i]
    OBVIOUS
  <2>2. Len(f) = n
    BY <1>3
  <2>3. QED BY <2>1, <2>2
<1>5. \A i \in 1 .. n : batch[i] \in Nat /\ issued[batch[i]].second = batch[i]
  BY <1>0, <1>3 DEF VersionsGrow
<1>6. \A i \in 1 .. n : \A o \in queue \ {batch[j] : j \in 1 .. i} : batch[i] <= o
  <2>1. \A i \in 1 .. n : \A o \in queue \ {batch[j] : j \in 1 .. i} :
            issued[batch[i]].second <= issued[o].second
    BY <1>2, <1>3 DEF Oldest
  <2>2. \A o \in queue : issued[o].second = o
    BY <1>0 DEF VersionsGrow
  <2>3. QED BY <1>5, <2>1, <2>2
<1>7. \A i, j \in 1 .. n : i < j => batch[i] < batch[j]
  <2>1. SUFFICES ASSUME NEW i \in 1 .. n, NEW j \in 1 .. n, i < j PROVE batch[i] < batch[j]
    OBVIOUS
  <2>2. \A k \in 1 .. i : batch[k] # batch[j]
    BY <1>2, <1>3, <2>1 DEF Oldest, IsInjective
  <2>3. batch[i] <= batch[j] /\ batch[i] # batch[j]
    BY <1>3, <1>6, <2>1, <2>2
  <2>4. QED BY <1>5, <2>3
<1>8. ASSUME NEW i \in 1 .. n, NEW q \in queue, q < batch[i]
      PROVE  \E j \in 1 .. n : j < i /\ batch[j] = q
  <2>1. q \in Nat
    BY <1>0
  <2>2. q \in {batch[j] : j \in 1 .. i}
    BY <1>5, <1>6, <1>8, <2>1
  <2>3. PICK j \in 1 .. i : batch[j] = q
    BY <2>2
  <2>4. j # i
    BY <1>5, <1>8, <2>3
  <2>5. QED BY <1>3, <2>3, <2>4
<1>9. \A i \in 1 .. n : \A d \in delivered : d <= batch[i]
  BY <1>3 DEF OneSync
<1>10. sync' = [sync EXCEPT ![s] = b]
  BY <1>2
<1> HIDE DEF f
<1>11. InOrder(b, queue, delivered)
  BY <1>4, <1>7, <1>8, <1>9 DEF InOrder
<1> HIDE DEF b
<1>12. /\ UNCHANGED <<issued, mode, healthy, queue, delivered, remote>> /\ s \in mode.syncs
  BY DEF StartSync, storage, ghosts
<1>13. /\ \A d \in delivered : \A q \in queue : d <= q
       /\ \A o \in Op : remote[o] # -1 =>
              \E d \in delivered : issued[d].id = o /\ issued[d].version = remote[o]
  BY DEF OneSync
<1>14. QED BY <1>10, <1>11, <1>12, <1>13, SyncMoves

(* The operation at the head of a batch is the oldest there is.              *)
LEMMA HeadIsOldest ==
    ASSUME Sound, OneSync, NEW s \in Sync, sync[s].at # "idle"
    PROVE  /\ Current(s).op \in Issued /\ s \in mode.syncs
           /\ Len(sync[s].batch) \in Nat \ {0} /\ Current(s) = sync[s].batch[1]
           /\ \A q \in queue : Current(s).op <= q
           /\ \A d \in delivered : d <= Current(s).op
<1>1. /\ Len(issued) \in Nat /\ Issued = 1 .. Len(issued) /\ queue \subseteq Issued
  BY OrderTypes
<1>2. sync[s] \in Syncs /\ SyncSound(sync[s], Len(issued)) /\ InOrder(sync[s], queue, delivered)
  BY Types DEF Sound, OneSync
<1>3. /\ Len(sync[s].batch) \in Nat \ {0} /\ Current(s) = sync[s].batch[1]
      /\ Current(s).op \in 1 .. Len(issued)
  BY <1>1, <1>2, BatchStep DEF Current
<1>4. \A q \in queue : ~(q < sync[s].batch[1].op)
  BY <1>2, <1>3 DEF InOrder
<1>5. \A q \in queue : Current(s).op <= q
  BY <1>1, <1>3, <1>4
<1>6. \A d \in delivered : d <= Current(s).op
  BY <1>2, <1>3 DEF InOrder
<1>7. QED BY <1>1, <1>3, <1>5, <1>6 DEF OneSync

LEMMA PushInOrder ==
    ASSUME Sound, VersionsGrow, OneSync, Orderly, NEW s \in Sync, PushSucceeds(s)
    PROVE  OneSync' /\ \A o \in Op : remote'[o] >= remote[o]
<1>0. /\ Len(issued) \in Nat /\ Issued = 1 .. Len(issued)
      /\ queue \subseteq Issued /\ delivered \subseteq Issued
  BY OrderTypes
<1>1. PICK h : h = Current(s).op
  OBVIOUS
<1>2. /\ sync[s].at = "pushing" /\ delivered' = delivered \cup {h}
      /\ remote' = [remote EXCEPT ![issued[h].id] = issued[h].version]
      /\ sync' = [sync EXCEPT ![s].at = "ok"]
      /\ UNCHANGED <<issued, mode, healthy, queue>>
  BY <1>1 DEF PushSucceeds, Deliver, storage
<1>3. /\ h \in Issued /\ s \in mode.syncs /\ Len(sync[s].batch) \in Nat \ {0}
      /\ h = sync[s].batch[1].op
      /\ \A q \in queue : h <= q
      /\ \A d \in delivered : d <= h
  BY <1>1, <1>2, HeadIsOldest
<1>4. InOrder(sync[s], queue, delivered) /\ sync[s] \in Syncs
  BY Types DEF OneSync
<1> DEFINE b == [sync[s] EXCEPT !.at = "ok"]
<1>5. b.batch = sync[s].batch /\ b.at = "ok"
  BY <1>4 DEF Syncs
<1>6. sync' = [sync EXCEPT ![s] = b]
  BY <1>2
<1> HIDE DEF b
<1>7. InOrder(b, queue, delivered')
  <2>1. \A i \in 1 .. Len(sync[s].batch) : sync[s].batch[i].op \in Nat
    BY <1>0 DEF Sound, SyncSound
  <2>2. \A i \in 1 .. Len(sync[s].batch) : h <= sync[s].batch[i].op
    BY <1>0, <1>3, <1>4, <2>1 DEF InOrder
  <2>3. \A i \in 1 .. Len(sync[s].batch) : \A d \in delivered' : d <= sync[s].batch[i].op
    BY <1>2, <1>4, <2>2 DEF InOrder
  <2>4. QED BY <1>4, <1>5, <2>3 DEF InOrder
<1>8. \A d \in delivered' : \A q \in queue' : d <= q
  BY <1>2, <1>3 DEF OneSync
<1>9. issued[h].id \in Op /\ issued[h].version \in Nat /\ remote \in [Op -> -1 .. MaxOps]
  <2>1. issued[h].id \in Nat \ {0} /\ issued[h].version \in Nat
    BY <1>3, OrderTypes
  <2>2. issued[h].id <= h /\ h \in 1 .. Len(issued) /\ Len(issued) <= MaxOps /\ MaxOps \in Nat
    BY <1>0, <1>3, OfflineAssumption DEF VersionsGrow, Sound
  <2>3. issued[h].id \in 1 .. MaxOps
    BY <1>0, <2>1, <2>2
  <2>4. QED BY <2>1, <2>3 DEF Op, Sound, TypeOK
<1>10. \A o \in Op : remote'[o] # -1 =>
           \E d \in delivered' : issued[d].id = o /\ issued[d].version = remote'[o]
  <2>1. ASSUME NEW o \in Op \ {issued[h].id}, remote'[o] # -1
        PROVE  \E d \in delivered' : issued[d].id = o /\ issued[d].version = remote'[o]
    <3>1. remote'[o] = remote[o]
      BY <1>2, <1>9
    <3>2. PICK d \in delivered : issued[d].id = o /\ issued[d].version = remote[o]
      BY <2>1, <3>1 DEF OneSync
    <3>3. QED BY <1>2, <3>1, <3>2
  <2>2. remote'[issued[h].id] = issued[h].version /\ h \in delivered'
    BY <1>2, <1>9
  <2>3. QED BY <2>1, <2>2
<1>11. OneSync'
  BY <1>2, <1>3, <1>5, <1>6, <1>7, <1>8, <1>10, SyncMoves
<1>12. remote[issued[h].id] <= issued[h].version
  <2>1. PICK o \in Op : o = issued[h].id
    BY <1>9
  <2>2. CASE remote[o] = -1
    BY <1>9, <2>1, <2>2
  <2>3. CASE remote[o] # -1
    <3>1. PICK d \in delivered : issued[d].id = o /\ issued[d].version = remote[o]
      BY <2>3 DEF OneSync
    <3>2. d <= h /\ d \in Issued
      BY <1>0, <1>3
    <3>3. d = h \/ issued[d].version < issued[h].version
      BY SMTT(20), <1>0, <1>3, <2>1, <3>1, <3>2 DEF VersionsGrow
    <3>4. issued[d].version \in Nat
      BY <3>2, OrderTypes
    <3>5. QED BY <1>9, <2>1, <3>1, <3>3, <3>4
  <2>4. QED BY <2>2, <2>3
<1>13. \A o \in Op : remote'[o] >= remote[o]
  BY <1>2, <1>9, <1>12
<1>14. QED BY <1>11, <1>13

LEMMA DequeueInOrder ==
    ASSUME Sound, OneSync, Orderly, NEW s \in Sync, Dequeue(s)
    PROVE  OneSync'
<1>0. /\ Len(issued) \in Nat /\ Issued = 1 .. Len(issued)
      /\ queue \subseteq Issued /\ delivered \subseteq Issued
  BY OrderTypes
<1>1. PICK h : h = Current(s).op
  OBVIOUS
<1>2. /\ sync[s].at = "ok" /\ queue' = queue \ {h} /\ NextOperation(s)
      /\ UNCHANGED <<issued, mode, healthy, remote, delivered>>
  BY <1>1 DEF Dequeue, ghosts
<1>3. /\ s \in mode.syncs /\ Len(sync[s].batch) \in Nat \ {0} /\ h = sync[s].batch[1].op
  BY <1>1, <1>2, HeadIsOldest
<1>4. InOrder(sync[s], queue, delivered) /\ sync[s] \in Syncs
  BY Types DEF OneSync
<1> DEFINE r == Tail(sync[s].batch)
           b == IF Len(sync[s].batch) = 1 THEN NoSync
                ELSE [at |-> "pushing", attempt |-> 0, batch |-> r]
<1>5. sync' = [sync EXCEPT ![s] = b]
  BY <1>2 DEF NextOperation
<1>6. InOrder(b, queue', delivered)
  <2>1. CASE Len(sync[s].batch) = 1
    BY <2>1, NothingInOrder
  <2>2. CASE Len(sync[s].batch) # 1
    <3>1. PICK n \in Nat : n = Len(sync[s].batch)
      BY <1>3
    <3>2. /\ Len(r) = n - 1 /\ \A i \in 1 .. n - 1 : r[i] = sync[s].batch[i + 1]
      <4>1. sync[s].batch \in Seq(Items) /\ sync[s].batch # <<>>
        BY <1>2, <1>4 DEF Syncs, Sound, SyncSound
      <4>2. Len(r) = n - 1 /\ \A i \in 1 .. Len(r) : r[i] = sync[s].batch[i + 1]
        BY <3>1, <4>1, TailFacts
      <4>3. QED BY <4>2
    <3>3. b.at = "pushing" /\ b.batch = r
      BY <2>2
    <3> HIDE DEF r, b
    <3>4. \A i, j \in 1 .. n - 1 : i < j => r[i].op < r[j].op
      BY SMTT(20), <1>4, <3>1, <3>2 DEF InOrder
    <3>5. \A i \in 1 .. n - 1 : \A d \in delivered : d <= r[i].op
      BY <1>4, <3>1, <3>2 DEF InOrder
    <3>6. ASSUME NEW i \in 1 .. n - 1, NEW q \in queue', q < r[i].op
          PROVE  \E j \in 1 .. n - 1 : j < i /\ r[j].op = q
      <4>1. q \in queue /\ q # h /\ q < sync[s].batch[i + 1].op /\ i + 1 \in 1 .. n
        BY <1>2, <3>1, <3>2, <3>6
      <4>2. PICK j \in 1 .. n : j < i + 1 /\ sync[s].batch[j].op = q
        BY <1>4, <3>1, <4>1 DEF InOrder
      <4>3. j # 1
        BY <1>3, <4>1, <4>2
      <4>4. j - 1 \in 1 .. n - 1 /\ j - 1 < i /\ r[j - 1] = sync[s].batch[j]
        BY <3>1, <3>2, <4>2, <4>3
      <4>5. QED BY <4>2, <4>4
    <3>7. QED BY <3>2, <3>3, <3>4, <3>5, <3>6 DEF InOrder
  <2>3. QED BY <2>1, <2>2
<1> HIDE DEF b
<1>7. /\ \A d \in delivered : \A q \in queue' : d <= q
      /\ \A o \in Op : remote[o] # -1 =>
             \E d \in delivered : issued[d].id = o /\ issued[d].version = remote[o]
  BY <1>2 DEF OneSync
<1>8. QED BY <1>2, <1>3, <1>5, <1>6, <1>7, SyncMoves

LEMMA OrderStep ==
    ASSUME Sound, Sound', Orderly, VersionsGrow, OneWriter, OneSync, [Next]_vars
    PROVE  /\ VersionsGrow' /\ OneWriter' /\ OneSync'
           /\ \A o \in Op : remote'[o] >= remote[o]
<1>0. /\ app \in [App -> Calls] /\ \A a \in App : app[a].key \in Key
      /\ \A a \in App : app[a].at # "idle" => a \in mode.apps
      /\ remote \in [Op -> -1 .. MaxOps] /\ MaxOps \in Nat
  BY Types, OrderTypes, OfflineAssumption DEF Sound, CallSound, TypeOK
<1>1. \A o \in Op : remote' = remote => remote'[o] >= remote[o]
  BY <1>0
<1>2. ASSUME NEW a \in App, NEW k \in Key, NEW id, NEW version, a \in mode.apps,
             Succeeds(k, id, version), PutRecord(a, k, id, version)
      PROVE  VersionsGrow' /\ OneWriter' /\ OneSync' /\ remote' = remote
  <2>1. /\ VersionsGrow' /\ Len(issued') = Len(issued) + 1
        /\ \A i \in Issued : issued'[i] = issued[i]
    BY <1>2, PutRecordGrows
  <2> DEFINE c == [at |-> "stored", key |-> k, id |-> 0, version |-> 0, op |-> Len(issued) + 1]
  <2>2. app' = [app EXCEPT ![a] = c] /\ c.at = "stored" /\ c.op = Len(issued')
    BY <1>2, <2>1 DEF PutRecord
  <2> HIDE DEF c
  <2>3. OneWriter'
    BY <1>2, <2>2, WriterMoves
  <2>4. UNCHANGED <<sync, delivered, remote, mode, healthy, queue>>
    BY <1>2 DEF PutRecord, ghosts
  <2>5. OneSync'
    BY <2>1, <2>4, SameSync
  <2>6. QED BY <2>1, <2>3, <2>4, <2>5
<1>3. ASSUME NEW a \in App, NEW k \in Key, Write(a, k)
      PROVE  VersionsGrow' /\ OneWriter' /\ OneSync' /\ remote' = remote
  BY <1>2, <1>3, WriteSucceeds DEF Write
<1>4. ASSUME NEW a \in App, Update(a)
      PROVE  VersionsGrow' /\ OneWriter' /\ OneSync' /\ remote' = remote
  BY <1>0, <1>2, <1>4, UpdateSucceeds DEF Update
<1>5. ASSUME NEW a \in App, a \in mode.apps, NEW c, app' = [app EXCEPT ![a] = c],
             c.at = "read" => c.id = records[c.key].id /\ c.version = records[c.key].version,
             c.at \in {"stored", "sized"} => c.op = Len(issued),
             UNCHANGED <<records, issued, sync, delivered, remote, mode, healthy>>,
             queue' \subseteq queue \cup {Len(issued)}
      PROVE  VersionsGrow' /\ OneWriter' /\ OneSync' /\ remote' = remote
  <2>1. VersionsGrow'
    BY <1>5, SameVersions
  <2>2. OneWriter'
    BY <1>5, WriterMoves
  <2>3. OneSync'
    BY <1>5, SameSync
  <2>4. QED BY <1>5, <2>1, <2>2, <2>3
<1>6. ASSUME NEW a \in App, NEW k \in Key, ReadForUpdate(a, k)
      PROVE  VersionsGrow' /\ OneWriter' /\ OneSync' /\ remote' = remote
  BY <1>5, <1>6 DEF ReadForUpdate, storage, ghosts
<1>7. ASSUME NEW a \in App, CheckSize(a)
      PROVE  VersionsGrow' /\ OneWriter' /\ OneSync' /\ remote' = remote
  <2> DEFINE c == IF Cardinality(queue) >= MaxQueueSize THEN NoCall
                  ELSE [app[a] EXCEPT !.at = "sized"]
  <2>1. app' = [app EXCEPT ![a] = c] /\ app[a].at = "stored" /\ a \in mode.apps
    BY <1>0, <1>7 DEF CheckSize
  <2>2. /\ c.at = "read" => c.id = records[c.key].id /\ c.version = records[c.key].version
        /\ c.at \in {"stored", "sized"} => c.op = Len(issued)
    <3>1. app[a].op = Len(issued) /\ app[a] \in Calls
      BY <1>0, <2>1 DEF OneWriter
    <3>2. QED BY <3>1, Idle DEF Calls
  <2> HIDE DEF c
  <2>3. UNCHANGED <<records, issued, sync, delivered, remote, mode, healthy, queue>>
    BY <1>7 DEF CheckSize, storage, ghosts
  <2>4. QED BY <1>5, <2>1, <2>2, <2>3
<1>8. ASSUME NEW a \in App, Enqueue(a)
      PROVE  VersionsGrow' /\ OneWriter' /\ OneSync' /\ remote' = remote
  <2>1. app[a].op = Len(issued) /\ a \in mode.apps
    BY <1>0, <1>8 DEF Enqueue, OneWriter
  <2>2. QED BY <1>5, <1>8, <2>1, Idle DEF Enqueue
<1>9. ASSUME NEW s \in Sync, sync[s].at # "idle", sync' = [sync EXCEPT ![s] = NoSync],
             UNCHANGED <<storage, app, healthy, remote, mode, ghosts>>
      PROVE  OneSync'
  <2>1. /\ InOrder(NoSync, queue, delivered) /\ NoSync.at = "idle" /\ s \in mode.syncs
    BY <1>9, Idle, NothingInOrder DEF OneSync
  <2>2. /\ \A d \in delivered : \A q \in queue : d <= q
        /\ \A o \in Op : remote[o] # -1 =>
               \E d \in delivered : issued[d].id = o /\ issued[d].version = remote[o]
    BY DEF OneSync
  <2>3. QED BY <1>9, <2>1, <2>2, SyncMoves DEF storage, ghosts
<1>10. ASSUME NEW s \in Sync, StartSync(s) \/ SyncStep(s) \/ CutShort(s)
       PROVE  /\ VersionsGrow' /\ OneWriter' /\ OneSync'
              /\ \A o \in Op : remote'[o] >= remote[o]
  <2>1. sync[s].at # "err" /\ healthy
    BY DEF OneSync, InOrder
  <2>2. StartSync(s) \/ PushSucceeds(s) \/ Dequeue(s) \/ CutShort(s)
    BY <1>10, <2>1 DEF SyncStep, PushFails, Requeue, GiveUp
  <2>3. VersionsGrow' /\ OneWriter'
    <3>1. UNCHANGED <<issued, records, app>>
      BY <2>2 DEF StartSync, PushSucceeds, Dequeue, CutShort, storage
    <3>2. QED BY <1>0, <3>1, SameVersions, SameWriter
  <2>4. OneSync'
    BY <1>9, <2>2, StartInOrder, PushInOrder, DequeueInOrder DEF CutShort
  <2>5. \A o \in Op : remote'[o] >= remote[o]
    BY <1>1, <2>2, PushInOrder DEF StartSync, Dequeue, CutShort
  <2>6. QED BY <2>3, <2>4, <2>5
<1>11. ASSUME Crash
       PROVE  VersionsGrow' /\ OneWriter' /\ OneSync' /\ remote' = remote
  <2>1. UNCHANGED <<issued, records, queue, delivered, remote, mode, healthy>>
    BY <1>11 DEF Crash, storage, ghosts
  <2>2. OneWriter'
    BY <1>11, Idle DEF Crash, OneWriter
  <2>3. OneSync'
    <3>1. \A s \in Sync : sync'[s] = NoSync
      BY <1>11 DEF Crash
    <3>2. QED BY <2>1, <3>1, NothingInOrder, Idle DEF OneSync
  <2>4. QED BY <2>1, <2>2, <2>3, SameVersions
<1>12. ASSUME (\E k \in Key : Delete(k)) \/ (\E o \in Op : Prune(o)) \/ UNCHANGED vars
       PROVE  VersionsGrow' /\ OneWriter' /\ OneSync' /\ remote' = remote
  <2>1. /\ UNCHANGED <<issued, app, sync, delivered, remote, mode, healthy>>
        /\ queue' \subseteq queue
    BY <1>12 DEF Delete, Prune, vars, storage, ghosts
  <2>2. \A k \in Key : records'[k].id = records[k].id /\ records'[k].version = records[k].version
    <3>1. CASE \E k \in Key : Delete(k)
      <4>1. PICK k \in Key : records' = [records EXCEPT ![k].live = FALSE]
        BY <3>1 DEF Delete
      <4>2. records \in [Key -> Records]
        BY Types
      <4>3. QED BY <4>1, <4>2 DEF Records
    <3>2. CASE ~\E k \in Key : Delete(k)
      BY <1>12, <3>2 DEF Prune, vars, storage
    <3>3. QED BY <3>1, <3>2
  <2>3. QED BY <1>0, <2>1, <2>2, SameVersions, SameWriter, SameSync
<1>13. ~RemoteChanges
  BY DEF RemoteChanges, Orderly
<1>14. QED BY <1>1, <1>3, <1>4, <1>6, <1>7, <1>8, <1>10, <1>11, <1>12, <1>13 DEF Next

LEMMA OrderInit == Init => OrderInv
<1> SUFFICES ASSUME Init PROVE VersionsGrow /\ OneWriter /\ OneSync
  BY DEF OrderInv
<1>1. /\ issued = <<>> /\ Issued = {} /\ Len(issued) = 0 /\ delivered = {} /\ healthy
      /\ \A k \in Key : records[k].id = 0
      /\ \A a \in App : app[a] = NoCall
      /\ \A s \in Sync : sync[s] = NoSync
      /\ \A o \in Op : remote[o] = -1
  BY DEF Init, Issued
<1>2. QED BY <1>1, Idle, NothingInOrder DEF VersionsGrow, OneWriter, OneSync

LEMMA ModeStays == [Next]_vars => UNCHANGED mode
BY DEF Next, Write, Update, PutRecord, ReadForUpdate, CheckSize, Enqueue, Delete, Prune, SyncStep,
   StartSync, PushSucceeds, PushFails, Dequeue, Requeue, GiveUp, CutShort, Crash, RemoteChanges, vars

(* With one writer, one sync at a time, a remote that answers and a clock     *)
(* that tells any two operations apart, SyncEngine::sync never puts an older  *)
(* version of a record over a newer one, whatever is cut short and pushed     *)
(* again: get_pending's order is enough.                                      *)
THEOREM RemoteNeverGoesBack == Spec => NeverGoesBack
<1>1. Sound /\ OrderInv /\ [Next]_vars =>
          Sound' /\ OrderInv' /\ (Orderly => \A o \in Op : remote'[o] >= remote[o])
  <2> SUFFICES ASSUME Sound, OrderInv, [Next]_vars
               PROVE  Sound' /\ OrderInv' /\ (Orderly => \A o \in Op : remote'[o] >= remote[o])
    OBVIOUS
  <2>1. Sound'
    BY SoundStep
  <2>2. Orderly' <=> Orderly
    BY ModeStays DEF Orderly
  <2>3. QED BY <2>1, <2>2, OrderStep DEF OrderInv
<1>2. Sound /\ OrderInv /\ [Next]_vars => [Orderly => \A o \in Op : remote'[o] >= remote[o]]_vars
  BY <1>1
<1>3. QED BY <1>1, <1>2, SoundInit, OrderInit, PTL DEF Spec, NeverGoesBack
=============================================================================
