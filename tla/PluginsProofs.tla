--------------------------- MODULE PluginsProofs ----------------------------
(***************************************************************************)
(* Hot reload keeps the plugin manager's books, for any number of plugin   *)
(* files, versions and dispatching tasks.  A reload unloads before it      *)
(* loads, so the file that it loads has no instance and no hook of its own *)
(* left; this makes the instances that are enabled the ones in the map.    *)
(* What a dispatcher has still to call was in the map when it took the     *)
(* read lock, and nobody changes the map while a dispatcher reads.         *)
(***************************************************************************)
EXTENDS Plugins, TLAPS

InstanceSet == [file : Files, version : Nat]

CallerSet ==
  [at : {"idle", "waiting", "calling"}, pump : BOOLEAN, left : SUBSET InstanceSet]

JobSet == [file : Files \cup {"none"}, at : {"idle", "waiting", "unload", "load"}]

(* Types of what the argument needs.                                       *)
PluginTypes ==
  /\ disk \in [Files -> Nat] /\ newest \in Nat
  /\ listing \subseteq Files /\ reloads \in Seq(Files)
  /\ callers \in [Dispatchers -> CallerSet]

JobOk ==
  /\ job \in JobSet
  /\ job.at # "idle" => job.file \in Files
  /\ job.at = "load" => loaded[job.file] = 0

(* The books: they hold in the middle of a reload, too.                    *)
MapOk == loaded \in [Files -> Nat] /\ enabled = Instances
HooksOk == \A h \in DOMAIN hooks : h.owner = h.from.file => h.from \in enabled /\ hooks[h] = 1
Published ==
  /\ interest.mask = EventMask({f \in Files : loaded[f] # 0})
  /\ interest.hooks = BagCardinality(hooks)

(* Only a reader has calls left; a reload that has the lock is alone.      *)
OnlyReadersCall == \A d \in Dispatchers : callers[d].at # "calling" => callers[d].left = {}
WriterIsAlone == Writing => \A d \in Dispatchers : callers[d].at # "calling"

BooksOk == MapOk /\ HooksOk /\ Published
PluginInv ==
  PluginTypes /\ JobOk /\ BooksOk /\ OnlyReadersCall /\ WriterIsAlone /\ CallsReachEnabled

-----------------------------------------------------------------------------
(* An instance is enabled exactly if it is the one in the map.             *)
LEMMA EnabledIsLoaded ==
  ASSUME MapOk, NEW i
  PROVE  i \in enabled <=> \E f \in Files : loaded[f] # 0 /\ i = [file |-> f, version |-> loaded[f]]
BY DEF MapOk, Instances

(* At start every file has been loaded (load_plugins_from_dir) and nobody  *)
(* dispatches.                                                             *)
LEMMA PluginInvHoldsFirst == PluginInit => PluginInv
<1> SUFFICES ASSUME PluginInit PROVE PluginInv
    OBVIOUS
<1>1. callers = [d \in Dispatchers |-> Idle]
    BY DEF PluginInit
<1>2. PluginTypes
    <2>1. Idle \in CallerSet
        BY DEF Idle, CallerSet
    <2> QED
        BY <1>1, <2>1 DEF PluginInit, PluginTypes
<1>3. JobOk
    BY DEF PluginInit, JobOk, NoJob, JobSet
<1>4. \A f \in Files : loaded[f] = 1
    BY DEF PluginInit
<1>5. MapOk
    BY <1>4 DEF PluginInit, MapOk, Instances
<1>6. HooksOk
    <2>1. hooks = [h \in {Hook(i) : i \in enabled} |-> 1]
        BY DEF PluginInit, SetToBag
    <2> QED
        BY <2>1 DEF HooksOk, Hook
<1>7. Published
    <2>1. {f \in Files : loaded[f] # 0} = Files
        BY <1>4
    <2> QED
        BY <2>1, Zenon DEF PluginInit, Published
<1>8. OnlyReadersCall /\ WriterIsAlone /\ CallsReachEnabled
    BY <1>1 DEF Idle, OnlyReadersCall, WriterIsAlone, CallsReachEnabled
<1> QED
    BY <1>2, <1>3, <1>5, <1>6, <1>7, <1>8, SMTT(60) DEF PluginInv, BooksOk

(* unload_plugin and refresh_activity, for one file or for all.            *)
LEMMA UnloadKeepsBooks ==
  ASSUME NEW files, BooksOk, Unload(files), RefreshActivity
  PROVE  BooksOk'
<1>1. loaded' = [f \in Files |-> IF f \in files THEN 0 ELSE loaded[f]]
    BY DEF Unload
<1>2. enabled' = {i \in enabled : i.file \notin files}
    BY DEF Unload
<1>3. MapOk'
    <2>1. loaded' \in [Files -> Nat]
        BY <1>1 DEF BooksOk, MapOk
    <2>2. ASSUME NEW i PROVE i \in enabled' <=> i \in Instances'
        <3>1. i \in Instances' <=> \E f \in Files : loaded'[f] # 0 /\ i = [file |-> f, version |-> loaded'[f]]
            BY DEF Instances
        <3>2. i \in enabled <=> \E f \in Files : loaded[f] # 0 /\ i = [file |-> f, version |-> loaded[f]]
            BY EnabledIsLoaded DEF BooksOk
        <3> QED
            BY <1>1, <1>2, <3>1, <3>2
    <2> QED
        BY <2>1, <2>2 DEF MapOk
<1>4. HooksOk'
    <2>1. hooks' = [h \in {g \in DOMAIN hooks : g.owner \notin files} |-> hooks[h]]
        BY DEF Unload
    <2> QED
        BY <1>2, <2>1 DEF BooksOk, HooksOk
<1>5. Published'
    BY DEF RefreshActivity, Published
<1> QED
    BY <1>3, <1>4, <1>5 DEF BooksOk

(* load_plugin and refresh_activity: a file that is not in the map has no  *)
(* hook under its own name, so the new hook is the only one.               *)
LEMMA LoadKeepsBooks ==
  ASSUME NEW f \in Files, NEW v \in Nat \ {0},
         BooksOk, loaded[f] = 0, Load(f, v), RefreshActivity
  PROVE  BooksOk'
<1> DEFINE instance == [file |-> f, version |-> v]
<1>1. loaded' = [loaded EXCEPT ![f] = v] /\ enabled' = enabled \cup {instance}
    BY DEF Load
<1>2. loaded \in [Files -> Nat] /\ loaded' \in [Files -> Nat]
    BY <1>1 DEF BooksOk, MapOk
<1>3. MapOk'
    <2>1. ASSUME NEW i PROVE i \in enabled' <=> i \in Instances'
        <3>1. i \in Instances' <=> \E g \in Files : loaded'[g] # 0 /\ i = [file |-> g, version |-> loaded'[g]]
            BY DEF Instances
        <3>2. i \in enabled <=> \E g \in Files : loaded[g] # 0 /\ i = [file |-> g, version |-> loaded[g]]
            BY EnabledIsLoaded DEF BooksOk
        <3>3. \A g \in Files : loaded'[g] = IF g = f THEN v ELSE loaded[g]
            BY <1>1, <1>2
        <3> QED
            BY <1>1, <3>1, <3>2, <3>3
    <2> QED
        BY <1>2, <2>1, Zenon DEF MapOk
<1>4. HooksOk'
    <2> DEFINE new == Hook(instance)
    <2>1. instance \notin enabled
        BY EnabledIsLoaded DEF BooksOk
    <2>2. hooks' = [h \in DOMAIN hooks \cup {new} |->
                      (IF h \in DOMAIN hooks THEN hooks[h] ELSE 0) + (IF h \in {new} THEN 1 ELSE 0)]
        BY DEF Load, SetToBag, (+)
    <2>3. SUFFICES ASSUME NEW h \in DOMAIN hooks', h.owner = h.from.file
                   PROVE  h.from \in enabled' /\ hooks'[h] = 1
        BY DEF HooksOk
    <2>4. new.from = instance
        BY DEF Hook
    <2>5. CASE h = new
        <3>1. h \notin DOMAIN hooks
            BY <2>1, <2>3, <2>4, <2>5, SMTT(60) DEF BooksOk, HooksOk
        <3>2. hooks'[h] = 0 + 1
            BY <2>2, <2>5, <3>1
        <3> QED
            BY <1>1, <2>4, <2>5, <3>2, SMTT(60)
    <2>6. CASE h # new
        <3>1. h \in DOMAIN hooks
            BY <2>2, <2>3, <2>6
        <3>2. h.from \in enabled /\ hooks[h] = 1
            BY <2>3, <3>1 DEF BooksOk, HooksOk
        <3>3. hooks'[h] = hooks[h] + 0
            BY <2>2, <2>6, <3>1, SMTT(60)
        <3> QED
            BY <1>1, <3>2, <3>3
    <2> QED
        BY <2>5, <2>6
<1>5. Published'
    BY DEF RefreshActivity, Published
<1> QED
    BY <1>3, <1>4, <1>5 DEF BooksOk

(* A step that leaves the manager and the callers alone.  A job takes the  *)
(* lock only if nobody reads.                                              *)
LEMMA QuietStepKeeps ==
  ASSUME PluginInv, UNCHANGED <<managerVars, callers>>,
         disk' \in [Files -> Nat], newest' \in Nat, listing' \subseteq Files, reloads' \in Seq(Files),
         JobOk', Writing' => (Writing \/ Reading = {})
  PROVE  PluginInv'
<1>1. UNCHANGED <<loaded, enabled, hooks, interest, callers>>
    BY DEF managerVars
<1>2. PluginTypes'
    BY <1>1 DEF PluginInv, PluginTypes
<1>3. BooksOk'
    BY <1>1 DEF PluginInv, BooksOk, MapOk, HooksOk, Published, Instances
<1>4. OnlyReadersCall' /\ CallsReachEnabled'
    BY <1>1 DEF PluginInv, OnlyReadersCall, CallsReachEnabled
<1>5. WriterIsAlone'
    BY <1>1 DEF PluginInv, WriterIsAlone, Reading
<1> QED
    BY <1>2, <1>3, <1>4, <1>5 DEF PluginInv

(* A step that changes the manager has no reader beside it, so that no     *)
(* call is outstanding.                                                    *)
LEMMA ManagerStepKeeps ==
  ASSUME PluginInv, UNCHANGED <<watchVars, callers>>,
         \A d \in Dispatchers : callers[d].at # "calling",
         JobOk', BooksOk'
  PROVE  PluginInv'
<1>1. UNCHANGED <<disk, newest, listing, reloads, callers>>
    BY DEF watchVars
<1>2. PluginTypes'
    BY <1>1 DEF PluginInv, PluginTypes
<1>3. OnlyReadersCall' /\ WriterIsAlone'
    BY <1>1 DEF PluginInv, OnlyReadersCall, WriterIsAlone
<1>4. CallsReachEnabled'
    BY <1>1 DEF PluginInv, OnlyReadersCall, CallsReachEnabled
<1> QED
    BY <1>2, <1>3, <1>4 DEF PluginInv

(* A step of one dispatcher.  It starts to read only if no reload has the  *)
(* lock, and what it has left to call is enabled.                          *)
LEMMA CallerStepKeeps ==
  ASSUME PluginInv, UNCHANGED <<watchVars, managerVars, job>>,
         NEW d \in Dispatchers, NEW next \in CallerSet,
         callers' = [callers EXCEPT ![d] = next],
         next.left \subseteq enabled,
         next.at # "calling" => next.left = {},
         next.at = "calling" => callers[d].at = "calling" \/ ~Writing
  PROVE  PluginInv'
<1>1. UNCHANGED <<disk, newest, listing, reloads, loaded, enabled, hooks, interest, job>>
    BY DEF watchVars, managerVars
<1>2. \A e \in Dispatchers : callers'[e] = IF e = d THEN next ELSE callers[e]
    BY DEF PluginInv, PluginTypes
<1>3. PluginTypes' /\ JobOk'
    BY <1>1 DEF PluginInv, PluginTypes, JobOk
<1>4. BooksOk'
    BY <1>1 DEF PluginInv, BooksOk, MapOk, HooksOk, Published, Instances
<1>5. OnlyReadersCall' /\ CallsReachEnabled'
    BY <1>1, <1>2 DEF PluginInv, OnlyReadersCall, CallsReachEnabled
<1>6. WriterIsAlone'
    BY <1>1, <1>2 DEF PluginInv, WriterIsAlone, Writing
<1> QED
    BY <1>3, <1>4, <1>5, <1>6, SMTT(60) DEF PluginInv

-----------------------------------------------------------------------------
(* The directory and the watcher.                                          *)
LEMMA WatchStepsKeep ==
  ASSUME PluginInv,
         (\E f \in Files : WriteFile(f) \/ DeleteFile(f) \/ WatchEntry(f)) \/ WatchTick
  PROVE  PluginInv'
<1>1. /\ disk \in [Files -> Nat] /\ newest \in Nat
      /\ listing \subseteq Files /\ reloads \in Seq(Files)
    BY DEF PluginInv, PluginTypes
<1>2. UNCHANGED <<managerVars, job, callers>>
    BY DEF WriteFile, DeleteFile, WatchEntry, WatchTick
<1>3. JobOk' /\ (Writing' => Writing)
    BY <1>2 DEF managerVars, PluginInv, JobOk, Writing
<1>4. ASSUME NEW f \in Files, WriteFile(f) PROVE PluginInv'
    BY <1>1, <1>2, <1>3, <1>4, QuietStepKeeps, SMTT(60) DEF WriteFile
<1>5. ASSUME NEW f \in Files, DeleteFile(f) PROVE PluginInv'
    BY <1>1, <1>2, <1>3, <1>5, QuietStepKeeps, SMTT(60) DEF DeleteFile
<1>6. ASSUME NEW f \in Files, WatchEntry(f) PROVE PluginInv'
    <2>1. reloads' \in Seq(Files)
        BY <1>1, <1>6 DEF WatchEntry
    <2> QED
        BY <1>1, <1>2, <1>3, <1>6, <2>1, QuietStepKeeps, SMTT(60) DEF WatchEntry
<1>7. CASE WatchTick
    BY <1>1, <1>2, <1>3, <1>7, QuietStepKeeps, SMTT(60) DEF WatchTick
<1> QED
    BY <1>4, <1>5, <1>6, <1>7, SMTT(60)

(* The reload processor and the sweep at shutdown.                         *)
LEMMA ReloadStepsKeep ==
  ASSUME PluginInv, TakeReload \/ ReloadLocks \/ ReloadUnloads \/ ReloadLoads \/ BeginSweep \/ UnloadAll
  PROVE  PluginInv'
<1>1. /\ disk \in [Files -> Nat] /\ newest \in Nat
      /\ listing \subseteq Files /\ reloads \in Seq(Files)
    BY DEF PluginInv, PluginTypes
<1>2. job \in JobSet /\ loaded \in [Files -> Nat] /\ BooksOk
    BY DEF PluginInv, JobOk, BooksOk, MapOk
<1>3. CASE TakeReload
    <2>1. Head(reloads) \in Files /\ reloads' \in Seq(Files)
        BY <1>1, <1>3 DEF TakeReload
    <2>2. JobOk' /\ ~Writing'
        BY <1>3, <2>1 DEF TakeReload, JobOk, JobSet, Writing
    <2> QED
        BY <1>1, <1>3, <2>1, <2>2, QuietStepKeeps, SMTT(60) DEF TakeReload
<1>4. CASE ReloadLocks
    <2>1. UNCHANGED <<disk, newest, listing, reloads, managerVars, callers>>
        BY <1>4 DEF ReloadLocks, watchVars
    <2>2. JobOk' /\ Reading = {}
        BY <1>2, <1>4 DEF ReloadLocks, WriteLockable, PluginInv, JobOk, JobSet
    <2> QED
        BY <1>1, <2>1, <2>2, QuietStepKeeps
<1>5. CASE ReloadUnloads
    <2>1. Writing /\ UNCHANGED <<watchVars, callers>>
        BY <1>5 DEF ReloadUnloads, Writing
    <2>2. BooksOk'
        <3>1. CASE loaded[job.file] = 0
            BY <1>2, <1>5, <3>1 DEF ReloadUnloads, managerVars, BooksOk, MapOk, HooksOk, Published, Instances
        <3>2. CASE loaded[job.file] # 0
            BY <1>2, <1>5, <3>2, UnloadKeepsBooks, SMTT(60) DEF ReloadUnloads
        <3> QED
            BY <3>1, <3>2
    <2>3. job.file \in Files /\ loaded'[job.file] = 0
        BY <1>2, <1>5 DEF ReloadUnloads, managerVars, Unload, PluginInv, JobOk
    <2>4. JobOk'
        BY <1>2, <1>5, <2>3, SMTT(60) DEF ReloadUnloads, JobOk, JobSet
    <2> QED
        BY <2>1, <2>2, <2>4, ManagerStepKeeps DEF PluginInv, WriterIsAlone
<1>6. CASE ReloadLoads
    <2>1. Writing /\ UNCHANGED <<watchVars, callers>>
        BY <1>6 DEF ReloadLoads, Writing
    <2>2. job.file \in Files /\ loaded[job.file] = 0 /\ disk[job.file] \in Nat
        BY <1>1, <1>6 DEF ReloadLoads, PluginInv, JobOk
    <2>3. BooksOk'
        <3>1. CASE disk[job.file] = 0 \/ disk[job.file] \in Broken
            BY <1>2, <1>6, <3>1, Zenon DEF ReloadLoads, managerVars, BooksOk, MapOk, HooksOk, Published, Instances
        <3>2. CASE ~(disk[job.file] = 0 \/ disk[job.file] \in Broken)
            BY <1>2, <1>6, <2>2, <3>2, LoadKeepsBooks, SMTT(60) DEF ReloadLoads
        <3> QED
            BY <3>1, <3>2, SMTT(60)
    <2>4. JobOk'
        BY <1>6 DEF ReloadLoads, NoJob, JobOk, JobSet
    <2> QED
        BY <2>1, <2>3, <2>4, ManagerStepKeeps DEF PluginInv, WriterIsAlone
<1>7. CASE BeginSweep
    <2>1. UNCHANGED <<disk, newest, listing, reloads, managerVars, job, callers>>
        BY <1>7 DEF BeginSweep, watchVars
    <2>2. JobOk' /\ (Writing' => Writing)
        BY <2>1 DEF managerVars, PluginInv, JobOk, Writing
    <2> QED
        BY <1>1, <2>1, <2>2, QuietStepKeeps, SMTT(60)
<1>8. CASE UnloadAll
    <2>1. UNCHANGED <<watchVars, callers, job>> /\ \A d \in Dispatchers : callers[d].at # "calling"
        BY <1>8 DEF UnloadAll, WriteLockable, Reading
    <2>2. BooksOk'
        BY <1>2, <1>8, UnloadKeepsBooks, SMTT(60) DEF UnloadAll
    <2>3. JobOk'
        BY <1>8, <2>1 DEF UnloadAll, WriteLockable, Writing, PluginInv, JobOk
    <2> QED
        BY <2>1, <2>2, <2>3, ManagerStepKeeps, SMTT(60)
<1> QED
    BY <1>3, <1>4, <1>5, <1>6, <1>7, <1>8, SMTT(60)

(* The dispatching tasks.                                                  *)
LEMMA CallStepsKeep ==
  ASSUME PluginInv, NEW d \in Dispatchers,
         (\E k \in EventKinds : Raise(d, k)) \/ StartCalls(d) \/ Call(d) \/ EndCalls(d)
  PROVE  PluginInv'
<1>1. callers \in [Dispatchers -> CallerSet] /\ callers[d] \in CallerSet
    BY DEF PluginInv, PluginTypes
<1>2. UNCHANGED <<watchVars, managerVars, job>>
    BY DEF Raise, StartCalls, Call, EndCalls
<1>3. ASSUME NEW k \in EventKinds, Raise(d, k) PROVE PluginInv'
    <2> DEFINE next == [at |-> "waiting", pump |-> (k = "redis"), left |-> {}]
    <2>1. next \in CallerSet /\ next.left = {} /\ next.at = "waiting"
        BY DEF CallerSet
    <2>2. callers' = [callers EXCEPT ![d] = next]
        BY <1>3 DEF Raise
    <2> QED
        BY <1>2, <2>1, <2>2, CallerStepKeeps, Zenon
<1>4. CASE StartCalls(d)
    <2> DEFINE next == [callers[d] EXCEPT !.at = "calling", !.left = Instances]
    <2>1. Instances \in SUBSET InstanceSet /\ Instances = enabled
        BY DEF PluginInv, BooksOk, MapOk, Instances, InstanceSet
    <2>2. next \in CallerSet /\ next.left = Instances /\ next.at = "calling"
        BY <1>1, <2>1, Zenon DEF CallerSet
    <2>3. callers' = [callers EXCEPT ![d] = next] /\ ~Writing
        BY <1>1, <1>4, Zenon DEF StartCalls, ReadLockable, CallerSet
    <2> QED
        BY <1>2, <2>1, <2>2, <2>3, CallerStepKeeps, Zenon
<1>5. CASE Call(d)
    <2>1. PICK i \in callers[d].left :
            \E rest \in {callers[d].left \ {i}} \cup (IF callers[d].pump THEN {} ELSE {{}}) :
              callers' = [callers EXCEPT ![d].left = rest]
        BY <1>5, Zenon DEF Call
    <2>2. PICK rest \in {callers[d].left \ {i}} \cup (IF callers[d].pump THEN {} ELSE {{}}) :
            callers' = [callers EXCEPT ![d].left = rest]
        BY <2>1, Zenon
    <2>3. rest \subseteq callers[d].left
        BY <2>2
    <2> DEFINE next == [callers[d] EXCEPT !.left = rest]
    <2>4. next \in CallerSet /\ next.left = rest /\ next.at = "calling"
        BY <1>1, <1>5, <2>3 DEF CallerSet, Call
    <2>5. callers' = [callers EXCEPT ![d] = next]
        BY <1>1, <2>2, SMTT(60)
    <2>6. rest \subseteq enabled
        BY <2>3, SMTT(60) DEF PluginInv, CallsReachEnabled
    <2> QED
        BY <1>2, <1>5, <2>4, <2>5, <2>6, CallerStepKeeps, Zenon DEF Call
<1>6. CASE EndCalls(d)
    <2>1. Idle \in CallerSet /\ Idle.left = {} /\ Idle.at = "idle"
        BY DEF Idle, CallerSet
    <2> QED
        BY <1>2, <1>6, <2>1, CallerStepKeeps, Zenon DEF EndCalls
<1> QED
    BY <1>3, <1>4, <1>5, <1>6, SMTT(60)

(* Every step keeps the books.                                             *)
LEMMA PluginStepKeeps == PluginInv /\ [PluginNext]_pluginVars => PluginInv'
<1> SUFFICES ASSUME PluginInv, [PluginNext]_pluginVars PROVE PluginInv'
    OBVIOUS
<1>1. CASE UNCHANGED pluginVars
    <2>1. UNCHANGED <<disk, newest, listing, reloads, managerVars, job, callers>>
        BY <1>1 DEF pluginVars, watchVars
    <2>2. JobOk' /\ (Writing' => Writing)
        BY <2>1 DEF managerVars, PluginInv, JobOk, Writing
    <2>3. /\ disk \in [Files -> Nat] /\ newest \in Nat
          /\ listing \subseteq Files /\ reloads \in Seq(Files)
        BY DEF PluginInv, PluginTypes
    <2> QED
        BY <2>1, <2>2, <2>3, QuietStepKeeps, SMTT(60)
<1>2. CASE PluginNext
    BY <1>2, WatchStepsKeep, ReloadStepsKeep, CallStepsKeep DEF PluginNext
<1> QED
    BY <1>1, <1>2

-----------------------------------------------------------------------------
(* Whatever is written to the plugin directory and whenever a reload       *)
(* fails, what relays read without the lock, the map, the enabled          *)
(* instances and the hooks agree outside of the write lock.                *)
THEOREM ReloadKeepsTheBooks == PluginSpec => []InterestIsCurrent
<1>1. PluginInv => InterestIsCurrent
    BY DEF PluginInv, BooksOk, MapOk, HooksOk, Published, InterestIsCurrent
<1> QED
    BY <1>1, PluginInvHoldsFirst, PluginStepKeeps, PTL DEF PluginSpec

(* No event is delivered to a plugin that a reload or the sweep at         *)
(* shutdown has disabled.                                                  *)
THEOREM NobodyCallsDisabled == PluginSpec => []CallsReachEnabled
<1>1. PluginInv => CallsReachEnabled
    BY DEF PluginInv
<1> QED
    BY <1>1, PluginInvHoldsFirst, PluginStepKeeps, PTL DEF PluginSpec
=============================================================================
