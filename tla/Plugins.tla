------------------------------ MODULE Plugins ------------------------------
(***************************************************************************)
(* Hot reload of WASM plugins: the watcher and the reload processor of     *)
(* proxy.rs, PluginManager (plugin-system/src/manager.rs) behind its       *)
(* std::sync::RwLock, the tasks that call plugins under the read lock, and *)
(* the sweep at shutdown.                                                  *)
(*                                                                         *)
(* A version stands for the content of a file and for its modification     *)
(* time.  WASM plugins register no commands, and their packet hooks all    *)
(* have the same priority and forward (wasm_loader.rs), so a hook is the   *)
(* plugin it came from.                                                    *)
(***************************************************************************)
EXTENDS Naturals, Sequences, FiniteSets, Bags

CONSTANTS
  Files,         \* plugin files, by stem
  ManifestName,  \* ManifestName[f]: the name in f's manifest
  Subscriptions, \* Subscriptions[f]: event kinds in f's manifest
  Broken,        \* versions that do not load
  MaxVersion,    \* bound: versions written
  Dispatchers    \* tasks that deliver an event

ASSUME PluginAssumption == MaxVersion \in Nat /\ Broken \subseteq 2..MaxVersion

VARIABLES
  watching,  \* plugins.enabled and hot_reload
  disk,      \* disk[f]: the version in the directory, 0 if there is no file
  newest,    \* the newest version
  mtimes,    \* mtimes[f]: what the watcher has recorded, 0 if nothing
  listing,   \* files the watcher has yet to look at in this tick
  reloads,   \* hot_reload_rx
  job,       \* the processor: its file, and idle, waiting, unload or load
  loaded,    \* loaded[f]: the version in the `plugins` map, 0 if none
  enabled,   \* instances between on_enable and on_disable
  hooks,     \* packet_hooks, a bag
  interest,  \* PluginActivity: the event mask and the number of hooks
  callers,   \* callers[d]: idle, waiting for the read lock, or calling the instances that are left
  sweep      \* the unload at shutdown: no, waiting for the lock, or done

watchVars == <<watching, disk, newest, mtimes, listing, reloads>>
managerVars == <<loaded, enabled, hooks, interest>>
pluginVars == <<watchVars, managerVars, job, callers, sweep>>

Idle == [at |-> "idle", pump |-> FALSE, left |-> {}]
NoJob == [file |-> "none", at |-> "idle"]

(* Who holds or awaits the lock of the manager.                            *)
Reading == {d \in Dispatchers : callers[d].at = "calling"}
Writing == job.at \in {"unload", "load"}
WriterWaits == job.at = "waiting" \/ sweep = "waiting"

(* std's lock lets no new reader in while a writer waits.                  *)
ReadLockable == ~Writing /\ ~WriterWaits
WriteLockable == ~Writing /\ Reading = {}

-----------------------------------------------------------------------------
(* PluginManager: the maps after loading and unloading.                    *)

EventMask(files) == UNION {Subscriptions[f] : f \in files}

(* refresh_activity: two stores, which readers look at one at a time.      *)
RefreshActivity ==
  interest' = [mask |-> EventMask({f \in Files : loaded'[f] # 0}), hooks |-> BagCardinality(hooks')]

(* unload_plugin of some files, by stem.  Hooks carry the manifest's name. *)
Unload(files) ==
  /\ loaded' = [f \in Files |-> IF f \in files THEN 0 ELSE loaded[f]]
  /\ enabled' = {i \in enabled : i.file \notin files}
  /\ hooks' = [h \in {g \in DOMAIN hooks : g.owner \notin files} |-> hooks[h]]

Hook(instance) == [owner |-> ManifestName[instance.file], from |-> instance]

(* load_plugin: the instance is enabled, then its hooks and itself are     *)
(* entered.                                                                *)
Load(f, v) ==
  LET instance == [file |-> f, version |-> v] IN
  /\ loaded' = [loaded EXCEPT ![f] = v]
  /\ enabled' = enabled \cup {instance}
  /\ hooks' = hooks (+) SetToBag({Hook(instance)})

PluginInit ==
  /\ watching \in BOOLEAN
  /\ disk = [f \in Files |-> 1] /\ newest = 1
  /\ mtimes = [f \in Files |-> 0] /\ listing = {} /\ reloads = <<>>
  /\ job = NoJob
  /\ loaded = [f \in Files |-> 1]
  /\ enabled = {[file |-> f, version |-> 1] : f \in Files}
  /\ hooks = SetToBag({Hook(i) : i \in enabled})
  /\ interest = [mask |-> EventMask(Files), hooks |-> BagCardinality(hooks)]
  /\ callers = [d \in Dispatchers |-> Idle]
  /\ sweep = "no"

-----------------------------------------------------------------------------
(* The directory.  An operator's copy that is seen half written is a       *)
(* broken version followed by a good one.                                  *)

WriteFile(f) ==
  /\ newest < MaxVersion
  /\ newest' = newest + 1
  /\ disk' = [disk EXCEPT ![f] = newest + 1]
  /\ UNCHANGED <<watching, mtimes, listing, reloads, managerVars, job, callers, sweep>>

DeleteFile(f) ==
  /\ disk[f] # 0
  /\ disk' = [disk EXCEPT ![f] = 0]
  /\ UNCHANGED <<watching, newest, mtimes, listing, reloads, managerVars, job, callers, sweep>>

(* The watcher: read_dir on every tick, then one file after the other.     *)
(* What it sees for the first time is recorded only.                       *)
WatchTick ==
  /\ watching /\ listing = {}
  /\ listing' = {f \in Files : disk[f] # 0}
  /\ UNCHANGED <<watching, disk, newest, mtimes, reloads, managerVars, job, callers, sweep>>

WatchEntry(f) ==
  /\ f \in listing
  /\ listing' = listing \ {f}
  /\ mtimes' = IF disk[f] = 0 THEN mtimes ELSE [mtimes EXCEPT ![f] = disk[f]]
  /\ reloads' = IF disk[f] # 0 /\ mtimes[f] \notin {0, disk[f]} THEN Append(reloads, f) ELSE reloads
  /\ UNCHANGED <<watching, disk, newest, managerVars, job, callers, sweep>>

-----------------------------------------------------------------------------
(* The processor: one request at a time, on a blocking thread, all of      *)
(* reload_plugin under the write lock.                                     *)

TakeReload ==
  /\ job = NoJob /\ reloads # <<>>
  /\ job' = [file |-> Head(reloads), at |-> "waiting"]
  /\ reloads' = Tail(reloads)
  /\ UNCHANGED <<watching, disk, newest, mtimes, listing, managerVars, callers, sweep>>

ReloadLocks ==
  /\ job.at = "waiting" /\ WriteLockable
  /\ job' = [job EXCEPT !.at = "unload"]
  /\ UNCHANGED <<watchVars, managerVars, callers, sweep>>

(* Faulty variant: the interest is published by the load that follows.     *)
ReloadUnloadsQuietly ==
  /\ job.at = "unload"
  /\ Unload({job.file})
  /\ job' = [job EXCEPT !.at = "load"]
  /\ UNCHANGED <<watchVars, interest, callers, sweep>>

(* Faulty variant: "not found" ends the reload.                            *)
ReloadUnloadsLoaded ==
  /\ job.at = "unload"
  /\ Unload({job.file})
  /\ RefreshActivity
  /\ job' = IF loaded[job.file] = 0 THEN NoJob ELSE [job EXCEPT !.at = "load"]
  /\ UNCHANGED <<watchVars, callers, sweep>>

(* Best effort: a plugin that is not loaded changes nothing.               *)
ReloadUnloads ==
  /\ job.at = "unload"
  /\ IF loaded[job.file] = 0 THEN UNCHANGED managerVars ELSE Unload({job.file}) /\ RefreshActivity
  /\ job' = [job EXCEPT !.at = "load"]
  /\ UNCHANGED <<watchVars, callers, sweep>>

(* The file is read now.  A file that is gone, a module that traps or      *)
(* fails its checks, or a refused permission is an error of the reload.    *)
ReloadLoads ==
  /\ job.at = "load"
  /\ LET v == disk[job.file] IN
       IF v = 0 \/ v \in Broken THEN UNCHANGED managerVars ELSE Load(job.file, v) /\ RefreshActivity
  /\ job' = NoJob
  /\ UNCHANGED <<watchVars, callers, sweep>>

-----------------------------------------------------------------------------
(* Events.  Movement is dispatched only if the published mask asks for it; *)
(* the others, and the Redis pump, always take the lock.                   *)

EventKinds == {"move", "chat", "redis"}

Raise(d, kind) ==
  /\ callers[d].at = "idle"
  /\ kind = "move" => kind \in interest.mask
  /\ callers' = [callers EXCEPT ![d] = [at |-> "waiting", pump |-> (kind = "redis"), left |-> {}]]
  /\ UNCHANGED <<watchVars, managerVars, job, sweep>>

Instances == {[file |-> f, version |-> loaded[f]] : f \in {g \in Files : loaded[g] # 0}}

(* Faulty variant: the plugins are copied out without the lock.            *)
StartCallsUnlocked(d) ==
  /\ callers[d].at = "waiting"
  /\ callers' = [callers EXCEPT ![d].at = "calling", ![d].left = Instances]
  /\ UNCHANGED <<watchVars, managerVars, job, sweep>>

(* broadcast_event and pump_redis iterate over the map under the read lock.*)
StartCalls(d) ==
  /\ callers[d].at = "waiting"
  /\ ReadLockable
  /\ callers' = [callers EXCEPT ![d].at = "calling", ![d].left = Instances]
  /\ UNCHANGED <<watchVars, managerVars, job, sweep>>

(* handle_event; one that returns Cancel ends a broadcast, not the pump.   *)
Call(d) ==
  /\ callers[d].at = "calling"
  /\ \E i \in callers[d].left :
       \E rest \in {callers[d].left \ {i}} \cup (IF callers[d].pump THEN {} ELSE {{}}) :
         callers' = [callers EXCEPT ![d].left = rest]
  /\ UNCHANGED <<watchVars, managerVars, job, sweep>>

EndCalls(d) ==
  /\ callers[d].at = "calling" /\ callers[d].left = {}
  /\ callers' = [callers EXCEPT ![d] = Idle]
  /\ UNCHANGED <<watchVars, managerVars, job, sweep>>

-----------------------------------------------------------------------------
(* shutdown_gracefully after its drain window: unload_all.                 *)

BeginSweep ==
  /\ sweep = "no"
  /\ sweep' = "waiting"
  /\ UNCHANGED <<watchVars, managerVars, job, callers>>

UnloadAll ==
  /\ sweep = "waiting" /\ WriteLockable
  /\ Unload({f \in Files : loaded[f] # 0})
  /\ RefreshActivity
  /\ sweep' = "done"
  /\ UNCHANGED <<watchVars, job, callers>>

PluginNext ==
  \/ \E f \in Files : WriteFile(f) \/ DeleteFile(f) \/ WatchEntry(f)
  \/ WatchTick
  \/ TakeReload \/ ReloadLocks \/ ReloadUnloads \/ ReloadLoads
  \/ \E d \in Dispatchers : (\E k \in EventKinds : Raise(d, k)) \/ StartCalls(d) \/ Call(d) \/ EndCalls(d)
  \/ BeginSweep \/ UnloadAll

PluginSpec == PluginInit /\ [][PluginNext]_pluginVars

(* The watcher's interval goes on, the processor and the sweep get the     *)
(* lock once it is free, and the epoch watchdog and the time-outs of the   *)
(* host's imports end every call of a plugin.                              *)
PluginFairness ==
  /\ WF_pluginVars(WatchTick \/ \E f \in Files : WatchEntry(f))
  /\ WF_pluginVars(TakeReload \/ ReloadLocks \/ ReloadUnloads \/ ReloadLoads)
  /\ \A d \in Dispatchers : WF_pluginVars(StartCalls(d) \/ Call(d) \/ EndCalls(d))
  /\ WF_pluginVars(UnloadAll)

-----------------------------------------------------------------------------
(* What the relays read without a lock is what the manager has: between    *)
(* reloads, failed ones included, the published mask and number of hooks   *)
(* are those of the loaded plugins, exactly the loaded ones are enabled,   *)
(* and no hook outlives its plugin or is there twice.  Hooks are removed   *)
(* by the file's name and filed under the manifest's, so the last holds    *)
(* where the two agree.                                                    *)
InterestIsCurrent ==
  ~Writing =>
    /\ interest.mask = EventMask({f \in Files : loaded[f] # 0})
    /\ interest.hooks = BagCardinality(hooks)
    /\ enabled = Instances
    /\ \A h \in DOMAIN hooks : h.owner = h.from.file => h.from \in enabled /\ hooks[h] = 1

(* "no late `dispatch_plugin_event` can race against an already-disabled   *)
(* plugin" (proxy.rs on the sweep), nor against a reload: who is still to  *)
(* be called in a broadcast is enabled.                                    *)
CallsReachEnabled == \A d \in Dispatchers : callers[d].left \subseteq enabled

(* A file that changes after the watcher has first seen it is loaded: in   *)
(* the end the plugin runs what is on disk by then, or not at all if that  *)
(* does not load, unless the file is deleted or the proxy shuts down.      *)
ReloadCatchesUp ==
  \A f \in Files :
    mtimes[f] \notin {0, disk[f]} ~>
      (loaded[f] = (IF disk[f] \in Broken THEN 0 ELSE disk[f]) \/ disk[f] = 0 \/ sweep # "no")
=============================================================================
