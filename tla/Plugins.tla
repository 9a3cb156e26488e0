------------------------------ MODULE Plugins ------------------------------
(* internal/plugin: the Manager, for one plugin name.  Admin requests       *)
(* enable, disable, reload, install and delete the plugin concurrently; the *)
(* Manager lock is held only around the instance map, so script evaluation  *)
(* and the load() and unload() hooks of two requests interleave.  Rows of   *)
(* state.json are read whole and written back whole.                        *)
EXTENDS Integers, FiniteSets

CONSTANTS Admins,     \* requests in flight at once
          Packages,   \* versions of the plugin that can be installed
          Broken,     \* versions whose script or load() throws
          Guarded,    \* versions declaring permissions that need approval
          None,       \* no plugin directory
          MaxLoads,   \* bound: instances created
          MaxOps      \* bound: admin requests

VARIABLES live,       \* m.instances[short], 0 when absent
          loads,      \* instances created so far
          inst,       \* the Instance records
          hooks,      \* m.hooks: the function's runtime and the host it is queued on
          rpc,        \* the plugin's method is in the RPC registry
          jobs,       \* scheduler jobs of the plugin
          dir,        \* the package in DataDir/<short>
          saved,      \* state.json: enabled flag and approved package
          req,        \* one admin request per goroutine
          ops         \* requests started
pvars == <<live, loads, inst, hooks, rpc, jobs, dir, saved, req, ops>>

Instances == 1..MaxLoads
Idle == [op |-> "none", pc |-> "idle", i |-> 0, rt |-> FALSE, st |-> [enabled |-> FALSE, approved |-> None],
         pkg |-> None, old |-> None, on |-> FALSE, err |-> FALSE, alone |-> FALSE, served |-> FALSE]
Fresh == [vm |-> "none", pkg |-> None, runtime |-> FALSE, methods |-> {}, crons |-> {}]
Approved(st, p) == p \in Guarded => st.approved = p

Init == /\ live = 0 /\ loads = 0 /\ hooks = {} /\ rpc = FALSE /\ jobs = {} /\ ops = 0
        /\ inst = [i \in Instances |-> Fresh]
        /\ dir \in Packages \cup {None}
        /\ saved = [enabled |-> FALSE, approved |-> None]
        /\ req = [a \in Admins |-> Idle]

Goto(a, pc) == req' = [req EXCEPT ![a].pc = pc]
Quiet == \A a \in Admins : req[a].pc = "idle"

-----------------------------------------------------------------------------
(* An admin request arrives.  A request that overlaps another one is marked *)
(* so: `alone` belongs to the properties, not to the code.                  *)
Sound == live # 0 /\ inst[live].pkg = dir /\ saved.enabled /\ Approved(saved, dir)
Begin(a, op, first, extra) ==
    /\ req[a].pc = "idle" /\ ops < MaxOps
    /\ ops' = ops + 1
    /\ req' = [b \in Admins |->
          IF b = a THEN [Idle EXCEPT !.op = op, !.pc = first, !.st = extra.st, !.pkg = extra.pkg, !.on = extra.on,
                                     !.alone = Quiet, !.served = Sound]
          ELSE [req[b] EXCEPT !.alone = FALSE]]
Plain(st) == [st |-> st, pkg |-> None, on |-> FALSE]

\* setEnabled(true): approval is stored before the load; a running plugin is
\* only marked enabled.
Enable(a, approve) ==
    /\ dir # None
    /\ \/ /\ live # 0
          /\ Begin(a, "enable", "store", Plain(saved)) /\ UNCHANGED saved
       \/ /\ live = 0 /\ (Approved(saved, dir) \/ approve)
          /\ saved' = IF Approved(saved, dir) THEN saved ELSE [saved EXCEPT !.approved = dir]
          /\ Begin(a, "enable", "claim", Plain(saved'))
    /\ UNCHANGED <<live, loads, inst, hooks, rpc, jobs, dir>>

Disable(a) == /\ dir # None
              /\ Begin(a, "disable", "unload", Plain([saved EXCEPT !.enabled = FALSE]))
              /\ UNCHANGED <<live, loads, inst, hooks, rpc, jobs, dir, saved>>

Reload(a) == /\ saved.enabled
             /\ Begin(a, "reload", "unload", Plain(saved))
             /\ UNCHANGED <<live, loads, inst, hooks, rpc, jobs, dir, saved>>

Delete(a) == /\ Begin(a, "delete", "unload", Plain(saved))
             /\ UNCHANGED <<live, loads, inst, hooks, rpc, jobs, dir, saved>>

\* InstallZip after its checks: the enabled flag is read, then the running
\* plugin is unloaded.
Install(a, p) ==
    /\ Begin(a, "install", "unload", [st |-> saved, pkg |-> p, on |-> saved.enabled])
    /\ UNCHANGED <<live, loads, inst, hooks, rpc, jobs, dir, saved>>

\* LoadAll at startup, and CloseAll at shutdown.
LoadAll(a) ==
    /\ dir # None /\ saved.enabled /\ live = 0
    /\ Begin(a, "boot", IF Approved(saved, dir) THEN "claim" ELSE "store", Plain(saved))
    /\ UNCHANGED <<live, loads, inst, hooks, rpc, jobs, dir, saved>>
CloseAll(a) == /\ live # 0
               /\ Begin(a, "close", "unload", Plain(saved))
               /\ UNCHANGED <<live, loads, inst, hooks, rpc, jobs, dir, saved>>

-----------------------------------------------------------------------------
(* load *)
LoadFailed(a, pc) == req' = [req EXCEPT ![a].err = TRUE, ![a].pc = pc]

\* readManifest, then the claim of the map entry.
Claim(a) ==
    /\ req[a].pc = "claim"
    /\ \/ /\ dir = None \/ live # 0
          /\ LoadFailed(a, "store") /\ UNCHANGED <<live, loads, inst>>
       \/ /\ dir # None /\ live = 0 /\ loads < MaxLoads
          /\ loads' = loads + 1 /\ live' = loads'
          /\ inst' = [inst EXCEPT ![loads'].pkg = dir, ![loads'].vm = "eval"]
          /\ req' = [req EXCEPT ![a].i = loads', ![a].pc = "hook", ![a].err = FALSE]
    /\ UNCHANGED <<hooks, rpc, jobs, dir, saved, ops>>

\* server.hook in the script: silently ignored when no instance is in the
\* map, and bound to the host of whichever instance is.
EvalHook(a) ==
    /\ req[a].pc = "hook"
    /\ hooks' = IF live = 0 THEN hooks ELSE hooks \cup {[fn |-> req[a].i, host |-> live]}
    /\ Goto(a, "rpc")
    /\ UNCHANGED <<live, loads, inst, rpc, jobs, dir, saved, ops>>

\* server.registerRPC in the script, then the end of jsruntime.New: the
\* runtime is published in the Instance, or terminated when the script threw.
Registrable == live # 0 /\ (rpc => inst[live].methods # {})
EvalRpc(a) ==
    LET i == req[a].i IN
    /\ req[a].pc = "rpc"
    /\ \/ /\ Registrable => inst[i].pkg \in Broken
          /\ inst' = [inst EXCEPT ![i].vm = "closed"]
          /\ LoadFailed(a, "drop") /\ UNCHANGED rpc
       \/ /\ Registrable
          /\ inst' = [j \in Instances |->
                [inst[j] EXCEPT !.vm = IF j = i THEN "up" ELSE @,
                                !.runtime = IF j = i THEN TRUE ELSE @,
                                !.methods = IF j = live /\ @ = {} THEN {i} ELSE @]]
          /\ rpc' = TRUE /\ Goto(a, "load")
    /\ UNCHANGED <<live, loads, hooks, jobs, dir, saved, ops>>

\* The load() hook; it registers a cron job, which needs a ready instance in
\* the map.  A runtime closed meanwhile has no load function any more.
LoadHook(a) ==
    LET i == req[a].i IN
    /\ req[a].pc = "load"
    /\ \/ /\ inst[i].vm = "closed"
          /\ Goto(a, "confirm") /\ UNCHANGED <<inst, jobs>>
       \/ /\ inst[i].vm = "up"
          /\ IF live # 0 /\ inst[live].runtime /\ inst[i].pkg \notin Broken
             THEN /\ inst' = [inst EXCEPT ![live].crons = @ \cup {i}]
                  /\ jobs' = jobs \cup {i} /\ Goto(a, "confirm")
             ELSE /\ inst' = [inst EXCEPT ![i].vm = "closed"]
                  /\ LoadFailed(a, "drop") /\ UNCHANGED jobs
    /\ UNCHANGED <<live, loads, hooks, rpc, dir, saved, ops>>

\* Faulty variant: the load does not look whether it was unloaded meanwhile.
ConfirmBlindly(a) ==
    /\ req[a].pc = "confirm" /\ Goto(a, "store")
    /\ UNCHANGED <<live, loads, inst, hooks, rpc, jobs, dir, saved, ops>>

\* stillLoaded.
Confirm(a) ==
    LET i == req[a].i IN
    /\ req[a].pc = "confirm"
    /\ IF live = i THEN Goto(a, "store") /\ UNCHANGED inst
       ELSE LoadFailed(a, "store") /\ inst' = [inst EXCEPT ![i].vm = "closed"]
    /\ UNCHANGED <<live, loads, hooks, rpc, jobs, dir, saved, ops>>

\* What dropInstance and unload clear: the instance's methods and jobs, and
\* every hook of the plugin's name.
Cleared(i) == /\ inst' = [inst EXCEPT ![i].runtime = FALSE, ![i].methods = {}, ![i].crons = {}]
              /\ rpc' = (rpc /\ inst[i].methods = {})
              /\ jobs' = jobs \ inst[i].crons
              /\ hooks' = {}

Drop(a) ==
    LET i == req[a].i IN
    /\ req[a].pc = "drop"
    /\ IF live = i THEN live' = 0 /\ Cleared(i) ELSE UNCHANGED <<live, inst, rpc, jobs, hooks>>
    /\ Goto(a, "store")
    /\ UNCHANGED <<loads, dir, saved, ops>>

-----------------------------------------------------------------------------
(* unload *)
Unload(a) ==
    /\ req[a].pc = "unload"
    /\ IF live = 0 THEN Goto(a, "unloaded") /\ UNCHANGED live
       ELSE live' = 0 /\ req' = [req EXCEPT ![a].i = live, ![a].pc = "unhook"]
    /\ UNCHANGED <<loads, inst, hooks, rpc, jobs, dir, saved, ops>>

\* The runtime is read, and its unload() hook may throw.
UnloadHook(a) ==
    LET i == req[a].i IN
    /\ req[a].pc = "unhook"
    /\ \E throws \in IF inst[i].runtime THEN BOOLEAN ELSE {FALSE} :
          req' = [req EXCEPT ![a].rt = inst[i].runtime, ![a].err = throws, ![a].pc = "detach"]
    /\ UNCHANGED <<live, loads, inst, hooks, rpc, jobs, dir, saved, ops>>

Detach(a) == /\ req[a].pc = "detach"
             /\ Cleared(req[a].i)
             /\ Goto(a, "closing")
             /\ UNCHANGED <<live, loads, dir, saved, ops>>

Closing(a) ==
    /\ req[a].pc = "closing"
    /\ inst' = IF req[a].rt THEN [inst EXCEPT ![req[a].i].vm = "closed"] ELSE inst
    /\ Goto(a, "unloaded")
    /\ UNCHANGED <<live, loads, hooks, rpc, jobs, dir, saved, ops>>

-----------------------------------------------------------------------------
(* What each request does next *)
Done(a) == req' = [req EXCEPT ![a] = Idle]

\* restartPlugin up to its load.
Restart(a) ==
    /\ req' = [req EXCEPT ![a].st = saved, ![a].err = dir = None \/ ~Approved(saved, dir),
                          ![a].pc = IF dir = None \/ ~Approved(saved, dir) THEN "store" ELSE "claim"]
    /\ UNCHANGED <<live, loads, inst, hooks, rpc, jobs, saved, ops>>

\* Disable stores its state whatever unload returned; reload, delete and
\* install stop when the unload() hook threw.
Unloaded(a) ==
    /\ req[a].pc = "unloaded"
    /\ \/ /\ req[a].op = "disable"
          /\ saved' = req[a].st /\ Done(a)
          /\ UNCHANGED <<live, loads, inst, hooks, rpc, jobs, dir, ops>>
       \/ /\ req[a].op = "close" \/ (req[a].op # "disable" /\ req[a].err)
          /\ Done(a)
          /\ UNCHANGED <<live, loads, inst, hooks, rpc, jobs, dir, saved, ops>>
       \/ /\ req[a].op = "reload" /\ ~req[a].err
          /\ Restart(a) /\ UNCHANGED dir
       \/ /\ req[a].op = "delete" /\ ~req[a].err
          /\ dir' = None
          /\ saved' = IF dir = None THEN saved ELSE [enabled |-> FALSE, approved |-> None]
          /\ Done(a)
          /\ UNCHANGED <<live, loads, inst, hooks, rpc, jobs, ops>>
       \/ /\ req[a].op = "install" /\ ~req[a].err
          /\ req' = [req EXCEPT ![a].old = dir, ![a].pc = "publish"]
          /\ dir' = None
          /\ UNCHANGED <<live, loads, inst, hooks, rpc, jobs, saved, ops>>

\* Rename of the staged directory; it fails when another request has put a
\* directory there.  A plugin that was enabled is started again.
Publish(a) ==
    /\ req[a].pc = "publish"
    /\ \/ /\ dir = None /\ dir' = req[a].pkg
          /\ IF req[a].on THEN Goto(a, "restart") ELSE Done(a)
       \/ Goto(a, "rollback") /\ UNCHANGED dir
    /\ UNCHANGED <<live, loads, inst, hooks, rpc, jobs, saved, ops>>

RestartNew(a) == req[a].pc \in {"restart", "restartOld"} /\ Restart(a) /\ UNCHANGED dir

\* Faulty variant: a failed update leaves the new directory in place.
RollbackForgotten(a) ==
    /\ req[a].pc = "rollback" /\ Goto(a, "failed")
    /\ UNCHANGED <<live, loads, inst, hooks, rpc, jobs, dir, saved, ops>>

\* rollback: the new directory is removed and the old one renamed back.
Rollback(a) ==
    /\ req[a].pc = "rollback"
    /\ IF req[a].old = None THEN dir' = None /\ Goto(a, "failed")
       ELSE /\ dir' = req[a].old
            /\ req' = [req EXCEPT ![a].pc = IF req[a].on THEN "restartOld" ELSE "failed", ![a].op = "restore"]
    /\ UNCHANGED <<live, loads, inst, hooks, rpc, jobs, saved, ops>>

\* The state row read before the load is written back.
Store(a) ==
    /\ req[a].pc = "store"
    /\ saved' = IF req[a].op = "boot" /\ ~req[a].err /\ Approved(req[a].st, dir) THEN saved
                ELSE [req[a].st EXCEPT !.enabled = ~req[a].err /\ ~(req[a].op = "boot" /\ ~Approved(req[a].st, dir))]
    /\ IF req[a].op = "install" /\ req[a].err THEN Goto(a, "rollback")
       ELSE IF req[a].op = "restore" THEN Goto(a, "failed")
       ELSE Done(a)
    /\ UNCHANGED <<live, loads, inst, hooks, rpc, jobs, dir, ops>>

Answered(a) == /\ req[a].pc = "failed"
               /\ Done(a)
               /\ UNCHANGED <<live, loads, inst, hooks, rpc, jobs, dir, saved, ops>>

Next == \E a \in Admins :
    \/ \E approve \in BOOLEAN : Enable(a, approve)
    \/ Disable(a) \/ Reload(a) \/ Delete(a) \/ LoadAll(a) \/ CloseAll(a)
    \/ \E p \in Packages : Install(a, p)
    \/ Claim(a) \/ EvalHook(a) \/ EvalRpc(a) \/ LoadHook(a) \/ Confirm(a) \/ Drop(a)
    \/ Unload(a) \/ UnloadHook(a) \/ Detach(a) \/ Closing(a)
    \/ Unloaded(a) \/ Publish(a) \/ RestartNew(a) \/ Rollback(a) \/ Store(a) \/ Answered(a)

Spec == Init /\ [][Next]_pvars

-----------------------------------------------------------------------------
(* When no request is in progress, whatever the overlaps and failures were: *)
(* the only running runtime is the one in the map, the scheduler and the    *)
(* RPC registry hold exactly its registrations, and no hook is queued on    *)
(* another host.                                                            *)
NothingLeaks ==
    Quiet => /\ {i \in Instances : inst[i].vm \in {"eval", "up"}} = {live} \ {0}
             /\ jobs = IF live = 0 THEN {} ELSE inst[live].crons
             /\ rpc <=> live # 0 /\ inst[live].methods # {}
             /\ \A h \in hooks : h.host = live

(* An update that failed, and overlapped no other request, has put the old  *)
(* version back, running and still enabled when it was (InstallZip's        *)
(* rollback).                                                               *)
FailedUpdateRollsBack ==
    \A a \in Admins : req[a].pc = "failed" /\ req[a].alone =>
        /\ dir = req[a].old
        /\ req[a].served => live # 0 /\ inst[live].pkg = dir /\ saved.enabled
=============================================================================
