------------------------------ MODULE Settings -------------------------------
(* Settings (internal/config): the table, the reads that store defaults, the  *)
(* writes that publish an event to every subscriber in a goroutine of its     *)
(* own, the handlers of the reload manager (internal/server), and the         *)
(* providers that follow the settings (web/oauth, utils/messageSender,        *)
(* utils/geoip, web/security/cors.go).                                        *)
EXTENDS Naturals, FiniteSets

CONSTANTS Tasks,      \* concurrent requests
          Values,     \* the values of a setting, and the names of providers
          Default,    \* the default of every setting
          Edits,      \* the sets of settings that are saved together
          MaxOps      \* bound on requests

Kinds == {"oauth", "sender", "geoip"}          \* settings that name a provider
Keys == Kinds \cup {"origins", "lazy"}         \* "lazy": read for the first time late
Missing == "missing"
Idle == [pc |-> "idle", keys |-> {}, value |-> Default, old |-> <<>>]

VARIABLES stored,     \* the table: a value or Missing
          saved,      \* per kind and provider: the version of its configuration
          task,       \* per request: what it is doing and has read
          events,     \* event goroutines not yet run
          loaders,    \* goroutines that load a provider anew
          origins,    \* CorsController: the origins in force
          provider,   \* per kind: the provider in force and its configuration
          raced,      \* history: keys whose edits have overlapped
          running, ops
svars == <<stored, saved, task, events, loaders, origins, provider, raced, running, ops>>

\* After the start: the providers and the origins are loaded and their settings stored.
Init == /\ stored = [k \in Keys |-> IF k = "lazy" THEN Missing ELSE Default]
        /\ saved = [k \in Kinds |-> [v \in Values |-> 0]]
        /\ task = [t \in Tasks |-> Idle] /\ events = {} /\ loaders = {}
        /\ origins = Default
        /\ provider = [k \in Kinds |-> [name |-> Default, version |-> 0]]
        /\ raced = {} /\ running = TRUE /\ ops = 0

InForce == <<origins, provider>>
Quiescent == events = {} /\ loaders = {} /\ \A t \in Tasks : task[t].pc = "idle"
Begin(t, record) == /\ running /\ task[t].pc = "idle" /\ ops < MaxOps /\ ops' = ops + 1
                    /\ task' = [task EXCEPT ![t] = record]
\* A request, a handler or a loader is still at work on a key.
Busy(k) == \/ \E t \in Tasks : k \in task[t].keys
           \/ \E e \in events : k \in DOMAIN e.new
           \/ \E l \in loaders : l.kind = k
\* Edits of a key that overlap may be put into force in any order. One that
\* overlaps none and has something to put into force settles the key again.
Noted(keys, settled) == raced' = (raced \ settled) \cup {k \in keys : Busy(k)}

-----------------------------------------------------------------------------
\* Set, SetMany: the old values are read first; the write is an upsert.
BeginSet(t, keys, v) == /\ Noted(keys, {k \in keys : stored[k] # v})
                        /\ Begin(t, [pc |-> "set", keys |-> keys, value |-> v,
                                     old |-> [k \in keys |-> stored[k]]])
                        /\ UNCHANGED <<stored, saved, events, loaders, InForce, running>>
Written(t) == [k \in Keys |-> IF k \in task[t].keys THEN task[t].value ELSE stored[k]]
Event(t) == [id |-> <<ops, t>>, old |-> task[t].old, new |-> [k \in task[t].keys |-> task[t].value]]
Write(t) == /\ task[t].pc \in {"set", "default"}
            /\ stored' = Written(t)
            /\ events' = IF running THEN events \cup {Event(t)} ELSE events
            /\ task' = [task EXCEPT ![t] = Idle]
            /\ UNCHANGED <<saved, loaders, InForce, raced, running, ops>>

\* GetMany, GetManyAs: a default is upserted for every key the read did not find,
\* without an event; GetAs stores it with Set.
Found(k) == stored[k] # Missing
Read(t, keys, many) == /\ \E k \in keys : ~Found(k)
                       /\ Begin(t, [pc |-> IF many THEN "fill" ELSE "default", keys |-> {k \in keys : ~Found(k)},
                                    value |-> Default, old |-> <<>>])
                       /\ UNCHANGED <<stored, saved, events, loaders, InForce, raced, running>>
Fill(t) == /\ task[t].pc = "fill"
           /\ stored' = Written(t) /\ task' = [task EXCEPT ![t] = Idle]
           /\ UNCHANGED <<saved, events, loaders, InForce, raced, running, ops>>

-----------------------------------------------------------------------------
\* ConfigEvent.IsChanged: a key the table did not hold is changed, too.
IsChanged(e, k) == k \in DOMAIN e.new /\ e.new[k] # e.old[k]
Loaded(k, name, version) == provider' = [provider EXCEPT ![k] = [name |-> name, version |-> version]]

\* One goroutine runs the handlers of an event: CORS and OAuth take the event's
\* value, the other providers are loaded by goroutines that read the table anew.
Dispatch(e) == /\ e \in events /\ events' = events \ {e}
               /\ origins' = IF IsChanged(e, "origins") THEN e.new["origins"] ELSE origins
               /\ IF IsChanged(e, "oauth") /\ running
                  THEN Loaded("oauth", e.new["oauth"], saved["oauth"][e.new["oauth"]])
                  ELSE UNCHANGED provider
               /\ loaders' = loaders \cup {[id |-> e.id, kind |-> k, pc |-> "read", name |-> Default] :
                                           k \in {j \in {"sender", "geoip"} : IsChanged(e, j)}}
               /\ UNCHANGED <<stored, saved, task, raced, running, ops>>

\* messageSender.Initialize, InitGeoIp: the name, then its configuration.
ReadName(l) == /\ l \in loaders /\ l.pc = "read"
               /\ loaders' = (loaders \ {l}) \cup {[l EXCEPT !.pc = "load", !.name = stored[l.kind]]}
               /\ UNCHANGED <<stored, saved, task, events, InForce, raced, running, ops>>
LoadProvider(l) == /\ l \in loaders /\ l.pc = "load" /\ loaders' = loaders \ {l}
                   /\ Loaded(l.kind, l.name, saved[l.kind][l.name])
                   /\ UNCHANGED <<stored, saved, task, events, origins, raced, running, ops>>

\* adminSetMessageSender, adminSetOidc: the configuration is saved, then loaded
\* when the setting names this provider.
SaveProvider(t, k, name) == /\ k # "geoip" /\ saved[k][name] = 0
                            /\ Noted({k}, IF stored[k] = name THEN {k} ELSE {})
                            /\ Begin(t, [Idle EXCEPT !.pc = "apply", !.keys = {k}, !.value = name])
                            /\ saved' = [saved EXCEPT ![k][name] = 1]
                            /\ UNCHANGED <<stored, events, loaders, InForce, running>>
\* Faulty variant: the new configuration waits for the next change of the setting.
InUseNever(k, name) == FALSE

InUse(k, name) == stored[k] = name
Apply(t) == /\ task[t].pc = "apply" /\ task' = [task EXCEPT ![t] = Idle]
            /\ \E k \in task[t].keys : IF InUse(k, task[t].value) /\ running
                                       THEN Loaded(k, task[t].value, 1) ELSE UNCHANGED provider
            /\ UNCHANGED <<stored, saved, events, loaders, origins, raced, running, ops>>

\* The cleanups destroy the providers; the goroutines of earlier events go on.
Shutdown == /\ running /\ running' = FALSE
            /\ UNCHANGED <<stored, saved, task, events, loaders, InForce, raced, ops>>

Next == \/ \E t \in Tasks : \/ \E keys \in Edits, v \in Values : BeginSet(t, keys, v)
                            \/ \E many \in BOOLEAN : Read(t, {"lazy"}, many)
                            \/ Write(t) \/ Fill(t) \/ Apply(t)
                            \/ \E k \in Kinds, name \in Values : SaveProvider(t, k, name)
        \/ \E e \in events : Dispatch(e)
        \/ \E l \in loaders : ReadName(l) \/ LoadProvider(l)
        \/ Shutdown
Spec == Init /\ [][Next]_svars

-----------------------------------------------------------------------------
(* Once the goroutines of all edits have ended, what is in force is what the  *)
(* table says, however edits of other settings overlapped it: the origins,    *)
(* and each provider with the configuration saved last. Nothing orders the    *)
(* goroutines of overlapping edits of one key (internal/config/config.go:537), *)
(* and the earlier value may stay in force: such keys are left out until an   *)
(* edit that overlaps none changes them, which puts them right.               *)
SettledInForce == running /\ Quiescent =>
  /\ "origins" \in raced \/ origins = stored["origins"]
  /\ \A k \in Kinds \ raced : provider[k] = [name |-> stored[k], version |-> saved[k][stored[k]]]
=============================================================================
