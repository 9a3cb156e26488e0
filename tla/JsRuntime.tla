------------------------------ MODULE JsRuntime ------------------------------
(* pkg/jsruntime: the life of one runtime's host resources.  Scripts run in  *)
(* turns on an event loop; listeners, sockets, dials, files, processes and   *)
(* fetches are opened and completed by goroutines that hand their result to  *)
(* the loop, while Runtime.Close runs in the caller's goroutine.             *)
EXTENDS Integers, FiniteSets

CONSTANTS MaxHandles,   \* bound: operating-system handles opened
          MaxCalls      \* bound: calls of listen and close on the server

VARIABLES h,            \* the handles
          made,         \* handles created so far
          resources,    \* bridge.Runtime.resources
          refused,      \* bridge.Runtime.resourcesClosed
          fsClosed,     \* fs.Module.closed
          server,       \* one net/http server object
          calls,        \* listen and close calls so far
          turn,         \* a script turn is running on the loop
          loop,         \* running, stopped, terminated
          closing,      \* how far Runtime.Close is
          taken         \* handles CloseResources has collected
jvars == <<h, made, resources, refused, fsClosed, server, calls, turn, loop, closing, taken>>

Handles == 1..MaxHandles
Unused == [kind |-> "none", pc |-> "none", open |-> FALSE, gen |-> 0]
Made == 1..made

Init == /\ h = [i \in Handles |-> Unused] /\ made = 0
        /\ resources = {} /\ refused = FALSE /\ fsClosed = FALSE
        /\ server = [gen |-> 0, pending |-> FALSE, listener |-> 0] /\ calls = 0
        /\ turn = FALSE /\ loop = "running" /\ closing = "no" /\ taken = {}

Make(kind, pc, isOpen, gen) ==
    /\ made < MaxHandles /\ made' = made + 1
    /\ h' = [h EXCEPT ![made'] = [kind |-> kind, pc |-> pc, open |-> isOpen, gen |-> gen]]
Goes(i, pc) == h' = [h EXCEPT ![i].pc = pc]
Ends(i) == h' = [h EXCEPT ![i].pc = "done", ![i].open = FALSE]

\* Faulty variant: a closed runtime still takes resources.
AddResourceLate(i, pc) == Goes(i, pc) /\ resources' = resources \cup {i}

\* AddResource: kept, or closed at once when the runtime has closed.
AddResource(i, pc) ==
    IF refused THEN Ends(i) /\ UNCHANGED resources
    ELSE Goes(i, pc) /\ resources' = resources \cup {i}

-----------------------------------------------------------------------------
(* Turns: RunJob starts one only while the resources are open; what a       *)
(* running turn does is not stopped by Close.                               *)
StartTurn == /\ loop = "running" /\ ~turn /\ ~refused /\ turn' = TRUE
             /\ UNCHANGED <<h, made, resources, refused, fsClosed, server, calls, loop, closing, taken>>
EndTurn == /\ turn /\ turn' = FALSE /\ \A i \in Made : h[i].pc # "started"
           /\ UNCHANGED <<h, made, resources, refused, fsClosed, server, calls, loop, closing, taken>>

Listen == /\ turn /\ calls < MaxCalls /\ calls' = calls + 1
          /\ ~server.pending /\ server.listener = 0
          /\ server' = [server EXCEPT !.gen = @ + 1, !.pending = TRUE]
          /\ Make("listener", "binding", FALSE, server.gen + 1)
          /\ UNCHANGED <<resources, refused, fsClosed, turn, loop, closing, taken>>

CloseServer ==
    LET i == server.listener IN
    /\ turn /\ calls < MaxCalls /\ calls' = calls + 1
    /\ server' = [gen |-> server.gen + 1, pending |-> FALSE, listener |-> 0]
    /\ h' = IF i = 0 THEN h ELSE [h EXCEPT ![i].open = FALSE]
    /\ resources' = resources \ {i}
    /\ UNCHANGED <<made, refused, fsClosed, turn, loop, closing, taken>>

\* netConnect: the dial is registered before it starts.
Connect == /\ turn /\ ~refused
           /\ Make("dial", "dialing", FALSE, 0)
           /\ resources' = resources \cup {made'}
           /\ UNCHANGED <<refused, fsClosed, server, calls, turn, loop, closing, taken>>

\* spawn and exec: the process starts, then it is registered.
Spawn == /\ turn
         /\ Make("child", "started", TRUE, 0)
         /\ UNCHANGED <<resources, refused, fsClosed, server, calls, turn, loop, closing, taken>>
RegisterChild(i) ==
    /\ h[i].kind = "child" /\ h[i].pc = "started"
    /\ AddResource(i, "running")
    /\ UNCHANGED <<made, refused, fsClosed, server, calls, turn, loop, closing, taken>>

\* An asynchronous open; its goroutine outlives the turn.
OpenFile == /\ turn
            /\ Make("file", "opening", FALSE, 0)
            /\ UNCHANGED <<resources, refused, fsClosed, server, calls, turn, loop, closing, taken>>

Fetch == /\ turn
         /\ \E signalled \in {0, 1} : Make("fetch", "fetching", TRUE, signalled)
         /\ UNCHANGED <<resources, refused, fsClosed, server, calls, turn, loop, closing, taken>>

\* destroy, fs.close and kill called by the script.
Release(i) ==
    /\ turn /\ h[i].pc \in {"attached", "running"} /\ h[i].open
    /\ h' = [h EXCEPT ![i].open = FALSE, ![i].pc = IF h[i].kind = "file" THEN "done" ELSE @]
    /\ resources' = IF h[i].kind = "child" THEN resources ELSE resources \ {i}
    /\ UNCHANGED <<made, refused, fsClosed, server, calls, turn, loop, closing, taken>>

-----------------------------------------------------------------------------
(* Goroutines *)
Bind(i) ==
    /\ h[i].pc = "binding"
    /\ \/ /\ h' = [h EXCEPT ![i].pc = "bound", ![i].open = TRUE] /\ UNCHANGED server
       \/ /\ Ends(i)
          /\ server' = [server EXCEPT !.pending = @ /\ server.gen # h[i].gen]
    /\ UNCHANGED <<made, resources, refused, fsClosed, calls, turn, loop, closing, taken>>

\* Faulty variant: a listen whose server was closed meanwhile is adopted.
AdoptAnyListener(i) ==
    /\ h[i].pc = "bound"
    /\ AddResource(i, "serving")
    /\ server' = [server EXCEPT !.pending = FALSE, !.listener = IF refused THEN @ ELSE i]
    /\ UNCHANGED <<made, refused, fsClosed, calls, turn, loop, closing, taken>>

\* The bound listener belongs to the server only when the server has not
\* been closed since, and to the runtime only when that is still open.
Adopt(i) ==
    /\ h[i].pc = "bound"
    /\ IF ~server.pending \/ server.gen # h[i].gen
       THEN Ends(i) /\ UNCHANGED <<resources, server>>
       ELSE /\ AddResource(i, "serving")
            /\ server' = [server EXCEPT !.pending = FALSE, !.listener = IF refused THEN @ ELSE i]
    /\ UNCHANGED <<made, refused, fsClosed, calls, turn, loop, closing, taken>>

Accept(i) ==
    /\ h[i].pc = "serving" /\ h[i].open
    /\ Make("conn", "accepted", TRUE, 0)
    /\ UNCHANGED <<resources, refused, fsClosed, server, calls, turn, loop, closing, taken>>

\* Accept fails once the listener is closed; the http server clears its
\* fields when it is still the current one.
ServeEnds(i) ==
    /\ h[i].pc = "serving" /\ ~h[i].open
    /\ Goes(i, "done")
    /\ server' = [server EXCEPT !.listener = IF @ = i THEN 0 ELSE @]
    /\ resources' = resources \ {i}
    /\ UNCHANGED <<made, refused, fsClosed, calls, turn, loop, closing, taken>>

\* The dial succeeds or fails, whether or not it was cancelled meanwhile.
Dialled(i) ==
    /\ h[i].pc = "dialing"
    /\ resources' = resources \ {i}
    /\ \/ h' = [h EXCEPT ![i].pc = "accepted", ![i].open = TRUE]
       \/ Ends(i)
    /\ UNCHANGED <<made, refused, fsClosed, server, calls, turn, loop, closing, taken>>

\* RunOnLoop takes a job until the loop is terminated; a connection that
\* cannot be handed over is closed by its goroutine.
HandOver(i) ==
    /\ h[i].pc = "accepted"
    /\ IF loop = "terminated" THEN Ends(i) ELSE Goes(i, "queued")
    /\ UNCHANGED <<made, resources, refused, fsClosed, server, calls, turn, loop, closing, taken>>

\* configureNetSocket in a job, on the loop or in Terminate's last drain.
Attach(i) ==
    /\ h[i].pc = "queued" /\ ~turn
    /\ loop = "running" \/ closing = "draining"
    /\ AddResource(i, "attached")
    /\ UNCHANGED <<made, refused, fsClosed, server, calls, turn, loop, closing, taken>>

\* The socket's reader sees the end of the stream, or its connection closed.
SocketEnds(i) ==
    /\ h[i].pc = "attached" /\ h[i].kind \in {"conn", "dial"}
    /\ Ends(i) /\ resources' = resources \ {i}
    /\ UNCHANGED <<made, refused, fsClosed, server, calls, turn, loop, closing, taken>>

\* cmd.Wait returns.
ChildExits(i) ==
    /\ h[i].pc = "running"
    /\ Ends(i) /\ resources' = resources \ {i}
    /\ UNCHANGED <<made, refused, fsClosed, server, calls, turn, loop, closing, taken>>

\* nodeOpenFile under the lifecycle lock, then registerFile under it again.
Opened(i) ==
    /\ h[i].pc = "opening"
    /\ IF fsClosed THEN Ends(i) ELSE h' = [h EXCEPT ![i].pc = "opened", ![i].open = TRUE]
    /\ UNCHANGED <<made, resources, refused, fsClosed, server, calls, turn, loop, closing, taken>>
RegisterFile(i) ==
    /\ h[i].pc = "opened"
    /\ IF fsClosed THEN Ends(i) /\ UNCHANGED resources ELSE AddResource(i, "attached")
    /\ UNCHANGED <<made, refused, fsClosed, server, calls, turn, loop, closing, taken>>

\* The answer, the abort, or the timeout every fetch has.
FetchEnds(i) ==
    /\ h[i].pc = "fetching"
    /\ Ends(i)
    /\ UNCHANGED <<made, resources, refused, fsClosed, server, calls, turn, loop, closing, taken>>

-----------------------------------------------------------------------------
(* Runtime.Close: fetch, files, resources, loop. *)
CloseFetch ==
    /\ closing = "no" /\ closing' = "fs"
    /\ h' = [i \in Handles |->
          IF h[i].pc = "fetching" /\ h[i].gen = 1 THEN [h[i] EXCEPT !.pc = "done", !.open = FALSE] ELSE h[i]]
    /\ UNCHANGED <<made, resources, refused, fsClosed, server, calls, turn, loop, taken>>

Files == {i \in Made : h[i].kind = "file" /\ h[i].pc = "attached"}
CloseFiles ==
    /\ closing = "fs" /\ closing' = "resources"
    /\ fsClosed' = TRUE
    /\ h' = [i \in Handles |-> IF i \in Files THEN [h[i] EXCEPT !.pc = "done", !.open = FALSE] ELSE h[i]]
    /\ resources' = resources \ Files
    /\ UNCHANGED <<made, refused, server, calls, turn, loop, taken>>

CloseResources ==
    /\ closing = "resources" /\ closing' = "each"
    /\ refused' = TRUE /\ taken' = resources /\ resources' = {}
    /\ UNCHANGED <<h, made, fsClosed, server, calls, turn, loop>>

CloseOne(i) ==
    /\ closing = "each" /\ i \in taken
    /\ taken' = taken \ {i}
    /\ h' = [h EXCEPT ![i].open = FALSE]
    /\ UNCHANGED <<made, resources, refused, fsClosed, server, calls, turn, loop, closing>>

\* Terminate: the loop stops after its turn, refuses further jobs, and runs
\* those it has.
StopLoop == /\ closing = "each" /\ taken = {} /\ ~turn
            /\ closing' = "stopped" /\ loop' = "stopped"
            /\ UNCHANGED <<h, made, resources, refused, fsClosed, server, calls, turn, taken>>
Terminate == /\ closing = "stopped" /\ closing' = "draining" /\ loop' = "terminated"
             /\ UNCHANGED <<h, made, resources, refused, fsClosed, server, calls, turn, taken>>
Closed == /\ closing = "draining" /\ \A i \in Made : h[i].pc # "queued"
          /\ closing' = "closed"
          /\ UNCHANGED <<h, made, resources, refused, fsClosed, server, calls, turn, loop, taken>>

Next == \/ StartTurn \/ EndTurn \/ Listen \/ CloseServer \/ Connect \/ Spawn \/ OpenFile \/ Fetch
        \/ \E i \in Made : \/ RegisterChild(i) \/ Release(i) \/ Bind(i) \/ Adopt(i) \/ Accept(i) \/ ServeEnds(i)
                           \/ Dialled(i) \/ HandOver(i) \/ Attach(i) \/ SocketEnds(i) \/ ChildExits(i)
                           \/ Opened(i) \/ RegisterFile(i) \/ FetchEnds(i) \/ CloseOne(i)
        \/ CloseFetch \/ CloseFiles \/ CloseResources \/ StopLoop \/ Terminate \/ Closed

Spec == Init /\ [][Next]_jvars /\ WF_jvars(Next)

-----------------------------------------------------------------------------
(* A serving listener is the server's current one, until Close takes it:    *)
(* a server closed while its listen was in progress keeps no port.          *)
ClosedServerKeepsNoPort ==
    \A i \in Made : h[i].pc = "serving" /\ h[i].open => server.listener = i

(* Once the runtime is closed no socket, listener, process, file or fetch   *)
(* outlives the goroutines that still hold one (README: Close closes every  *)
(* registered resource), however Close interleaves with them.               *)
IsClosed == closing = "closed"
AllReleased == \A i \in Handles : ~h[i].open
CloseReleases == IsClosed ~> AllReleased
=============================================================================
