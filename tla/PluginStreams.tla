---------------------------- MODULE PluginStreams ----------------------------
(* internal/plugin/server.go: one request to a plugin route.  The script    *)
(* runs on the plugin's event loop and hands chunks to the HTTP pump, which *)
(* selects among a chunk, the end of the response, the client's departure   *)
(* and its idle timer.                                                      *)
EXTENDS Integers, Sequences

CONSTANTS Chunks,     \* bound: chunks the script writes
          ChanCap     \* capacity of the chunk channel (4 in the code)

VARIABLES alive,      \* the runtime still accepts turns
          streaming,  \* the script set res.streaming
          written,    \* chunks the script has written so far
          blocked,    \* the event loop is inside pushChunk
          chan,       \* state.chunks
          body,       \* state.body, written at the end in normal mode
          ended,      \* state.ended: done is closed
          owed,       \* chunks written before that
          abort,      \* abortCh is closed
          client,     \* the client is connected
          pump,       \* "new", "running" or how it returned
          committed,  \* status and headers were sent
          received    \* what the client got
svars == <<alive, streaming, written, blocked, chan, body, ended, owed, abort, client, pump, committed, received>>

Init == /\ alive \in BOOLEAN /\ streaming = FALSE /\ written = 0 /\ blocked = FALSE
        /\ chan = <<>> /\ body = <<>> /\ ended = FALSE /\ owed = 0 /\ abort = FALSE
        /\ client = TRUE /\ pump = "new" /\ committed = FALSE /\ received = <<>>

\* routeHandler: the turn is queued, or the runtime is closed (503).
Queue == /\ pump = "new"
         /\ pump' = IF alive THEN "running" ELSE "unavailable"
         /\ UNCHANGED <<alive, streaming, written, blocked, chan, body, ended, owed, abort, client, committed, received>>

ScriptRuns == pump \notin {"new", "unavailable"} /\ ~blocked

\* res.streaming = true, before or after the first write.
SetStreaming == /\ ScriptRuns /\ ~streaming /\ ~ended
                /\ streaming' = TRUE
                /\ UNCHANGED <<alive, written, blocked, chan, body, ended, owed, abort, client, pump, committed, received>>

\* res.write: buffered in normal mode, pushed to the pump in streaming mode.
Write == /\ ScriptRuns /\ written < Chunks
         /\ written' = written + 1
         /\ \/ /\ ~streaming
               /\ body' = Append(body, written') /\ UNCHANGED <<chan, blocked>>
            \/ /\ streaming
               /\ UNCHANGED body
               /\ \/ abort /\ UNCHANGED <<chan, blocked>>
                  \/ Len(chan) < ChanCap /\ chan' = Append(chan, written') /\ UNCHANGED blocked
                  \/ ~abort /\ Len(chan) = ChanCap /\ blocked' = TRUE /\ UNCHANGED chan
         /\ UNCHANGED <<alive, streaming, ended, owed, abort, client, pump, committed, received>>

\* A blocked pushChunk goes on when the pump took a chunk, or on abort.
Unblock == /\ blocked
           /\ \/ Len(chan) < ChanCap /\ chan' = Append(chan, written)
              \/ abort /\ UNCHANGED chan
           /\ blocked' = FALSE
           /\ UNCHANGED <<alive, streaming, written, body, ended, owed, abort, client, pump, committed, received>>

\* res.end, or the turn failed before it.
End == /\ ScriptRuns /\ ~ended
       /\ ended' = TRUE /\ owed' = written
       /\ UNCHANGED <<alive, streaming, written, blocked, chan, body, abort, client, pump, committed, received>>

\* The pump's select: any ready case may be taken.
TakeChunk == /\ pump = "running" /\ chan # <<>>
             /\ received' = IF client THEN Append(received, Head(chan)) ELSE received
             /\ chan' = Tail(chan) /\ committed' = TRUE
             /\ UNCHANGED <<alive, streaming, written, blocked, body, ended, owed, abort, client, pump>>
TakeDone == /\ pump = "running" /\ ended
            /\ received' = IF committed \/ ~client THEN received ELSE received \o body
            /\ pump' = "done"
            /\ UNCHANGED <<alive, streaming, written, blocked, chan, body, ended, owed, abort, client, committed>>
TakeGone == /\ pump = "running" /\ ~client
            /\ abort' = TRUE /\ pump' = "gone"
            /\ UNCHANGED <<alive, streaming, written, blocked, chan, body, ended, owed, client, committed, received>>
\* The idle timer: a stream is aborted, any other request is answered 504.
TakeIdle == /\ pump = "running"
            /\ abort' = streaming /\ pump' = "timedOut"
            /\ UNCHANGED <<alive, streaming, written, blocked, chan, body, ended, owed, client, committed, received>>

Leave == /\ client
         /\ client' = FALSE
         /\ UNCHANGED <<alive, streaming, written, blocked, chan, body, ended, owed, abort, pump, committed, received>>

Next == \/ Queue \/ SetStreaming \/ Write \/ Unblock \/ End \/ Leave
        \/ TakeChunk \/ TakeDone \/ TakeGone \/ TakeIdle
Spec == Init /\ [][Next]_svars

-----------------------------------------------------------------------------
(* A response that streamed from its first write and was ended by the       *)
(* script reaches a client that stayed, chunk by chunk: "every res.write is *)
(* sent back to the client" (server.go, the pump's comment).                *)
StreamDelivered ==
    pump = "done" /\ client /\ streaming /\ body = <<>> => Len(received) >= owed
=============================================================================
