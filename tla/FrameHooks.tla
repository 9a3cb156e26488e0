----------------------------- MODULE FrameHooks -----------------------------
(* The frames of a WebSocket and the plugins' hooks (internal/plugin/wshook,  *)
(* web/connection/safe_conn): each hook runs on the event loop of its plugin  *)
(* while the connection waits for it, at most for a second.  The data of a    *)
(* frame is the sequence of hooks that replaced it.  Reports and terminals    *)
(* read and write through this connection; the network is external.           *)
EXTENDS Integers, Sequences, FiniteSets, SequencesExt

CONSTANTS Chain,      \* number of hooks, each of a plugin of its own
          Writers,    \* goroutines that write
          MaxFrames,  \* frames (bound), of which each writer writes one
          MaxDropped, \* maxConsecutiveDroppedFrames
          MaxTimeouts \* hooks that are not waited for (bound)

VARIABLES conn,      \* connecting, open, denied, closed
          closing,   \* Close calls, and OnClose calls that came of them
          frames,    \* per frame: from, phase, at, data, dropped; the last ones are written
          reader,    \* the frame in the read loop, drops in a row, failed
          mutex,     \* SafeConn.mu while a frame is written
          jobs,      \* queue of each plugin's loop: frames whose hook it will run
          running,   \* per plugin: the frame it has, and the data it saw
          open,      \* plugins whose runtime is open
          out,       \* received by the caller, and sent to the peer: frames in order
          timeouts
frameVars == <<conn, closing, frames, reader, mutex, jobs, running, open, out, timeouts>>

Hooks == 1..Chain
Nobody == "nobody"
NoFrame == 0
Idle == [frame |-> NoFrame, data |-> <<>>]
Numbers == DOMAIN frames

Init == /\ conn = "connecting" /\ closing = [calls |-> 0, hooks |-> 0]
        /\ frames = <<>> /\ reader = [frame |-> NoFrame, dropped |-> 0, failed |-> FALSE]
        /\ mutex = Nobody /\ jobs = [h \in Hooks |-> <<>>] /\ running = [h \in Hooks |-> Idle]
        /\ open = Hooks /\ out = [received |-> <<>>, sent |-> <<>>] /\ timeouts = 0

\* OnConnect: the first hook that denies in time ends the connection.
Connect == /\ conn = "connecting" /\ conn' \in {"open"} \cup (IF open = {} THEN {} ELSE {"denied"})
           /\ UNCHANGED <<closing, frames, reader, mutex, jobs, running, open, out, timeouts>>

New(from) == [from |-> from, at |-> 0, data |-> <<>>, waits |-> FALSE, late |-> {}, said |-> {}, fate |-> "chain"]
Usable == conn = "open"

\* readFrame: the next frame from the peer.
Read == /\ Usable /\ reader.frame = NoFrame /\ ~reader.failed
        /\ Len(frames) < MaxFrames
        /\ frames' = Append(frames, New("peer"))
        /\ reader' = [reader EXCEPT !.frame = Len(frames) + 1]
        /\ UNCHANGED <<conn, closing, mutex, jobs, running, open, out, timeouts>>

\* writeFrame holds the lock over its hooks.
Write(w) == /\ conn \in {"open", "closed"} /\ mutex = Nobody /\ mutex' = w
            /\ Len(frames) < MaxFrames /\ \A n \in Numbers : frames[n].from # w
            /\ frames' = Append(frames, New(w))
            /\ UNCHANGED <<conn, closing, reader, jobs, running, open, out, timeouts>>

-----------------------------------------------------------------------------
(* runFrameHooks *)

\* After Close the chain is left out of writes; a frame in it goes on.
Chained(f) == f.fate = "chain" /\ (f.at > 0 \/ f.from = "peer" \/ conn = "open")
Bypassed(f) == f.fate = "chain" /\ f.at = 0 /\ f.from # "peer" /\ conn # "open"

\* The next hook is queued; a closed runtime ends the chain.
Ask(n) == LET f == frames[n]
              h == f.at + 1 IN
    /\ Chained(f) /\ ~f.waits /\ f.at < Chain
    /\ IF h \in open
         THEN /\ frames' = [frames EXCEPT ![n].at = h, ![n].waits = TRUE]
              /\ jobs' = [jobs EXCEPT ![h] = Append(@, n)]
         ELSE frames' = [frames EXCEPT ![n].at = Chain] /\ UNCHANGED jobs
    /\ UNCHANGED <<conn, closing, reader, mutex, running, open, out, timeouts>>

\* The loop takes the job and shows the hook the frame as it is now.
Take(h) == /\ running[h] = Idle /\ jobs[h] # <<>> /\ h \in open
           /\ jobs' = [jobs EXCEPT ![h] = Tail(@)]
           /\ running' = [running EXCEPT ![h] = [frame |-> Head(jobs[h]), data |-> frames[Head(jobs[h])].data]]
           /\ UNCHANGED <<conn, closing, frames, reader, mutex, open, out, timeouts>>

\* What the hook says goes to the frame even when nobody waits for it any more;
\* a drop counts only for one who waits.  A hook that throws says the same.
Waits(n, h) == frames[n].waits /\ frames[n].at = h
Answers(h) == LET n == running[h].frame IN
    /\ n # NoFrame
    /\ \E say \in {"same", "replace", "drop"} :
         frames' = IF frames[n].fate # "chain" THEN frames ELSE [frames EXCEPT
             ![n].data = IF say = "replace" THEN Append(running[h].data, h) ELSE @,
             ![n].waits = IF Waits(n, h) THEN FALSE ELSE @,
             ![n].said = @ \cup {<<h, say>>},
             ![n].fate = IF say = "drop" /\ Waits(n, h) THEN "drop" ELSE @]
    /\ running' = [running EXCEPT ![h] = Idle]
    /\ UNCHANGED <<conn, closing, reader, mutex, jobs, open, out, timeouts>>

\* After a second the frame passes this hook, which runs on.
TimesOut(n) == /\ frames[n].waits /\ timeouts < MaxTimeouts /\ timeouts' = timeouts + 1
               /\ frames' = [frames EXCEPT ![n].waits = FALSE, ![n].late = @ \cup {frames[n].at}]
               /\ UNCHANGED <<conn, closing, reader, mutex, jobs, running, open, out>>

Passed(f) == Bypassed(f) \/ (f.fate = "chain" /\ ~f.waits /\ f.at = Chain)
Result(n) == [frame |-> n, data |-> frames[n].data]

-----------------------------------------------------------------------------
Received(n) == /\ reader.frame = n /\ Passed(frames[n])
               /\ out' = [out EXCEPT !.received = Append(@, Result(n))]
               /\ frames' = [frames EXCEPT ![n].fate = "received"]
               /\ reader' = [reader EXCEPT !.frame = NoFrame, !.dropped = 0]
               /\ UNCHANGED <<conn, closing, mutex, jobs, running, open, timeouts>>
Skipped(n) == /\ reader.frame = n /\ frames[n].fate = "drop"
              /\ frames' = [frames EXCEPT ![n].fate = "dropped"]
              /\ reader' = [frame |-> NoFrame, dropped |-> reader.dropped + 1,
                            failed |-> reader.dropped + 1 >= MaxDropped]
              /\ UNCHANGED <<conn, closing, mutex, jobs, running, open, out, timeouts>>
Sent(n) == /\ mutex = frames[n].from /\ mutex' = Nobody
           /\ \/ /\ Passed(frames[n]) /\ conn = "open"
                 /\ out' = [out EXCEPT !.sent = Append(@, Result(n))]
                 /\ frames' = [frames EXCEPT ![n].fate = "sent"]
              \/ /\ Passed(frames[n]) /\ conn = "closed"
                 /\ frames' = [frames EXCEPT ![n].fate = "failed"] /\ UNCHANGED out
              \/ /\ frames[n].fate = "drop" /\ UNCHANGED out
                 /\ frames' = [frames EXCEPT ![n].fate = "dropped"]
           /\ UNCHANGED <<conn, closing, reader, jobs, running, open, timeouts>>

\* Close waits for the writer; only the first one runs the hooks of the end.
EndHooks == IF conn = "open" THEN 1 ELSE 0
Close == /\ conn \in {"open", "closed"} /\ mutex = Nobody /\ closing.calls < 2
         /\ conn' = "closed"
         /\ closing' = [calls |-> closing.calls + 1, hooks |-> closing.hooks + EndHooks]
         /\ UNCHANGED <<frames, reader, mutex, jobs, running, open, out, timeouts>>

\* A plugin is disabled: its loop ends with the jobs that are left in it.
Unload(h) == /\ h \in open /\ running[h] = Idle /\ open' = open \ {h}
             /\ UNCHANGED <<conn, closing, frames, reader, mutex, jobs, running, out, timeouts>>

Next == \/ Connect \/ Read \/ Close
        \/ \E w \in Writers : Write(w)
        \/ \E n \in Numbers : Ask(n) \/ TimesOut(n) \/ Received(n) \/ Skipped(n) \/ Sent(n)
        \/ \E h \in Hooks : Take(h) \/ Answers(h) \/ Unload(h)
Spec == Init /\ [][Next]_frameVars

-----------------------------------------------------------------------------
Outcome == out.received \o out.sent
LateHooks(n) == frames[n].late

(* Frames come out in the order they came in, each once, and one that does    *)
(* not come out was dropped by a hook that answered in time (readFrame,       *)
(* writeFrame).                                                               *)
FramesInOrder ==
    /\ \A way \in {out.received, out.sent} : \A i, j \in DOMAIN way : i < j => way[i].frame < way[j].frame
    /\ \A n \in Numbers : frames[n].fate = "dropped" =>
         \E h \in Hooks : <<h, "drop">> \in frames[n].said /\ h \notin LateHooks(n)

(* Where no hook timed out, a frame has been through the chain in its order,  *)
(* and through all of it as long as every runtime was open (runFrameHooks).   *)
ChainInOrder ==
    \A i \in DOMAIN Outcome : LET r == Outcome[i] IN
        LateHooks(r.frame) = {} => r.data = SelectSeq([h \in Hooks |-> h],
                                         LAMBDA h : <<h, "replace">> \in frames[r.frame].said)

(* The end is told once, after a connection that was let in (Close).          *)
EndToldOnce == closing.hooks = IF conn = "closed" THEN 1 ELSE 0

(* A read loop gives up only after MaxDropped drops in a row.                 *)
GivesUpFiltered ==
    reader.failed => /\ reader.frame = NoFrame
                     /\ LET peer == {n \in Numbers : frames[n].from = "peer"} IN
                        Cardinality({n \in peer : frames[n].fate = "dropped" /\
                                     \A i \in DOMAIN out.received : out.received[i].frame < n}) >= MaxDropped

(* As wshook.go:24 says, a hook that is not waited for leaves the frame       *)
(* untouched.                                                                 *)
LateHooksChangeNothing ==
    \A i \in DOMAIN Outcome : LET r == Outcome[i] IN
        \A h \in LateHooks(r.frame) : ~Contains(r.data, h)
=============================================================================
