---------------------------- MODULE ChildStreams ----------------------------
(* The standard streams of a child process (pkg/jsruntime/child_process):     *)
(* spawn hands its output to the script chunk by chunk through the loop while *)
(* another goroutine waits for the process and closes the pipes; exec keeps   *)
(* at most a number of chunks and calls back when it is over; writes to the   *)
(* child's input go through a queue.  One output stream; chunks are numbered. *)
(* The process, the pipes and the loop are external.                          *)
EXTENDS Integers, Sequences, FiniteSets, SequencesExt, FiniteSetsExt

CONSTANTS Limits,               \* maxBuffer of exec, in chunks
          MaxOutput, MaxInput   \* chunks the process and the script write (bounds)

VARIABLES child,    \* form, limit, timeout (an option is set), alive, waited
          pipe,     \* output that nobody has read
          wrote,    \* chunks of output the process has written
          reader,   \* pipeChildOutput's goroutine: at, its chunk
          kept,     \* childOutputBuffer: data, over
          jobs,     \* queue of the event loop
          seen,     \* what the script got: chunks, end, exit, failed
          input,    \* asked: what the script did; queue; fed: what arrived; shut
          loop      \* resources open, loop running or ended
childVars == <<child, pipe, wrote, reader, kept, jobs, seen, input, loop>>

Chunks(n) == [i \in 1..n |-> i]
EndOfInput == 0

Init == /\ child \in [form : {"spawn", "exec"}, limit : Limits, timeout : BOOLEAN, alive : {TRUE}, waited : {FALSE}]
        /\ pipe = <<>> /\ wrote = 0 /\ jobs = <<>> /\ loop = "open"
        /\ reader = [at |-> "read", chunk |-> 0]
        /\ kept = [data |-> <<>>, over |-> FALSE]
        /\ seen = [chunks |-> <<>>, end |-> FALSE, exit |-> FALSE, failed |-> FALSE]
        /\ input = [asked |-> <<>>, queue |-> <<>>, fed |-> <<>>, shut |-> FALSE]

Spawned == child.form = "spawn"

\* The process writes; exec copies at once, and a limit that is exceeded
\* cancels the context, which ends the process only when there is a timeout.
Kept(n) == IF kept.over THEN kept
           ELSE IF Len(kept.data) < child.limit THEN [kept EXCEPT !.data = Append(@, n)]
           ELSE [kept EXCEPT !.over = TRUE]
Writes == /\ child.alive /\ wrote < MaxOutput /\ wrote' = wrote + 1
          /\ IF Spawned THEN pipe' = Append(pipe, wrote + 1) /\ UNCHANGED <<kept, child>>
             ELSE /\ kept' = Kept(wrote + 1)
                  /\ \/ UNCHANGED child
                     \/ kept'.over /\ child.timeout /\ child' = [child EXCEPT !.alive = FALSE]
                  /\ UNCHANGED pipe
          /\ UNCHANGED <<reader, jobs, seen, input, loop>>
Dies == /\ child.alive /\ child' = [child EXCEPT !.alive = FALSE]
        /\ UNCHANGED <<pipe, wrote, reader, kept, jobs, seen, input, loop>>

\* RunOnLoop: an ended loop takes no job; RunJob: a job of a closed runtime
\* does nothing, but the reader that waits for it goes on.
Queued(job) == IF loop = "ended" THEN jobs ELSE Append(jobs, job)
RunNext ==
    /\ jobs # <<>> /\ loop # "ended" /\ jobs' = Tail(jobs)
    /\ LET job == Head(jobs) IN
       /\ seen' = IF loop # "open" THEN seen
                  ELSE IF job = <<"end">> THEN [seen EXCEPT !.end = TRUE]
                  ELSE IF job = <<"exit">> THEN [seen EXCEPT !.exit = TRUE, !.failed = kept.over,
                                                             !.chunks = IF Spawned THEN @ ELSE kept.data]
                  ELSE [seen EXCEPT !.chunks = Append(@, job[2])]
       /\ reader' = IF job[1] = "chunk" THEN [at |-> "read", chunk |-> 0] ELSE reader
    /\ UNCHANGED <<child, pipe, wrote, kept, input, loop>>

\* The next chunk, or what is left of a process that is gone or waited for.
ReadChunk ==
    /\ Spawned /\ reader.at = "read" /\ pipe # <<>>
    /\ pipe' = Tail(pipe) /\ jobs' = Queued(<<"chunk", Head(pipe)>>)
    /\ reader' = [at |-> IF loop = "ended" THEN "over" ELSE "wait", chunk |-> Head(pipe)]
    /\ UNCHANGED <<child, wrote, kept, seen, input, loop>>
ReadEnd ==
    /\ Spawned /\ reader.at = "read" /\ pipe = <<>> /\ ~child.alive
    /\ jobs' = Queued(<<"end">>) /\ reader' = [at |-> "over", chunk |-> 0]
    /\ UNCHANGED <<child, pipe, wrote, kept, seen, input, loop>>

\* cmd.Wait: the end of a spawned process closes the pipes, read or not.
Wait == /\ ~child.alive /\ ~child.waited
        /\ child' = [child EXCEPT !.waited = TRUE]
        /\ pipe' = <<>> /\ jobs' = Queued(<<"exit">>)
        /\ UNCHANGED <<wrote, reader, kept, seen, input, loop>>

\* stdin: the script's stream hands over one write at a time, and the end last.
Submit == /\ Spawned /\ loop = "open" /\ input.queue = <<>> /\ ~Contains(input.asked, EndOfInput)
          /\ Len(input.asked) < MaxInput
          /\ \E x \in {Len(input.asked) + 1, EndOfInput} :
               input' = [input EXCEPT !.asked = Append(@, x), !.queue = Append(@, x)]
          /\ UNCHANGED <<child, pipe, wrote, reader, kept, jobs, seen, loop>>
Feed == /\ input.queue # <<>>
        /\ LET x == Head(input.queue) IN
           input' = [input EXCEPT !.queue = Tail(@), !.shut = @ \/ x = EndOfInput,
                                  !.fed = IF x # EndOfInput /\ ~input.shut /\ child.alive THEN Append(@, x) ELSE @]
        /\ UNCHANGED <<child, pipe, wrote, reader, kept, jobs, seen, loop>>
DestroyInput == /\ Spawned /\ loop = "open" /\ ~input.shut
                /\ input' = [input EXCEPT !.shut = TRUE]
                /\ UNCHANGED <<child, pipe, wrote, reader, kept, jobs, seen, loop>>

\* The runtime closes: the process is killed, and in the end the loop stops
\* with the jobs that are left in it.
Close == /\ loop = "open" /\ loop' = "closed" /\ child' = [child EXCEPT !.alive = FALSE]
         /\ UNCHANGED <<pipe, wrote, reader, kept, jobs, seen, input>>
Terminate == /\ loop = "closed" /\ loop' = "ended"
             /\ UNCHANGED <<child, pipe, wrote, reader, kept, jobs, seen, input>>

Next == \/ Writes \/ Dies \/ RunNext \/ ReadChunk \/ ReadEnd \/ Wait \/ Submit \/ Feed \/ DestroyInput
        \/ Close \/ Terminate
Spec == Init /\ [][Next]_childVars

-----------------------------------------------------------------------------
(* A script gets the output from its start and in order, one chunk per job,   *)
(* nothing after its end, and its input arrives as it was written             *)
(* (pipeChildOutput, childStreams).                                           *)
StreamsInOrder ==
    /\ IsPrefix(seen.chunks, Chunks(wrote))
    /\ seen.end => \A i \in DOMAIN jobs : jobs[i][1] # "chunk"
    /\ Cardinality({i \in DOMAIN jobs : jobs[i][1] = "chunk"}) <= 1
    /\ IsPrefix(input.fed, SelectSeq(input.asked, LAMBDA x : x # EndOfInput))

(* exec calls back with the output up to its limit, and with an error exactly *)
(* when there was more (childOutputBuffer.Write).                             *)
ExecTellsTheLimit ==
    ~Spawned /\ seen.exit =>
        /\ seen.chunks = Chunks(Min({wrote, child.limit}))
        /\ seen.failed = (wrote > child.limit)
=============================================================================
