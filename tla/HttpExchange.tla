----------------------------- MODULE HttpExchange ----------------------------
(* Requests to an HTTP server of a script (pkg/jsruntime/http): the handler   *)
(* goroutine queues the request for the event loop and waits for the end of   *)
(* the answer, its client or a timeout, while the script writes in turns of   *)
(* its own.  Chunks are numbered; -1 is the text of the timeout.  The life of *)
(* the server itself is in JsRuntime.                                         *)
EXTENDS Integers, Sequences, FiniteSets, SequencesExt

CONSTANTS Requests, Codes, MaxChunks   \* the last bounds the writes of an answer

VARIABLES pc,       \* per request: where its handler is
          state,    \* nodeHTTPResponse: code, body, ended
          script,   \* what the script does: phase, its code, chunks it wrote
          sent,     \* what the client got
          open      \* the runtime is open
hvars == <<pc, state, script, sent, open>>

None == [code |-> 0, body |-> <<>>]
Message == -1
OK == 200
Init == /\ pc = [r \in Requests |-> "new"] /\ open = TRUE
        /\ state = [r \in Requests |-> [code |-> OK, body |-> <<>>, ended |-> FALSE]]
        /\ script = [r \in Requests |-> [phase |-> "none", code |-> OK, wrote |-> 0]]
        /\ sent = [r \in Requests |-> None]

\* The body is read before the script hears of the request.
TooLarge(r) == /\ pc[r] = "new" /\ pc' = [pc EXCEPT ![r] = "over"]
               /\ sent' = [sent EXCEPT ![r] = [code |-> 413, body |-> <<>>]]
               /\ UNCHANGED <<state, script, open>>
Queue(r) == /\ pc[r] = "new"
            /\ IF open THEN pc' = [pc EXCEPT ![r] = "waiting"] /\ UNCHANGED sent
                       ELSE /\ pc' = [pc EXCEPT ![r] = "over"]
                            /\ sent' = [sent EXCEPT ![r] = [code |-> 503, body |-> <<>>]]
            /\ UNCHANGED <<state, script, open>>

\* finish: the first end counts.
Finish(r, code, text) ==
    IF state[r].ended THEN state
    ELSE [state EXCEPT ![r] = [code |-> IF code = 0 THEN @.code ELSE code, body |-> @.body \o text, ended |-> TRUE]]

\* The listener of "request" runs in a turn of the loop; it may throw after
\* some of its writes, which ends the answer.
Turn(r, phase) == open /\ script[r].phase = phase
Listener(r) == /\ pc[r] # "new" /\ Turn(r, "none")
               /\ \E code \in Codes :
                    script' = [script EXCEPT ![r] = [phase |-> "writing", code |-> code, wrote |-> 0]]
               /\ UNCHANGED <<pc, state, sent, open>>
Throws(r) == /\ Turn(r, "writing")
             /\ state' = Finish(r, 500, <<>>)
             /\ script' = [script EXCEPT ![r].phase = "thrown"]
             /\ UNCHANGED <<pc, sent, open>>
\* The hook writes whether or not the answer has ended.
Write(r) == /\ Turn(r, "writing") /\ script[r].wrote < MaxChunks
            /\ script' = [script EXCEPT ![r].wrote = @ + 1]
            /\ state' = [state EXCEPT ![r].body = Append(@, script[r].wrote + 1)]
            /\ UNCHANGED <<pc, sent, open>>
\* end(): the status is set even when the answer has ended.
End(r) == /\ Turn(r, "writing")
          /\ state' = [state EXCEPT ![r].code = script[r].code, ![r].ended = TRUE]
          /\ script' = [script EXCEPT ![r].phase = "ended"]
          /\ UNCHANGED <<pc, sent, open>>
Destroy(r) == /\ Turn(r, "writing")
              /\ state' = Finish(r, 0, <<>>)
              /\ script' = [script EXCEPT ![r].phase = "destroyed"]
              /\ UNCHANGED <<pc, sent, open>>

\* The handler: whichever of the three comes first, any of those that are there.
SeesEnd(r) == /\ pc[r] = "waiting" /\ state[r].ended
              /\ pc' = [pc EXCEPT ![r] = "copy"] /\ UNCHANGED <<state, script, sent, open>>
ClientLeaves(r) == /\ pc[r] = "waiting" /\ pc' = [pc EXCEPT ![r] = "over"]
                   /\ UNCHANGED <<state, script, sent, open>>
TimesOut(r) == /\ pc[r] = "waiting" /\ pc' = [pc EXCEPT ![r] = "copy"]
               /\ state' = Finish(r, 504, <<Message>>)
               /\ UNCHANGED <<script, sent, open>>
Copy(r) == /\ pc[r] = "copy" /\ pc' = [pc EXCEPT ![r] = "over"]
           /\ sent' = [sent EXCEPT ![r] = [code |-> state[r].code, body |-> state[r].body]]
           /\ UNCHANGED <<state, script, open>>

Close == open /\ open' = FALSE /\ UNCHANGED <<pc, state, script, sent>>

Next == \/ \E r \in Requests : \/ TooLarge(r) \/ Queue(r) \/ Listener(r) \/ Throws(r) \/ Write(r) \/ End(r)
                               \/ Destroy(r) \/ SeesEnd(r) \/ ClientLeaves(r) \/ TimesOut(r) \/ Copy(r)
        \/ Close
Spec == Init /\ [][Next]_hvars

-----------------------------------------------------------------------------
Written(r) == SelectSeq(sent[r].body, LAMBDA x : x # Message)
TimedOut(r) == Contains(sent[r].body, Message)

(* A client gets the chunks of its answer in order and each once, and all of  *)
(* them with the script's own status unless the script gave up, threw or was  *)
(* too slow, which the status or the text shows (newHTTPServer, finish).      *)
AnswerIsWhole ==
    \A r \in Requests : sent[r] # None =>
        /\ Written(r) = [i \in 1..Len(Written(r)) |-> i]
        /\ sent[r].code \in {413, 503} => sent[r].body = <<>>
        /\ sent[r].code = 504 => TimedOut(r)
        /\ sent[r].code \notin {413, 500, 503} /\ ~TimedOut(r) /\ script[r].phase # "destroyed" =>
             /\ Len(Written(r)) = script[r].wrote /\ sent[r].code = script[r].code
             /\ script[r].phase = "ended"
=============================================================================
