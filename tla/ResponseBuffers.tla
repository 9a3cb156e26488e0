--------------------------- MODULE ResponseBuffers ---------------------------
(* internal/plugin/hook.go and inject.go: one request through the HTML      *)
(* injector, the plugin hooks and the application.  Each wrapper is a       *)
(* response writer that buffers until it can no longer rewrite.  The        *)
(* application writes its header first, once, as gin does.                  *)
EXTENDS Integers, Sequences, SequencesExt

CONSTANTS MaxOps,       \* bound: writes and flushes of the application
          HookLimit,    \* maxHookBufferBytes, in chunks
          InjectLimit,  \* maxHTMLInjectBufferBytes, in chunks
          NoHeader      \* no status written yet

VARIABLES stage,      \* "start", "app", "hooks", "done"
          wraps,      \* which wrappers the request's snapshot installs
          hw, iw,     \* bufferedResponseWriter, htmlInjectWriter
          net,        \* what the server sent
          wrote,      \* what the application wrote
          rewritten,  \* a response hook's rewrite was applied
          flushed     \* the application flushed
rvars == <<stage, wraps, hw, iw, net, wrote, rewritten, flushed>>

Fragment == 10     \* the injected head and body fragments
Rewrite  == 20      \* a body replaced by a response hook
Statuses == {200, 404}
Types    == {"html", "other", "unknown"}

Buffer == [status |-> NoHeader, type |-> "unknown", body |-> <<>>, streaming |-> FALSE]
HeaderOp(s, t) == [k |-> "head", status |-> s, type |-> t, body |-> <<>>]
Data(b) == [k |-> "data", status |-> NoHeader, type |-> "unknown", body |-> b]
FlushOp == [k |-> "flush", status |-> NoHeader, type |-> "unknown", body |-> <<>>]
Forward(w) == <<HeaderOp(w.status, w.type), Data(w.body)>>

\* Faulty variant: the switch to passthrough sends the header and the new
\* chunk, and forgets what was buffered.
HookOpDropsBuffer(w, op) ==
    IF w.streaming THEN [w |-> w, out |-> <<op>>]
    ELSE CASE op.k = "head" -> [w |-> [w EXCEPT !.status = op.status, !.type = op.type], out |-> <<>>]
           [] op.k = "data" /\ Len(w.body) + Len(op.body) > HookLimit ->
                [w |-> [w EXCEPT !.streaming = TRUE], out |-> <<HeaderOp(w.status, w.type), op>>]
           [] op.k = "data" -> [w |-> [w EXCEPT !.body = @ \o op.body], out |-> <<>>]
           [] op.k = "flush" -> [w |-> [w EXCEPT !.streaming = TRUE], out |-> Forward(w) \o <<op>>]

\* bufferedResponseWriter: WriteHeader, Write and Flush.
HookOp(w, op) ==
    IF w.streaming THEN [w |-> w, out |-> <<op>>]
    ELSE CASE op.k = "head" -> [w |-> [w EXCEPT !.status = op.status, !.type = op.type], out |-> <<>>]
           [] op.k = "data" /\ Len(w.body) + Len(op.body) > HookLimit ->
                [w |-> [w EXCEPT !.streaming = TRUE], out |-> Forward(w) \o <<op>>]
           [] op.k = "data" -> [w |-> [w EXCEPT !.body = @ \o op.body], out |-> <<>>]
           [] op.k = "flush" -> [w |-> [w EXCEPT !.streaming = TRUE], out |-> Forward(w) \o <<op>>]

\* The type sniffed from the first bytes when the header has none.
Sniffed(w, b) == IF w.type # "unknown" \/ b = <<>> THEN w.type
                 ELSE IF b[1] = 1 THEN "html" ELSE "other"

\* htmlInjectWriter: only HTML is kept back, up to its limit.
Passthrough(w) == [w |-> [w EXCEPT !.streaming = TRUE], out |-> Forward(w)]
InjectOp(w, op) ==
    IF w.streaming THEN [w |-> w, out |-> IF op.k = "head" THEN <<>> ELSE <<op>>]
    ELSE CASE op.k = "head" ->
                LET v == [w EXCEPT !.status = op.status, !.type = op.type]
                IN IF op.type = "other" THEN Passthrough(v) ELSE [w |-> v, out |-> <<>>]
           [] op.k = "data" ->
                LET v == [w EXCEPT !.type = IF @ = "unknown" THEN Sniffed(w, op.body) ELSE @]
                    p == Passthrough(v)
                IN IF v.type = "other" \/ Len(v.body) + Len(op.body) > InjectLimit
                   THEN [p EXCEPT !.out = @ \o <<op>>]
                   ELSE [w |-> [v EXCEPT !.body = @ \o op.body], out |-> <<>>]
           [] op.k = "flush" -> [Passthrough(w) EXCEPT !.out = @ \o <<op>>]

\* The server: the first header counts, data without one means 200.
NetOp(n, op) ==
    CASE op.k = "head" -> [n EXCEPT !.status = IF @ = NoHeader THEN op.status ELSE @]
      [] op.k = "data" -> [status |-> IF n.status = NoHeader THEN 200 ELSE n.status, body |-> n.body \o op.body]
      [] op.k = "flush" -> n

\* Operations go down the chain of the wrappers that are installed.
ToNet(n, ops) == FoldLeft(NetOp, n, ops)
ToInject(s, ops) ==
    IF ~wraps.inject THEN [s EXCEPT !.net = ToNet(@, ops)]
    ELSE FoldLeft(LAMBDA t, op : LET r == InjectOp(t.iw, op)
                                 IN [t EXCEPT !.iw = r.w, !.net = ToNet(@, r.out)], s, ops)
ToHooks(op) ==
    LET s == [iw |-> iw, net |-> net]
        r == HookOp(hw, op)
        t == ToInject(s, IF wraps.response THEN r.out ELSE <<op>>)
    IN /\ hw' = IF wraps.response THEN r.w ELSE hw
       /\ iw' = t.iw /\ net' = t.net

Init == /\ stage = "start" /\ hw = Buffer /\ iw = Buffer
        /\ wraps \in [request : BOOLEAN, response : BOOLEAN, inject : BOOLEAN]
        /\ net = [status |-> NoHeader, body |-> <<>>]
        /\ wrote = [status |-> NoHeader, body |-> <<>>] /\ rewritten = FALSE /\ flushed = FALSE

\* A request hook that fails or times out is answered 500 by the wrapper,
\* otherwise the application writes its header.
Start == /\ stage = "start"
         /\ \/ /\ wraps.request
               /\ LET t == ToInject([iw |-> iw, net |-> net], <<HeaderOp(500, "other"), Data(<<0>>)>>)
                  IN iw' = t.iw /\ net' = t.net
               /\ wrote' = [status |-> 500, body |-> <<0>>] /\ stage' = "done" /\ UNCHANGED hw
            \/ \E s \in Statuses, t \in Types :
                  ToHooks(HeaderOp(s, t)) /\ wrote' = [wrote EXCEPT !.status = s] /\ stage' = "app"
         /\ UNCHANGED <<wraps, rewritten, flushed>>

\* Chunk 1 looks like HTML to the sniffer, chunk 2 does not.
Write(c) == /\ stage = "app" /\ Len(wrote.body) < MaxOps
            /\ ToHooks(Data(<<c>>)) /\ wrote' = [wrote EXCEPT !.body = Append(@, c)]
            /\ UNCHANGED <<stage, wraps, rewritten, flushed>>

Flush == /\ stage = "app"
         /\ ToHooks(FlushOp) /\ flushed' = TRUE
         /\ UNCHANGED <<stage, wraps, wrote, rewritten>>

Return == /\ stage = "app" /\ stage' = "hooks"
          /\ UNCHANGED <<wraps, hw, iw, net, wrote, rewritten, flushed>>

\* A response hook replaces status and body; apply refuses once streamed.
\* A hook that fails or times out changes nothing.
ResponseHook == /\ stage = "hooks" /\ wraps.response /\ ~hw.streaming
                /\ hw' = [hw EXCEPT !.body = <<Rewrite>>]
                /\ rewritten' = TRUE
                /\ UNCHANGED <<stage, wraps, iw, net, wrote, flushed>>

Injected(w) == IF w.type = "html" THEN [w EXCEPT !.body = <<Fragment>> \o @] ELSE w

\* flushTo of both writers.
Finish ==
    /\ stage = "hooks" /\ stage' = "done"
    /\ LET s == IF wraps.response /\ ~hw.streaming
                THEN ToInject([iw |-> iw, net |-> net], Forward(hw)) ELSE [iw |-> iw, net |-> net]
       IN /\ iw' = [s.iw EXCEPT !.streaming = TRUE]
          /\ net' = IF wraps.inject /\ ~s.iw.streaming THEN ToNet(s.net, Forward(Injected(s.iw))) ELSE s.net
    /\ UNCHANGED <<wraps, hw, wrote, rewritten, flushed>>

Next == \/ Start \/ Flush \/ Return \/ ResponseHook \/ Finish
        \/ \E c \in {1, 2} : Write(c)
Spec == Init /\ [][Next]_rvars

-----------------------------------------------------------------------------
(* Whatever wrappers are installed and whenever they give up buffering, the *)
(* client gets the application's status and its chunks once and in order,   *)
(* or a hook's replacement of them all; fragments are added at most once,   *)
(* and never to a response that was flushed.                                *)
ResponseIntact ==
    stage = "done" =>
        LET plain == SelectSeq(net.body, LAMBDA c : c # Fragment)
        IN /\ net.status = wrote.status
           /\ plain = IF rewritten THEN <<Rewrite>> ELSE wrote.body
           /\ Len(net.body) <= Len(plain) + 1
           /\ flushed => net.body = plain
=============================================================================
