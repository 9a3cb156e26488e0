----------------------------- MODULE RawSeries ------------------------------
(* pkg/metric/raw_points.go: the raw window of one series.  The newest       *)
(* minute is a sorted slice, the rest is byte-encoded in time order, labels  *)
(* are interned into ids that are renumbered when one falls out of use.      *)
(* Every operation below holds rawMu; writers also hold ingestMu, so the     *)
(* time they read never goes back.  Encoding a sample is lossless and is     *)
(* left out, the order the varint deltas rely on is not.                     *)
EXTENDS Integers, Sequences, SequencesExt, FiniteSetsExt

CONSTANTS Minute,      \* ticks per minute, directRawRetention too
          Retention,   \* rawMemoryRetention in ticks
          Batches,     \* the batches of points written
          MaxTime, MaxWrites   \* bounds

VARIABLES now, series, answer, found, writes
wvars == <<now, series, answer, found, writes>>

Times == 0..MaxTime
Empty == [labels |-> <<>>, direct |-> <<>>, packed |-> <<>>]  \* no series in Store.raw

Init == now = 0 /\ series = Empty /\ answer = {} /\ found = FALSE /\ writes = 0

DirectCutoff == now - Minute
RawCutoff == LET t == now - Retention IN t - (t % Minute)

Search(samples, t) == Min({i \in 1..(Len(samples) + 1) : i > Len(samples) \/ samples[i].at >= t})
Ordered(S) == SetToSortSeq(S, LAMBDA p, q : p.at < q.at)
DropBefore(samples, t) == SelectSeq(samples, LAMBDA p : p.at >= t)

AppendPacked(old, new) ==
    IF old # <<>> /\ new[1].at <= Last(old).at
    THEN Ordered(Range(new) \cup {p \in Range(old) : \A q \in Range(new) : q.at # p.at})
    ELSE old \o new
Compress(s, t) ==
    LET i == Search(s.direct, t) IN
    IF i = 1 THEN s
    ELSE [s EXCEPT !.packed = AppendPacked(@, SubSeq(s.direct, 1, i - 1)),
                   !.direct = SubSeq(@, i, Len(@))]

UsedIds(s) == {p.id : p \in Range(s.packed) \cup Range(s.direct)}
NewId(s, id) == Cardinality({j \in UsedIds(s) : j <= id})
Renumber(s, samples) == [i \in DOMAIN samples |-> [samples[i] EXCEPT !.id = NewId(s, @)]]
CompactLabels(s) ==
    IF Len(s.labels) <= 1 \/ UsedIds(s) = DOMAIN s.labels THEN s
    ELSE [labels |-> [n \in 1..Cardinality(UsedIds(s)) |->
                          s.labels[CHOOSE id \in UsedIds(s) : NewId(s, id) = n]],
          packed |-> Renumber(s, s.packed), direct |-> Renumber(s, s.direct)]

Prune(s, t) ==
    LET kept == [s EXCEPT !.packed = DropBefore(@, t), !.direct = SubSeq(@, Search(@, t), Len(@))]
    IN IF kept.packed = <<>> /\ kept.direct = <<>> THEN Empty
       ELSE IF kept = s THEN s ELSE CompactLabels(kept)

Intern(s, label) == IF label \in Range(s.labels) THEN s ELSE [s EXCEPT !.labels = Append(@, label)]
IdOf(s, label) == CHOOSE i \in DOMAIN s.labels : s.labels[i] = label

\* Faulty variant: the older sample of that moment stays.
ReplaceCompressedKeepingBoth(packed, sample) == Ordered(Range(packed) \cup {sample})
\* A sample older than the newest minute is merged into the packed ones.
ReplaceCompressed(packed, sample) ==
    Ordered({p \in Range(packed) : p.at # sample.at} \cup {sample})
Place(direct, sample) ==
    LET i == Search(direct, sample.at) IN
    IF i <= Len(direct) /\ direct[i].at = sample.at THEN [direct EXCEPT ![i] = sample]
    ELSE InsertAt(direct, i, sample)
Insert(s, p) ==
    LET t == Intern(s, p.label)
        sample == [at |-> p.at, value |-> p.value, id |-> IdOf(t, p.label)]
    IN IF p.at < RawCutoff THEN s
       ELSE IF p.at < DirectCutoff THEN [t EXCEPT !.packed = ReplaceCompressed(@, sample)]
       ELSE [t EXCEPT !.direct = Place(@, sample)]

\* Labels are renumbered after the batch, when a replacement changed one.
Relabelled(s, batch) ==
    \E p \in Range(batch) : \E q \in Range(s.packed) \cup Range(s.direct) :
        q.at = p.at /\ s.labels[q.id] # p.label
Repeated(batch) == Len(batch) = 2 /\ batch[1].at = batch[2].at /\ batch[1].label # batch[2].label
WriteRawPoints(batch) ==
    LET trimmed == Prune(Compress(series, DirectCutoff), RawCutoff)
        fresh == SelectSeq(batch, LAMBDA p : p.at >= RawCutoff)
        written == FoldLeft(Insert, trimmed, fresh)
    IN /\ writes < MaxWrites /\ writes' = writes + 1
       /\ series' = IF Relabelled(trimmed, fresh) \/ Repeated(fresh) THEN CompactLabels(written) ELSE written
       /\ answer' = {} /\ found' = FALSE /\ UNCHANGED now

TrimRawWindow == /\ series' = Prune(Compress(series, DirectCutoff), RawCutoff)
                 /\ answer' = {} /\ found' = FALSE /\ UNCHANGED <<now, writes>>
DeleteRawPoints == series' = Empty /\ answer' = {} /\ found' = FALSE /\ UNCHANGED <<now, writes>>
DeleteRawBefore(t) == /\ series' = Prune(Compress(series, t), t)
                      /\ answer' = {} /\ found' = FALSE /\ UNCHANGED <<now, writes>>

\* A query scans the packed samples when their range overlaps and takes the
\* others between two searches; the end is included.
Overlaps(start, end) == /\ series.packed # <<>>
                        /\ start <= Last(series.packed).at /\ end >= series.packed[1].at
Seen(p) == [at |-> p.at, value |-> p.value, label |-> series.labels[p.id]]
Query(start, end) ==
    LET from == Max({start, now - Retention})
        packed == IF Overlaps(from, end) THEN SelectSeq(series.packed, LAMBDA p : p.at \in from..end) ELSE <<>>
        direct == SubSeq(series.direct, Search(series.direct, from), Search(series.direct, end + 1) - 1)
    IN /\ answer' = {Seen(p) : p \in Range(packed \o direct)}
       /\ found' = \/ packed # <<>>      \* rawEntityIDs
                   \/ LET i == Search(series.direct, from)
                      IN i <= Len(series.direct) /\ series.direct[i].at <= end
       /\ UNCHANGED <<now, series, writes>>

Tick == /\ now < MaxTime /\ now' = now + 1
        /\ answer' = {} /\ found' = FALSE /\ UNCHANGED <<series, writes>>

Next == \/ \E batch \in Batches : WriteRawPoints(batch)
        \/ TrimRawWindow \/ DeleteRawPoints
        \/ \E t \in Times : DeleteRawBefore(t)
        \/ \E start, end \in Times : Query(start, end)
        \/ Tick

Spec == Init /\ [][Next]_wvars

-----------------------------------------------------------------------------
Decoded == {Seen(p) : p \in Range(series.packed) \cup Range(series.direct)}
Window == INSTANCE RawWindow WITH window <- Decoded

(* Compression, late replacements, renumbered labels and trimming never show:*)
(* the series holds for every timestamp the point written last, and a query  *)
(* and the entity listing find exactly the points of the window they ask for.*)
WindowRefined == Window!Spec
=============================================================================
