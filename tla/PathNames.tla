------------------------------ MODULE PathNames ------------------------------
(* The path module of scripts (pkg/jsruntime/path), which works on names      *)
(* alone, in its posix and its win32 form.  A string is a sequence of tokens: *)
(* separators, names, dots and, in front, a drive.  Case, extensions and      *)
(* namespaced paths are left out.                                             *)
EXTENDS Integers, Sequences, FiniteSets, SequencesExt, FiniteSetsExt

CONSTANTS Names, Drives,     \* tokens besides ".", ".." and the separator
          Directories,       \* working directories: [vol, dir]
          MaxTokens          \* tokens of the arguments (bound)

VARIABLES windows,   \* the form that is called
          cwd,       \* where the script is: volume and names below its root
          args       \* the strings it passes
pathVars == <<windows, cwd, args>>

Sep == "/"
Init == windows \in BOOLEAN /\ cwd \in Directories /\ args = <<<<>>>>

\* Two names side by side would be one; a drive comes first.
MayFollow(s, t) == IF t \in Drives THEN windows /\ s = <<>>
                   ELSE IF s = <<>> THEN TRUE ELSE t = Sep \/ Last(s) \in Drives \cup {Sep}
Token(t) == /\ MayFollow(Last(args), t) /\ Len(FlattenSeq(args)) < MaxTokens
            /\ args' = Append(Front(args), Append(Last(args), t)) /\ UNCHANGED <<windows, cwd>>
NextArg == Len(args) < 2 /\ args' = Append(args, <<>>) /\ UNCHANGED <<windows, cwd>>
Next == NextArg \/ \E t \in {Sep, ".", ".."} \cup Names \cup Drives : Token(t)
Spec == Init /\ [][Next]_pathVars

-----------------------------------------------------------------------------
(* Pieces of strings *)
TrimLeft(s) == LET kept == {i \in DOMAIN s : s[i] # Sep}
               IN  IF kept = {} THEN <<>> ELSE SubSeq(s, Min(kept), Len(s))
TrimRight(s) == Reverse(TrimLeft(Reverse(s)))
Fields(s) == SelectSeq(s, LAMBDA t : t # Sep)
Joined(parts) == IF parts = <<>> THEN <<>>
                 ELSE FoldLeft(LAMBDA s, t : s \o <<Sep, t>>, <<Head(parts)>>, Tail(parts))
Ends(s) == IF s = <<>> THEN FALSE ELSE Last(s) = Sep
Starts(s) == IF s = <<>> THEN FALSE ELSE Head(s) = Sep
Slash(root) == IF root THEN <<Sep>> ELSE <<>>
LastSep(s) == LET seps == {i \in DOMAIN s : s[i] = Sep} IN IF seps = {} THEN 0 ELSE Max(seps)

\* cleanWinParts; path.Clean does the same to the parts of a posix name.
Cleaned(parts, absolute) ==
    LET Climbs(done) == IF done = <<>> THEN TRUE ELSE Last(done) = ".."
        Add(done, t) == CASE t = "." -> done
                          [] t # "." /\ t # ".." -> Append(done, t)
                          [] t = ".." -> IF ~Climbs(done) THEN Front(done)
                                         ELSE IF absolute THEN done ELSE Append(done, t)
    IN  FoldLeft(Add, <<>>, parts)
Clean(s) == LET result == Slash(Starts(s)) \o Joined(Cleaned(Fields(s), Starts(s)))
            IN  IF result = <<>> THEN <<".">> ELSE result

\* splitWinPath: a drive, or a share when two separators come first.
IsShare(s) == Len(s) >= 2 /\ s[1] = Sep /\ s[2] = Sep /\ Len(Fields(s)) >= 2
AfterShare(s) == LET names == {i \in DOMAIN s : s[i] # Sep}
                 IN  SubSeq(s, Min(names \ {Min(names)}) + 1, Len(s))
Split(s) ==
    IF windows /\ s # <<>> /\ Head(s) \in Drives
      THEN [vol |-> <<Head(s)>>, root |-> Starts(Tail(s)), rest |-> TrimLeft(Tail(s))]
    ELSE IF windows /\ IsShare(s)
      THEN [vol |-> <<Sep, Sep, Fields(s)[1], Sep, Fields(s)[2]>>, root |-> TRUE, rest |-> TrimLeft(AfterShare(s))]
    ELSE [vol |-> <<>>, root |-> Starts(s), rest |-> TrimLeft(s)]
IsAbsolute(s) == Split(s).root

-----------------------------------------------------------------------------
(* The functions of the module *)

NormalizePosix(s) ==
    LET result == Clean(s) IN IF Ends(s) /\ result # <<Sep>> THEN Append(result, Sep) ELSE result
NormalizeWindows(s) ==
    LET p == Split(s)
        parts == Cleaned(Fields(p.rest), p.root)
        result == p.vol \o Slash(p.root) \o Joined(parts)
    IN  IF parts = <<>> /\ ~p.root THEN Append(p.vol, ".")
        ELSE IF Ends(s) /\ parts # <<>> THEN Append(result, Sep) ELSE result
Normalize(s) == IF s = <<>> THEN <<".">> ELSE IF windows THEN NormalizeWindows(s) ELSE NormalizePosix(s)

\* A drive only comes in the first part.
Join(parts) ==
    LET given == SelectSeq(parts, LAMBDA s : s # <<>>)
    IN  IF given = <<>> THEN <<".">>
        ELSE Normalize(FoldLeft(LAMBDA s, t : s \o <<Sep>> \o t, Head(given), Tail(given)))

Directory == (IF windows THEN cwd.vol ELSE <<>>) \o <<Sep>> \o Joined(cwd.dir)

ResolvePosix(parts) ==
    LET all == <<Directory>> \o SelectSeq(parts, LAMBDA s : s # <<>>)
        first == Max({i \in DOMAIN all : Starts(all[i])})
    IN  Clean(FoldLeft(LAMBDA s, t : s \o <<Sep>> \o t, all[first], SubSeq(all, first + 1, Len(all))))

\* From the last part to the first: a part of another volume is skipped.
Before(part, r) ==
    LET p == Split(part) IN
    IF part = <<>> \/ (r.abs /\ r.vol # <<>>) \/ (p.vol # <<>> /\ r.vol # <<>> /\ p.vol # r.vol) THEN r
    ELSE [vol |-> IF p.vol # <<>> THEN p.vol ELSE r.vol,
          tail |-> IF r.abs \/ p.rest = <<>> THEN r.tail ELSE p.rest \o <<Sep>> \o r.tail,
          abs |-> r.abs \/ p.root]
ResolveWindows(parts) ==
    LET r == FoldRight(Before, parts, [vol |-> <<>>, tail |-> <<>>, abs |-> FALSE])
        base == IF r.vol = <<>> \/ r.vol = cwd.vol THEN Directory ELSE Append(r.vol, Sep)
        all == Before(base, r)
    IN  all.vol \o <<Sep>> \o Joined(Cleaned(Fields(all.tail), all.abs))
Resolve(parts) == IF windows THEN ResolveWindows(parts) ELSE ResolvePosix(parts)

\* The names from one resolved place to another of its volume.
Way(A, B) ==
    LET common == Max({n \in 0..Min({Len(A), Len(B)}) : SubSeq(A, 1, n) = SubSeq(B, 1, n)})
    IN  Joined([i \in 1..Len(A) - common |-> ".."] \o SubSeq(B, common + 1, Len(B)))
Between(from, to) == IF Split(from).vol # Split(to).vol THEN to
                     ELSE Way(Fields(Split(from).rest), Fields(Split(to).rest))
Relative(from, to) == Between(Resolve(<<from>>), Resolve(<<to>>))

Basename(s) == LET names == Fields(IF s # <<>> /\ Head(s) \in Drives THEN Tail(s) ELSE s)
               IN  IF names = <<>> THEN <<>> ELSE <<Last(names)>>

DirnamePosix(s) == Clean(SubSeq(s, 1, LastSep(s)))
DirnameWindows(s) ==
    LET p == Split(s)
        trimmed == TrimRight(s)
        above == TrimRight(SubSeq(s, 1, LastSep(trimmed)))
    IN  IF LastSep(trimmed) <= Len(p.vol) \/ above = p.vol
          THEN IF p.vol = <<>> /\ ~p.root THEN <<".">> ELSE p.vol \o Slash(p.root)
        ELSE above
Dirname(s) == IF windows THEN DirnameWindows(s) ELSE DirnamePosix(s)

\* The root, what is above the last name, and that name.
Parse(s) ==
    LET p == Split(s)
        root == p.vol \o Slash(p.root)
        rest == TrimRight(IF windows THEN p.rest ELSE SubSeq(s, Len(root) + 1, Len(s)))
        share == windows /\ Starts(p.vol) /\ p.rest = <<>>
    IN  IF share THEN [dir |-> p.vol \o Slash(Ends(s)), base |-> <<>>]
        ELSE [dir |-> root \o SubSeq(rest, 1, LastSep(rest) - 1), base |-> SubSeq(rest, LastSep(rest) + 1, Len(rest))]
Format(f) == IF f.dir = <<>> THEN f.base ELSE Join(<<f.dir, f.base>>)

-----------------------------------------------------------------------------
(* What the strings mean: a walk, name by name, from a place.  A drive that   *)
(* is not that of the place is entered at its root.                           *)
Enter(dir, t) == CASE t = "." -> dir
                   [] t = ".." -> IF dir = <<>> THEN dir ELSE Front(dir)
                   [] OTHER -> Append(dir, t)
Walk(at, s) ==
    LET p == Split(s)
        elsewhere == p.vol # <<>> /\ p.vol # at.vol
    IN  [vol |-> IF p.vol = <<>> THEN at.vol ELSE p.vol,
         dir |-> FoldLeft(Enter, IF p.root \/ elsewhere THEN <<>> ELSE at.dir, Fields(p.rest))]
Here == [vol |-> IF windows THEN cwd.vol ELSE <<>>, dir |-> cwd.dir]
Named(at) == at.vol \o <<Sep>> \o Joined(at.dir)
Arg == Last(args)
Both == Len(args) = 2

(* resolve goes where a walk through the arguments goes that belong to the    *)
(* volume named last, from the working directory if it is of that volume.     *)
ResolveWalks ==
    LET vols == SelectSeq([i \in DOMAIN args |-> Split(args[i]).vol], LAMBDA v : v # <<>>)
        vol == IF vols = <<>> THEN Here.vol ELSE Last(vols)
        mine == SelectSeq(args, LAMBDA s : Split(s).vol \in {<<>>, vol})
        start == IF vol = Here.vol THEN Here ELSE [vol |-> vol, dir |-> <<>>]
    IN  Resolve(args) = Named(FoldLeft(Walk, start, mine))

(* normalize changes neither the place nor itself, and a name is absolute     *)
(* when it leads to one place from everywhere on a volume.                    *)
NormalizeKeeps ==
    LET On(dir) == Walk([vol |-> Walk(Here, Arg).vol, dir |-> dir], Arg) IN
    /\ Walk(Here, Normalize(Arg)) = Walk(Here, Arg)
    /\ Normalize(Normalize(Arg)) = Normalize(Arg)
    /\ IsAbsolute(Normalize(Arg)) = IsAbsolute(Arg)
    /\ IsAbsolute(Arg) <=> On(<<>>) = On([i \in 1..MaxTokens |-> "deep"])

(* join walks on from where the first part leads, and never climbs by an      *)
(* absolute second part.  On Windows a lone drive gets a root, and separators *)
(* before two names make a share: these two are left out.                     *)
JoinWalks ==
    LET p == Split(Head(args))
        lone == \E d \in Drives : Head(args) = <<d>>
        fits == ~windows \/ (Split(Arg).vol = <<>> /\ ~lone /\ p.vol = Split(Join(args)).vol)
        second == IF Head(args) = <<>> THEN Arg ELSE TrimLeft(Arg)
    IN  Both /\ fits => Walk(Here, Join(args)) = Walk(Walk(Here, Head(args)), second)

(* relative leads from one place to the other.                                *)
RelativeLeads ==
    Both /\ (Walk(Here, args[2]).vol # <<>> \/ Walk(Here, args[1]).vol = <<>>)
    => Walk(Walk(Here, args[1]), Relative(args[1], args[2])) = Walk(Here, args[2])

(* dirname and basename, and parse and format, lead together to the place of  *)
(* the name: of a posix name without a separator at its end, of a share with  *)
(* a name behind it, of a drive with a root.                                  *)
PartsLead ==
    LET p == Split(Arg) IN
    /\ (IF windows THEN ~(Starts(p.vol) /\ p.rest = <<>>) ELSE ~Ends(Arg))
       => Walk(Walk(Here, Dirname(Arg)), Basename(Arg)) = Walk(Here, Arg)
    /\ ~(p.vol # <<>> /\ ~p.root) => Walk(Here, Format(Parse(Arg))) = Walk(Here, Arg)
=============================================================================
