---------------------------- MODULE ConfinedFiles ----------------------------
(* The files of a script (pkg/jsruntime/fs): names are resolved against the   *)
(* working directory and checked, then the operation runs through the handle  *)
(* of a confined root.  Asynchronous calls run in goroutines of their own, so *)
(* directories and links may change between the check and the operation.      *)
(* Data of files, modes and times are left out; descriptors are in JsRuntime. *)
(* The system's paths, os.Root and the calls behind it are external.          *)
EXTENDS Integers, Sequences, FiniteSets, SequencesExt, FiniteSetsExt

CONSTANTS Base, Extras,   \* BaseDir and the other roots, as paths
          Trees,          \* the directories a script may find at its start
          Calls,          \* calls it makes: [op, sync, names], of names [root, up, down]
          Slots, MaxCalls \* calls at one time, calls (bounds)

VARIABLES tree,    \* path -> [kind, up, down]: what the machine stores there
          cwd, closed,
          calls,   \* per slot: the call in it
          acted,   \* the last operation: [op, asked, places] it read or changed
          made     \* number of calls
fvars == <<tree, cwd, closed, calls, acted, made>>

Idle == [op |-> "idle", sync |-> FALSE, names |-> <<>>, dir |-> <<>>, at |-> <<>>, asked |-> <<>>]
Nothing == [op |-> "none", asked |-> <<>>, places |-> {}]
Missing == <<"missing">>
Refused == <<"refused">>
Roots == {Base} \cup Extras
DirEntry == [kind |-> "dir", up |-> 0, down |-> <<>>]
FileEntry == [kind |-> "file", up |-> 0, down |-> <<>>]

Exists(p) == p = <<>> \/ p \in DOMAIN tree
Kind(p) == IF p = <<>> THEN "dir" ELSE tree[p].kind
Parent(p) == IF p = <<>> THEN <<>> ELSE Front(p)
Above(p, n) == SubSeq(p, 1, Max({0, Len(p) - n}))
Below(root, p) == SubSeq(p, Len(root) + 1, Len(p))
Subtree(p) == {q \in DOMAIN tree : IsPrefix(p, q)}

\* filepathutil.WithinBase, withinAnyRoot
Within(p) == \E root \in Roots : IsPrefix(root, p)

-----------------------------------------------------------------------------
(* The machine: where a path leads.  Links are followed, the last one only if *)
(* asked to; os.Root refuses a link that leaves its root.  The last name may  *)
(* be missing.                                                                *)
RECURSIVE Lead(_, _, _, _, _)
Lead(root, done, rest, follow, fuel) ==
    LET next == Append(done, rest[1])
    IN  IF rest = <<>> THEN done
        ELSE IF ~Exists(next) THEN IF Len(rest) = 1 THEN next ELSE Missing
        ELSE IF Kind(next) = "link" /\ (Len(rest) > 1 \/ follow) THEN
            IF fuel = 0 \/ (root # <<>> /\ Len(done) - tree[next].up < Len(root)) THEN Refused
            ELSE Lead(root, Above(done, tree[next].up), tree[next].down \o Tail(rest), follow, fuel - 1)
        ELSE IF Kind(next) # "dir" /\ Len(rest) > 1 THEN Refused
        ELSE Lead(root, next, Tail(rest), follow, fuel)

EvalSymlinks(p) ==
    LET q == Lead(<<>>, <<>>, p, TRUE, 3)
    IN  IF q \in {Missing, Refused} THEN q ELSE IF Exists(q) THEN q ELSE Missing

-----------------------------------------------------------------------------
(* resolveNodePathAt *)

\* Absolute, or joined to the directory of the call.
Joined(name, dir) ==
    IF name.root # <<>> THEN name.root \o name.down ELSE Above(dir, name.up) \o name.down

Resolve(p, missing, follow) ==
    LET q == IF follow THEN p ELSE Parent(p)
        actual == EvalSymlinks(q)
        known == {n \in 0..Len(q)-1 : EvalSymlinks(SubSeq(q, 1, n)) # Missing}
        ancestor == EvalSymlinks(SubSeq(q, 1, Max(known)))
    IN  IF ~Within(p) THEN Refused
        ELSE IF ~follow /\ p \in Roots THEN p
        ELSE IF actual = Refused THEN Refused
        ELSE IF actual # Missing THEN IF ~Within(actual) THEN Refused ELSE IF follow THEN actual ELSE p
        ELSE IF missing /\ ancestor # Refused /\ Within(ancestor) THEN p ELSE Refused

\* Per operation and argument: may it be missing, is its last link followed.
Arguments ==
    [read     |-> <<<<FALSE, TRUE>>>>,     \* readFile, stat, readdir, access, truncate, chmod, utimes
     readlink |-> <<<<FALSE, FALSE>>>>,    \* and lstat
     write    |-> <<<<TRUE, TRUE>>>>,      \* writeFile, appendFile, open for writing
     mkdir    |-> <<<<TRUE, FALSE>>>>,
     mkdirp   |-> <<<<TRUE, FALSE>>>>,
     rm       |-> <<<<TRUE, FALSE>>>>,     \* recursive
     unlink   |-> <<<<FALSE, FALSE>>>>,    \* and rmdir
     rename   |-> <<<<FALSE, FALSE>>, <<TRUE, FALSE>>>>,
     copy     |-> <<<<FALSE, TRUE>>, <<TRUE, TRUE>>>>,
     symlink  |-> <<<<TRUE, TRUE>>, <<TRUE, FALSE>>>>,
     chdir    |-> <<<<FALSE, TRUE>>>>]

-----------------------------------------------------------------------------
Init == /\ tree \in Trees /\ cwd = Base /\ closed = FALSE /\ acted = Nothing /\ made = 0
        /\ calls = [s \in Slots |-> Idle]

\* The loop runs one synchronous call at a time; chdir has no other form.
Call(s, c) ==
    /\ made < MaxCalls /\ ~closed
    /\ calls[s] = Idle /\ (c.op = "chdir" => c.sync)
    /\ \A o \in Slots : calls[o] # Idle => ~calls[o].sync
    /\ calls' = [calls EXCEPT ![s] = [op |-> c.op, sync |-> c.sync, names |-> c.names, dir |-> cwd, at |-> <<>>,
                                      asked |-> [i \in DOMAIN c.names |-> Joined(c.names[i], cwd)]]]
    /\ made' = made + 1
    /\ UNCHANGED <<tree, cwd, closed, acted>>

\* writeFileSync does not follow the last link, its asynchronous form does.
Follows(c, i) == IF c.op = "write" /\ c.sync THEN FALSE ELSE Arguments[c.op][i][2]

ResolveNext(s) ==
    LET c == calls[s]
        i == Len(c.at) + 1
        p == Resolve(Joined(c.names[i], c.dir), Arguments[c.op][i][1], Follows(c, i))
    IN  /\ c # Idle /\ Len(c.at) < Len(c.names)
        /\ calls' = [calls EXCEPT ![s] = IF p = Refused THEN Idle ELSE [c EXCEPT !.at = Append(@, p)]]
        /\ UNCHANGED <<tree, cwd, closed, acted, made>>

-----------------------------------------------------------------------------
(* filesystemFor and the operations on the root's handle.  The first root the *)
(* path lies in serves it.                                                    *)
RootOf(p) == IF IsPrefix(Base, p) THEN Base ELSE CHOOSE root \in Extras : IsPrefix(root, p)
\* Faulty variant: the checked path is opened without the handle.
ReachedUnrooted(p, follow) == Lead(<<>>, <<>>, p, follow, 3)
Reached(p, follow) == Lead(RootOf(p), RootOf(p), Below(RootOf(p), p), follow, 3)
Found(q) == q \notin {Missing, Refused} /\ Exists(q)
Free(q) == q \notin {Missing, Refused} /\ ~Exists(q) /\ Exists(Parent(q)) /\ Kind(Parent(q)) = "dir"

With(q, entry) == [p \in DOMAIN tree \cup {q} |-> IF p = q THEN entry ELSE tree[p]]
Without(S) == [p \in DOMAIN tree \ S |-> tree[p]]
Ended(s, places) ==
    /\ calls' = [calls EXCEPT ![s] = Idle]
    /\ acted' = [op |-> calls[s].op, asked |-> calls[s].asked, places |-> places]
    /\ UNCHANGED <<closed, made>>

Ready(s, op) == calls[s] # Idle /\ calls[s].op = op /\ Len(calls[s].at) = Len(calls[s].names) /\ ~closed

Read(s) == \E op \in {"read", "readlink"} :
    LET q == Reached(calls[s].at[1], op = "read") IN
    /\ Ready(s, op) /\ Found(q)
    /\ Ended(s, {q}) /\ UNCHANGED <<tree, cwd>>

WriteFile(s) ==
    LET q == Reached(calls[s].at[1], TRUE) IN
    /\ Ready(s, "write") /\ (Free(q) \/ (Found(q) /\ Kind(q) = "file"))
    /\ tree' = With(q, FileEntry)
    /\ Ended(s, {q}) /\ UNCHANGED cwd

Mkdir(s) ==
    LET q == Reached(calls[s].at[1], FALSE) IN
    /\ Ready(s, "mkdir") /\ Free(q)
    /\ tree' = With(q, DirEntry)
    /\ Ended(s, {q}) /\ UNCHANGED cwd

\* Parents that are missing are made too; paths are two names deep.
MkdirAll(s) ==
    LET p == calls[s].at[1]
        above == Reached(Parent(p), TRUE)
        q == Append(above, Last(p))
    IN  /\ Ready(s, "mkdirp") /\ p \notin Roots
        /\ \/ (Found(above) /\ Kind(above) = "dir" /\ ~Exists(q))
           \/ Free(above)
        /\ tree' = [x \in DOMAIN tree \cup {above, q} |-> IF x \in DOMAIN tree THEN tree[x] ELSE DirEntry]
        /\ Ended(s, {above, q}) /\ UNCHANGED cwd

Delete(s) == \E op \in {"rm", "unlink"} :
    LET q == Reached(calls[s].at[1], FALSE) IN
    /\ Ready(s, op) /\ Found(q) /\ calls[s].at[1] \notin Roots
    /\ op = "unlink" => Subtree(q) = {q}
    /\ tree' = Without(Subtree(q))
    /\ Ended(s, Subtree(q)) /\ UNCHANGED cwd

\* Both names must lie in the root of the first one.
Rename(s) ==
    LET from == Reached(calls[s].at[1], FALSE)
        to == Reached(calls[s].at[2], FALSE)
    IN  /\ Ready(s, "rename") /\ RootOf(calls[s].at[1]) = RootOf(calls[s].at[2])
        /\ Found(from) /\ from \notin Roots /\ to \notin Roots /\ ~IsStrictPrefix(from, to)
        /\ \/ Free(to)
           \/ Found(to) /\ Subtree(to) = {to} /\ (Kind(from) = "dir") = (Kind(to) = "dir")
        /\ tree' = [x \in (DOMAIN tree \ (Subtree(from) \cup {to})) \cup {to \o Below(from, y) : y \in Subtree(from)} |->
                        IF IsPrefix(to, x) THEN tree[from \o Below(to, x)] ELSE tree[x]]
        /\ Ended(s, Subtree(from) \cup {to}) /\ UNCHANGED cwd

CopyFile(s) ==
    LET from == Reached(calls[s].at[1], TRUE)
        to == Reached(calls[s].at[2], TRUE)
    IN  /\ Ready(s, "copy") /\ Found(from) /\ Kind(from) = "file"
        /\ Free(to) \/ (Found(to) /\ Kind(to) = "file")
        /\ tree' = With(to, FileEntry)
        /\ Ended(s, {from, to}) /\ UNCHANGED cwd

\* The target is stored relative to the directory in the name of the link.
LinkTo(dir, target) ==
    LET n == Max({k \in 0..Len(dir) : IsPrefix(SubSeq(dir, 1, k), target)})
    IN  [kind |-> "link", up |-> Len(dir) - n, down |-> SubSeq(target, n + 1, Len(target))]
Symlink(s) ==
    LET q == Reached(calls[s].at[2], FALSE) IN
    /\ Ready(s, "symlink") /\ Free(q)
    /\ tree' = With(q, LinkTo(Parent(calls[s].at[2]), calls[s].at[1]))
    /\ Ended(s, {q}) /\ UNCHANGED cwd

Chdir(s) ==
    LET q == Reached(calls[s].at[1], TRUE) IN
    /\ Ready(s, "chdir") /\ Found(q) /\ Kind(q) = "dir"
    /\ cwd' = calls[s].at[1]
    /\ Ended(s, {q}) /\ UNCHANGED tree

Acts(s) == \/ Read(s) \/ WriteFile(s) \/ Mkdir(s) \/ MkdirAll(s) \/ Delete(s) \/ Rename(s)
           \/ CopyFile(s) \/ Symlink(s) \/ Chdir(s)

\* An operation that cannot be done, or comes after the close, ends with an error.
Failed(s) ==
    /\ calls[s] # Idle /\ Len(calls[s].at) = Len(calls[s].names)
    /\ calls' = [calls EXCEPT ![s] = Idle]
    /\ UNCHANGED <<tree, cwd, closed, acted, made>>

\* The handles of the roots are closed with the runtime.
Close == /\ ~closed /\ closed' = TRUE
         /\ UNCHANGED <<tree, cwd, calls, acted, made>>

Next == \/ \E s \in Slots, c \in Calls : Call(s, c)
        \/ \E s \in Slots : ResolveNext(s) \/ Acts(s) \/ Failed(s)
        \/ Close
Spec == Init /\ [][Next]_fvars

-----------------------------------------------------------------------------
(* Whatever becomes of directories and links between the check of a name and  *)
(* the operation, nothing outside the roots is read or changed (ReadSource:   *)
(* "preventing path validation and file opening from racing").                *)
Confined == \A p \in acted.places : Within(p)

(* A call works on what its name meant where it was made, though the working  *)
(* directory has changed since (prepareFSAsync).                              *)
NamedAtCall ==
    \A s \in Slots : \A i \in DOMAIN calls[s].at :
        ~Arguments[calls[s].op][i][2] => calls[s].at[i] = calls[s].asked[i]

(* What is removed is the entry of the name, never what a link leads to       *)
(* (nodePathNoFollowFinal).                                                   *)
RemovesTheEntry ==
    acted.op \in {"rm", "unlink"} =>
        \E q \in acted.places : /\ \A p \in acted.places : IsPrefix(q, p)
                                /\ Last(q) = Last(acted.asked[1])
=============================================================================
