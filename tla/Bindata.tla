------------------------------ MODULE Bindata ------------------------------
(***************************************************************************)
(* bindata, the generator that embeds the asset files in the two programs: *)
(* findFiles walks each input (convert.go), names every file and its       *)
(* function, writeTOC and writeTOCTree write the table and the tree of     *)
(* names (toc.go), and the generated program restores from them            *)
(* (restore.go).                                                           *)
(*                                                                         *)
(* A name is a sequence of characters, a path a sequence of names that     *)
(* begins with Root when it is absolute.  fs maps the canonical path of    *)
(* everything that exists to a node: a directory, a file, a "locked"       *)
(* directory that cannot be listed, or a link and where it points.         *)
(* The number of links one path may pass (40 in Linux) is MaxLinks.  An    *)
(* ignore pattern is the last name of the paths it matches; names are in   *)
(* lower case, so that ToLower has nothing to do.                          *)
(***************************************************************************)
EXTENDS Integers, Sequences, SequencesExt

CONSTANTS
    FileSystems,  \* the file systems to try
    Configs,      \* [prefix, inputs, ignore]: the command lines to try
    Wd,           \* the working directory, an absolute path
    MaxLinks      \* links the system follows in one path before ELOOP

ASSUME WdAbsolute == Wd # <<>> /\ Head(Wd) = <<"/">>
ASSUME MaxLinksNat == MaxLinks \in Nat

VARIABLES
    fs,           \* the file system
    config,       \* Config: Prefix, Input and Ignore
    phase,        \* "validate", "find", "write", "run", "done", "error", "panic"
    found,        \* findFiles' toc, knownFuncs, visitedPaths and outcome
    tree,         \* assetTree: route |-> function, Nil for a directory
    restored      \* the names RestoreAssets wrote

vars == <<fs, config, phase, found, tree, restored>>

Root == <<"/">>
Dot == <<".">>
DotDot == <<".", ".">>
Nil == <<>>       \* the function of a directory's node
Nowhere == <<>>   \* what a path that cannot be resolved leads to

-----------------------------------------------------------------------------
(* Paths.                                                                  *)

IsAbs(p) == p # <<>> /\ Head(p) = Root
Unrooted(p) == IF IsAbs(p) THEN Tail(p) ELSE p

\* filepath.Abs: lexical, it knows nothing of links.
Below(at, name) ==
    IF name = Dot THEN at
    ELSE IF name # DotDot THEN Append(at, name)
    ELSE IF at = <<Root>> THEN at ELSE Front(at)
Abs(p) == FoldLeft(Below, <<Root>>, Unrooted(IF IsAbs(p) THEN p ELSE Wd \o p))

\* What the system makes of a path: links followed, ".." after them.
RECURSIVE Walk(_, _, _)
Walk(at, rest, links) ==
    IF rest = <<>> THEN at
    ELSE LET next == IF Head(rest) = Root THEN <<Root>> ELSE Below(at, Head(rest))
         IN IF next \notin DOMAIN fs \/ fs[at].kind = "file" THEN Nowhere
            ELSE IF fs[next].kind # "link" THEN Walk(next, Tail(rest), links)
            ELSE IF links = 0 THEN Nowhere
            ELSE Walk(at, fs[next].to \o Tail(rest), links - 1)
Stat(p) == Walk(<<Root>>, IF IsAbs(p) THEN p ELSE Wd \o p, MaxLinks)

\* sort.Sort(ByName(list)): byte by byte.
Bytes == <<"-", "2", "_", "a", "d", "w">>
Byte(c) == CHOOSE i \in DOMAIN Bytes : Bytes[i] = c
Less(m, n) ==
    \E i \in DOMAIN n :
        /\ SubSeq(m, 1, i - 1) = SubSeq(n, 1, i - 1)
        /\ i > Len(m) \/ (i <= Len(m) /\ Byte(m[i]) < Byte(n[i]))
Readdir(dir) ==
    SetToSortSeq({Last(p) : p \in {q \in DOMAIN fs : q # <<Root>> /\ Front(q) = dir}}, Less)

-----------------------------------------------------------------------------
(* safeFunctionName.                                                       *)

Capital == [a |-> "A", d |-> "D", w |-> "W"]
Upper(c) == IF c \in DOMAIN Capital THEN Capital[c] ELSE c

\* The characters that cannot be part of an identifier are left out and the
\* one after them is made upper case.
Translation(name) ==
    LET Text == Tail(FlattenSeq([i \in DOMAIN name |-> <<"/">> \o name[i]]))
        Take(t, c) == IF c \in {"/", "-", "."} THEN [t EXCEPT !.up = TRUE]
                      ELSE [out |-> Append(t.out, IF t.up THEN Upper(c) ELSE c), up |-> FALSE]
        out == FoldLeft(Take, [out |-> <<>>, up |-> FALSE], Text).out
    IN IF out # <<>> /\ Head(out) = "2" THEN <<"_">> \o out ELSE out

\* knownFuncs holds the next number of each translation.
FuncForgets(known, f) ==
    [func |-> IF f \in DOMAIN known THEN Append(f, ToString(known[f])) ELSE f,
     known |-> IF f \in DOMAIN known THEN known ELSE known @@ (f :> 2)]

Func(known, f) ==
    IF f \in DOMAIN known
    THEN [func |-> Append(f, ToString(known[f])), known |-> [known EXCEPT ![f] = @ + 1]]
    ELSE [func |-> f, known |-> known @@ (f :> 2)]

-----------------------------------------------------------------------------
(* findFiles.                                                              *)

Prefixed == config.prefix # <<>>

\* strings.HasPrefix and the slice after it: the prefix may end inside a name.
Cut(path) ==
    LET p == Abs(config.prefix)
        k == Len(p)
    IN IF path[k] = p[k] THEN SubSeq(path, k + 1, Len(path))
       ELSE <<SubSeq(path[k], Len(p[k]) + 1, Len(path[k]))>> \o SubSeq(path, k + 1, Len(path))
UnderPrefix(path) ==
    LET p == Abs(config.prefix)
    IN /\ Len(path) >= Len(p)
       /\ Front(p) = SubSeq(path, 1, Len(p) - 1)
       /\ IsPrefix(Last(p), path[Len(p)])
AssetName(dir, path) ==
    IF ~Prefixed THEN Unrooted(path)
    ELSE IF UnderPrefix(path) THEN Cut(path)
    ELSE Unrooted(Append(dir, Last(path)))

VisitForgets(st, path) == st

Visit(st, path) == [st EXCEPT !.visited = @ \cup {path}]

\* A name whose translation is taken would be left out.
EmbedUnknown(st, dir, path) ==
    LET name == AssetName(dir, path)
        f == Translation(name)
    IN IF name = <<>> \/ f = <<>> THEN [st EXCEPT !.err = "error"]
       ELSE IF f \in DOMAIN st.known THEN st
       ELSE [st EXCEPT !.known = @ @@ (f :> 2),
                       !.toc = Append(@, [name |-> name, path |-> Abs(path), func |-> f])]

\* A file: named, given its function and appended to toc.
Embed(st, dir, path) ==
    LET name == AssetName(dir, path)
        f == Func(st.known, Translation(name))
    IN IF name = <<>> THEN [st EXCEPT !.err = "error"]                 \* invalid file
       ELSE IF Translation(name) = <<>> THEN [st EXCEPT !.err = "panic"] \* name[0]
       ELSE [st EXCEPT !.known = f.known,
                       !.toc = Append(@, [name |-> name, path |-> Abs(path), func |-> f.func])]

\* The error of a nested findFiles is dropped; a panic is not.
Nested(st) == IF st.err = "error" THEN [st EXCEPT !.err = ""] ELSE st

RECURSIVE FindFiles(_, _, _)

\* One file of the list: its kind is what Readdir or Stat told.
Include(st, dir, dirpath, recursive, name, kind) ==
    LET path == Append(dirpath, name)
        to == fs[Append(Stat(dirpath), name)].to
        key == IF IsAbs(to) THEN to ELSE Abs(dirpath \o to)
    IN CASE st.err # "" \/ name \in config.ignore -> st
         [] kind = "file" -> Embed(st, dir, path)
         [] kind = "link" ->
              IF key \in st.visited THEN st
              ELSE Nested(FindFiles(Visit(st, key), path, recursive))
         [] OTHER ->
              IF ~recursive THEN st
              ELSE Nested(FindFiles(Visit(st, path), Append(dir, name), recursive))

FindFiles(st, dir, recursive) ==
    LET dirpath == IF Prefixed THEN Abs(dir) ELSE dir
        real == Stat(dirpath)
        seen == Visit(st, dirpath)
        Each(s, name) ==
            LET kind == fs[Append(real, name)].kind
            IN Include(s, dir, dirpath, recursive, name, IF kind = "locked" THEN "dir" ELSE kind)
    IN IF real = Nowhere THEN [st EXCEPT !.err = "error"]
       ELSE IF fs[real].kind = "file"
            THEN Include(st, dir, Front(dirpath), recursive, Last(dirpath), "file")
       ELSE IF fs[real].kind = "locked" THEN [seen EXCEPT !.err = "error"]
       ELSE FoldLeft(Each, seen, Readdir(real))

-----------------------------------------------------------------------------
(* The tree of names and the generated program.                            *)

\* assetTree.Add: a node for every step of the route, the asset at its end.
AddEverywhere(t, asset) ==
    [r \in DOMAIN t \cup Prefixes(asset.name) |->
        IF r \in Prefixes(asset.name) \ {<<>>} THEN asset.func ELSE t[r]]

Add(t, asset) ==
    [r \in DOMAIN t \cup Prefixes(asset.name) |->
        IF r = asset.name THEN asset.func ELSE IF r \in DOMAIN t THEN t[r] ELSE Nil]

\* AssetDir fails for a name without a node and for a node with a function.
IsAssetDir(name) == name \in DOMAIN tree /\ tree[name] = Nil
AssetDir(name) == {r \in DOMAIN tree : r # <<>> /\ Front(r) = name}

\* Asset: the keys of _bindata.
AssetNames == {found.toc[i].name : i \in DOMAIN found.toc}

RECURSIVE RestoreAssets(_)
RestoreAssets(name) ==
    IF IsAssetDir(name) THEN UNION {RestoreAssets(r) : r \in AssetDir(name)}
    ELSE {name} \cap AssetNames

\* Go refuses a map literal with a key twice, and a function declared twice.
Compiles ==
    \A i, j \in DOMAIN found.toc :
        i # j => /\ found.toc[i].name # found.toc[j].name
                 /\ found.toc[i].func # found.toc[j].func

-----------------------------------------------------------------------------
(* Translate, then the generated program.                                  *)

Init ==
    /\ fs \in FileSystems
    /\ config \in Configs
    /\ phase = "validate"
    /\ found = [toc |-> <<>>, known |-> <<>>, visited |-> {}, err |-> ""]
    /\ tree = <<>> :> Nil
    /\ restored = {}

\* Config.validate: os.Lstat of every input; validate does not follow the last link.
Lstat(p) ==
    LET q == IF IsAbs(p) THEN p ELSE Wd \o p
        in == Walk(<<Root>>, Front(q), MaxLinks)
    IN in # Nowhere /\ Append(in, Last(q)) \in DOMAIN fs

Validate ==
    /\ phase = "validate"
    /\ phase' = IF \A i \in DOMAIN config.inputs : Lstat(config.inputs[i].path)
                THEN "find" ELSE "error"
    /\ UNCHANGED <<fs, config, found, tree, restored>>

\* The loop over c.Input; the first error ends it.
Locate ==
    LET Next1(st, input) ==
            IF st.err # "" THEN st ELSE FindFiles(st, input.path, input.recursive)
        st == FoldLeft(Next1, found, config.inputs)
    IN /\ phase = "find"
       /\ found' = st
       /\ phase' = IF st.err = "" THEN "write" ELSE st.err
       /\ UNCHANGED <<fs, config, tree, restored>>

\* writeTOCTree.
Write ==
    /\ phase = "write"
    /\ tree' = FoldLeft(Add, tree, found.toc)
    /\ phase' = IF Compiles THEN "run" ELSE "done"
    /\ UNCHANGED <<fs, config, found, restored>>

\* RestoreAssets(dir, "") in the generated program.
Restore ==
    /\ phase = "run"
    /\ restored' = RestoreAssets(<<>>)
    /\ phase' = "done"
    /\ UNCHANGED <<fs, config, found, tree>>

Next == Validate \/ Locate \/ Write \/ Restore

Spec == Init /\ [][Next]_vars

-----------------------------------------------------------------------------
(* Properties.                                                             *)

Located == phase \in {"write", "run", "done"}
Files == {p \in DOMAIN fs : fs[p].kind = "file"}
Links == {p \in DOMAIN fs : fs[p].kind = "link"}

\* The file p is the i-th input, or in its directory, or below it when the
\* input is recursive, and neither ignored nor below an ignored name.
Covers(i, p) ==
    LET input == config.inputs[i]
        q == Abs(input.path)
    IN /\ IsPrefix(q, p)
       /\ input.recursive \/ Len(p) <= Len(q) + 1
       /\ \A j \in Len(q) + 1 .. Len(p) : p[j] \notin config.ignore
       /\ p = q => Last(p) \notin config.ignore

\* The walk of a directory ended early, and what else it held is left out
\* without a word: the directory cannot be listed, or the prefix is a file.
LeftOut(p) ==
    \/ \E q \in Prefixes(p) : q \in DOMAIN fs /\ fs[q].kind = "locked"
    \/ Prefixed /\ Stat(config.prefix) # Nowhere /\ fs[Stat(config.prefix)].kind = "file"

\* When Translate finds its files, every file the inputs cover has entered
\* toc under its own path, once for each input that covers it: a link that is
\* met first never takes a file's place.  And every entry is a file that can
\* be read.  (findFiles drops the errors of the directories below an input,
\* LeftOut.)
EmbedsEachFile ==
    Located =>
        /\ \A p \in Files :
              ~LeftOut(p) =>
                Cardinality({i \in DOMAIN found.toc : found.toc[i].path = p})
                  = Cardinality({i \in DOMAIN config.inputs : Covers(i, p)})
        /\ \A i \in DOMAIN found.toc : Stat(found.toc[i].path) \in Files

\* visitedPaths ends the cycles that links make: with links that are absolute,
\* or with a prefix, no asset is reached through the same link twice.  (Without
\* a prefix a relative link to its own directory is followed until the system
\* gives up: the key of a link is absolute, that of a directory is not.)
LinksFollowedOnce ==
    Located /\ (Prefixed \/ \A p \in Links : IsAbs(fs[p].to)) =>
        \A i \in DOMAIN found.toc :
            LET path == found.toc[i].path
                At(k) == Append(Stat(SubSeq(path, 1, k - 1)), path[k])
            IN \A k, l \in 2..Len(path) :
                   k < l /\ At(k) \in Links => At(k) # At(l)

\* safeFunctionName keeps apart the assets whose names are translated alike.
\* (It does not keep a numbered function from being another's translation:
\* a/a, a/a2 and a-a become aA, aA2 and aA2, and the program does not compile.)
FunctionsApart ==
    \A i, j \in DOMAIN found.toc :
        i # j /\ Translation(found.toc[i].name) = Translation(found.toc[j].name) =>
            found.toc[i].func # found.toc[j].func

\* What findFiles promises of toc.
TocExact == EmbedsEachFile /\ LinksFollowedOnce /\ FunctionsApart

\* The generated program restores every asset, except those whose name goes
\* on below the name of another: AssetDir refuses a node with a function, and
\* a prefix that cuts a name can make a file and a directory of one name.
RestoresAll ==
    phase = "done" /\ Compiles =>
        restored = {n \in AssetNames : \A m \in AssetNames : ~IsStrictPrefix(m, n)}
=============================================================================
