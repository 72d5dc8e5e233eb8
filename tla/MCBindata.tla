----------------------------- MODULE MCBindata -----------------------------
(***************************************************************************)
(* The directory d of the working directory with up to three entries: a,   *)
(* which is a file, a locked directory or a directory with the files a and *)
(* a2 and with "2", a directory or a link; a file "a-a" or "a-"; and a2, a *)
(* file, a directory or a link.                                            *)
(***************************************************************************)
EXTENDS Bindata

MCWd == <<Root, <<"w">>>>

D == MCWd \o <<<<"d">>>>
A == <<"a">>
A2 == <<"a", "2">>

Dir == [kind |-> "dir", to |-> <<>>]
File == [kind |-> "file", to |-> <<>>]
Locked == [kind |-> "locked", to |-> <<>>]
Link(to) == [kind |-> "link", to |-> to]
At(p, node) == p :> node

Targets == {D, D \o <<A2>>, <<Dot>>, <<DotDot>>, <<A>>}

InA ==
    {At(D \o <<A, A>>, File), At(D \o <<A, A>>, File) @@ At(D \o <<A, A2>>, File)}

FirstEntry ==
    {<<>>, At(D \o <<A>>, File), At(D \o <<A>>, Locked)}
      \cup {At(D \o <<A>>, Dir) @@ f @@ l :
              f \in InA,
              l \in {<<>>, At(D \o <<A, <<"2">>>>, Dir) @@ At(D \o <<A, <<"2">>, A>>, File)}
                    \cup {At(D \o <<A, <<"2">>>>, Link(t)) : t \in Targets}}
SecondEntry == {<<>>, At(D \o <<<<"a", "-", "a">>>>, File), At(D \o <<<<"a", "-">>>>, File)}
ThirdEntry ==
    {<<>>, At(D \o <<A2>>, File), At(D \o <<A2>>, Dir) @@ At(D \o <<A2, A>>, File)}
      \cup {At(D \o <<A2>>, Link(t)) : t \in Targets}

MCFileSystems ==
    { At(<<Root>>, Dir) @@ At(MCWd, Dir) @@ At(D, Dir) @@ x @@ y @@ z :
        x \in FirstEntry, y \in SecondEntry, z \in ThirdEntry }

Input(path, recursive) == [path |-> path, recursive |-> recursive]
PathD == <<<<"d">>>>

MCConfigs ==
    [ prefix : {<<>>, PathD, PathD \o <<A>>, PathD \o <<A, A>>},
      inputs : { <<Input(PathD, TRUE)>>, <<Input(PathD, FALSE)>>,
                 <<Input(<<DotDot, <<"w">>>> \o PathD, TRUE)>>,
                 <<Input(PathD, TRUE), Input(D \o <<A>>, FALSE)>> },
      ignore : {{}, {A2}} ]
=============================================================================
