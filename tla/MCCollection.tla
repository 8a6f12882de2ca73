--------------------------- MODULE MCCollection ---------------------------
EXTENDS Collection, TLC

CONSTANTS root, dir, nested, ignored, readme, code, hidden, lost, image,
          r1, r2, m, n, x

\* A directory with a file, a repository of its own and an ignored directory, each with
\* a file, and two files, one of them of no supported kind.
MCParent ==
    dir :> root @@ nested :> root @@ ignored :> root @@ readme :> root @@ image :> root
    @@ code :> dir @@ hidden :> nested @@ lost :> ignored
MCDirectories == {root, dir, nested, ignored}
MCSupported == {readme, code, hidden, lost}

\* c4 merges c2 and c3, which share their parent c1; c5 follows c4.
MCParents == <<<<>>, <<1>>, <<1>>, <<2, 3>>, <<4>>>>

\* Two roots with a directory each; either may become a link into the second, and the
\* directory of the store too.
MCPlaces == {<<>>, <<"a">>, <<"a", x>>, <<"b">>, <<"b", x>>, <<"s">>}
MCLinkTo == <<"a">> :> <<"b">> @@ <<"a", x>> :> <<"b">> @@ <<"s">> :> <<"b">>

\* A repository below each root, both with consent; then one of the same name below the
\* second root, without consent; then an annotation of a repository that is not named.
Mine == [digests |-> <<1, 2>>, roles |-> <<"developer", "bot">>, subject |-> "me",
         annotated |-> {}]
Both ==
    [roots |-> r1 :> <<"a">> @@ r2 :> <<"b">>,
     repositories |-> m :> [root |-> r1, relative |-> <<x>>] @@ n :> [root |-> r2, relative |-> <<x>>],
     store |-> <<"s">>, subject |-> "me", identities |-> Mine, risk |-> <<m>>,
     projects |-> {m, n}, project |-> m, consent |-> m :> "mine" @@ n :> "other"]
Moved ==
    [Both EXCEPT !.roots = r1 :> <<"b">>, !.repositories = m :> [root |-> r1, relative |-> <<x>>],
                 !.projects = {m}, !.consent = <<>>]
MCConfigurations == {Both, Moved, [Moved EXCEPT !.risk = <<n>>]}
=============================================================================
