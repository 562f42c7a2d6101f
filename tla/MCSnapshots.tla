---------------------------- MODULE MCSnapshots ----------------------------
(***************************************************************************)
(* A repository with one advisory and its signature, a path that cannot    *)
(* exist together with the advisory, and a key; histories of up to five    *)
(* commits that repeat and revert changes.                                 *)
(***************************************************************************)
EXTENDS HistoryScan

CONSTANTS c1, c2, main, dev

Doc   == <<"host", "a">>
Sig   == <<"host", "a.asc">>
Inner == <<"host", "a", "b">>
Key   == <<"metadata", "k">>

MCPaths      == {Doc, Sig, Inner, Key}
MCKeys       == {Key}
MCAdvisories == {Doc}
MCSidecars   == [p \in MCPaths |-> IF p = Doc THEN {Sig} ELSE {}]
MCCollides   == [p \in MCPaths |-> IF p = Doc THEN {Inner}
                                   ELSE IF p = Inner THEN {Doc} ELSE {}]

With(f) == [p \in MCPaths |-> IF p \in DOMAIN f THEN f[p] ELSE None]

MCOffers  == {<<Doc, With(Doc :> c1 @@ Sig :> c1)>>, <<Doc, With(Doc :> c2)>>}
MCKeySets == {Key :> None, Key :> c2}

Signed == With(Doc :> c1 @@ Sig :> c2 @@ Key :> c1)
Nested == With(Inner :> c2 @@ Key :> c1)
Root   == With(Doc :> c1 @@ Sig :> c1 @@ Key :> c2)
MCPushes == {Signed, Nested}

\* Commits on top of each other, the first one a root.
Line(trees) == [i \in DOMAIN trees |->
                  [tree |-> trees[i], by |-> "csaf-trove",
                   parents |-> IF i = 1 THEN <<>> ELSE <<i - 1>>]]

MCHistories == {Line(h) : h \in {<<>>, <<Root>>, <<Root, Nested, Root, Nested, Root>>,
                                 <<Root, Signed, Root, Signed>>}}
=============================================================================
