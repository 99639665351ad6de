---------------------------- MODULE MCPartsSafe ----------------------------
(* A small instance of every part; those of one kind are model values, so  *)
(* that the bindings and the workers are symmetric.                        *)
EXTENDS Parts, TLC

CONSTANTS b1, b2, w1, w2

FileOfBody    == [b \in {"plain", "file"} |-> {b} \ {"plain"}]
OneThenTwo    == [m \in {"test", "live"} |-> IF m = "test" THEN 1 ELSE 2]
ThreeSteps    == << [limit |-> 1, wait |-> 0, sample |-> 1, volume |-> 0],
                    [limit |-> 2, wait |-> 1, sample |-> 1, volume |-> 0],
                    [limit |-> 3, wait |-> 1, sample |-> 2, volume |-> 2] >>
SmallPolicy   == [bounceVolume |-> 2, bounceFloor |-> 2, bounceRate |-> 1,
                  complaintVolume |-> 2, complaintFloor |-> 1, complaintRate |-> 2]
TwoAccounts   == [r \in {"r1", "r2", "r3"} |-> IF r = "r1" THEN "dev" ELSE "prod"]
OneSubdomain  == {<<"n1", "n1">>, <<"n2", "n2">>, <<"n3", "n3">>, <<"n2", "n1">>}
TwoThenTen    == <<2, 10>>

\* Two events that name one message, of two identifiers, one without a tag, one of another
\* workspace's message, one that cannot be read.
FiveTags == [good |-> "m", twin |-> "m", bare |-> "none", alien |-> "x", bad |-> "m"]
FiveIds  == [good |-> "p", twin |-> "q", bare |-> "p", alien |-> "p", bad |-> "p"]

APrice(component, right, metered, product, live) ==
    [component |-> component, right |-> right, metered |-> metered, product |-> product, live |-> live]
FourPrices == [platform |-> APrice("platform", TRUE, FALSE, 1, TRUE),
               usage    |-> APrice("usage", TRUE, TRUE, 1, TRUE),
               other    |-> APrice("platform", TRUE, FALSE, 2, TRUE),
               flat     |-> APrice("usage", FALSE, FALSE, 1, FALSE)]

Symmetry == Permutations({b1, b2}) \cup Permutations({w1, w2})
=============================================================================
