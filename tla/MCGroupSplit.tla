---------------------------- MODULE MCGroupSplit ----------------------------
(* Instantiates GroupSplit with three groups named from a small path tree, *)
(* one host and one template that may be members of any of them, and a    *)
(* distinct grant on each group.                                           *)
EXTENDS GroupSplit

MCGroupIds == 1..3

\* "a", "b", "a/b", "a/c", "a/b/c"
MCGroupNames == {<<"a">>, <<"b">>, <<"a", "/", "b">>, <<"a", "/", "c">>,
                 <<"a", "/", "b", "/", "c">>}

MCHosts == {"h", "t"}
\* h is a monitored host (status 0), t a template (status 3).
MCHostStatus == [x \in MCHosts |-> IF x = "t" THEN 3 ELSE 0]

\* User group 7 has read (2) on group 1, read-write (3) on 2, deny (0) on 3.
MCGrant == [g \in MCGroupIds |-> <<7, CASE g = 1 -> 2 [] g = 2 -> 3 [] OTHER -> 0>>]
=============================================================================
