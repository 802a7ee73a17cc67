--------------------------- MODULE MCNameHierarchy ---------------------------
(* Instantiates NameHierarchy with names of up to three characters over    *)
(* "a", "b" and "/".                                                       *)
EXTENDS NameHierarchy

MCChars == {"a", "b", "/"}

\* Every string of one to three characters.
AllStrings == BoundedSeq(MCChars, 3) \ {<<>>}

\* Names Zabbix accepts as nested group names: no leading, trailing or
\* doubled "/".
WellFormed(n) ==
    /\ n[1] # "/"
    /\ n[Len(n)] # "/"
    /\ \A i \in 1..(Len(n) - 1) : ~(n[i] = "/" /\ n[i + 1] = "/")

MCWellFormedNames == {n \in AllStrings : WellFormed(n)}
=============================================================================
