---------------------------- MODULE NameHierarchy ----------------------------
(***************************************************************************)
(* The name-path test of the host group split, DBpatch_6010034_startfrom  *)
(* in src/src/libs/zbxdbupgrade/dbupgrade_6010.c.  A group name is a     *)
(* string; here a string is a sequence of one-character strings, so that *)
(* the test is modelled by what the C code does with it: compare lengths, *)
(* append "/" and compare a prefix with strncmp.                           *)
(*                                                                         *)
(* The state is the `names` vector the patches grow while they resolve    *)
(* groups (lines 741-744, 761, 816, 837); the index only ever grows.      *)
(***************************************************************************)
EXTENDS Naturals, Sequences, SequencesExt, FiniteSets

CONSTANTS
    Names,      \* the names the vector may hold and be queried with
    MaxNames    \* bound on the size of the vector

VARIABLES names

Slash == <<"/">>

\* #define CHECK_CHILDREN_ONLY 0 / CHECK_PARENTS 1
CHECK_CHILDREN_ONLY == 0
CHECK_PARENTS == 1
CheckModes == {CHECK_CHILDREN_ONLY, CHECK_PARENTS}

\* Mutant: the prefix is compared without the appended "/" (strncmp of the
\* bare names), so "ab" would count as a child of "a".
StartFromNoSlash(vec, name, check_parents) ==
    \E n \in vec :
        /\ Len(n) # Len(name)
        /\ IF Len(n) < Len(name) /\ check_parents # CHECK_CHILDREN_ONLY
              THEN IsPrefix(n, name)
              ELSE IsPrefix(name, n)

(***************************************************************************)
(* DBpatch_6010034_startfrom(names, name, check_parents): SUCCEED iff some *)
(* entry of the vector, of a different length, is "name/"-prefixed by    *)
(* name (name is its ancestor) or, when parents are checked and the entry *)
(* is shorter, the entry plus "/" is a prefix of name.  The loop returns  *)
(* at the first match, so the result is an existential over the vector.   *)
(* tmp holds 256*4 bytes and names are at most 255 characters, so the     *)
(* strlcpy/strlcat never truncate.                                         *)
(***************************************************************************)
StartFrom(vec, name, check_parents) ==
    \E n \in vec :
        /\ Len(n) # Len(name)
        /\ IF Len(n) < Len(name) /\ check_parents # CHECK_CHILDREN_ONLY
              THEN IsPrefix(n \o Slash, name)
              ELSE IsPrefix(name \o Slash, n)

\* zbx_vector_str_append(&names, zbx_strdup(NULL, name))
Insert(n) ==
    /\ Cardinality(names \cup {n}) <= MaxNames
    /\ names' = names \cup {n}

Init == names = {}

Next == \E n \in Names : Insert(n)

Spec == Init /\ [][Next]_names

-----------------------------------------------------------------------------
(* Reference definitions: the contract of section 4.1 of the spec.         *)

\* x is an ancestor of y iff y = x \o "/" \o suffix for a non-empty suffix
\* (the only candidate suffix is what follows the first Len(x)+1 characters).
SpecAncestor(x, y) ==
    LET suffix == SubSeq(y, Len(x) + 2, Len(y))
    IN suffix # <<>> /\ y = x \o Slash \o suffix

\* What the two query modes promise: "is name an ancestor of a name in the
\* set", and with CHECK_PARENTS also "is it a descendant of one".
SpecStartFrom(vec, name, check_parents) ==
    \E n \in vec :
        \/ SpecAncestor(name, n)
        \/ check_parents = CHECK_PARENTS /\ SpecAncestor(n, name)

(***************************************************************************)
(* The string test of DBpatch_6010034_startfrom answers both queries      *)
(* exactly as the segment contract says, for every vector the patches can  *)
(* build and every name they ask about: no substring match across a       *)
(* segment boundary, equal names never related, in either mode.           *)
(***************************************************************************)
StartFromMatchesSpec ==
    \A name \in Names, mode \in CheckModes :
        StartFrom(names, name, mode) = SpecStartFrom(names, name, mode)
=============================================================================
