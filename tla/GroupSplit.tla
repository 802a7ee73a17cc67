----------------------------- MODULE GroupSplit -----------------------------
(***************************************************************************)
(* The split of Zabbix host groups into host groups and template groups,  *)
(* database patches 6010032 to 6010035 of                                 *)
(* src/src/libs/zbxdbupgrade/dbupgrade_6010.c, run one after the other by *)
(* the upgrade driver.  Each patch is one action: the driver runs a patch *)
(* function inside one transaction, so its effect is committed whole or  *)
(* rolled back whole (a failed patch leaves the tables as they were and   *)
(* stops the upgrade at the last applied version).                        *)
(*                                                                         *)
(* The tables are modelled by the columns the patches read or write:      *)
(*   hstgrp          groupid -> [name, type]                               *)
(*   hosts_groups    set of <<hostid, groupid>>                            *)
(*   group_prototype set of groupid                                        *)
(*   rights          set of <<groupid (user group), permission, id>>      *)
(*   ids             nextid, the next free hstgrp id of DBget_maxid_num   *)
(* The uuid column is copied with the name and is left out; rightid is an *)
(* autoincrement key and is left out.  The schema patches 6010028-6010031 *)
(* (drop "internal", add "type" with default 0, replace the unique index  *)
(* on name by one on (type,name)) are modelled by their result: Init is a *)
(* database at version 6010031.                                           *)
(***************************************************************************)
EXTENDS Naturals, Sequences, SequencesExt, FiniteSets, TLC

CONSTANTS
    GroupIds,     \* ids of the groups before the upgrade, 1..N
    GroupNames,   \* names they may carry (sequences of characters)
    Hosts,        \* hosts (and templates) that may be group members
    HostStatus,   \* hostid -> hosts.status
    Grant,        \* groupid -> <<user group, permission>> granted on it
    MaxFailures,  \* bound on storage failures over one upgrade
    IsServer      \* program_type & ZBX_PROGRAM_TYPE_SERVER # 0

VARIABLES
    hstgrp, hostsGroups, groupPrototype, rights, nextid,
    dbversion,    \* version of the last applied patch
    upgrade,      \* "running", or why the last patch failed
    failures      \* storage failures so far

vars == <<hstgrp, hostsGroups, groupPrototype, rights, nextid,
          dbversion, upgrade, failures>>

NH == INSTANCE NameHierarchy
        WITH names <- {}, Names <- GroupNames, MaxNames <- 0

HOST_STATUS_TEMPLATE == 3        \* DBPATCH_HOST_STATUS_TEMPLATE
HOSTGROUP_TYPE_HOST == 0
HOSTGROUP_TYPE_TEMPLATE == 1
FirstPatch == 6010032
LastPatch == 6010035
MaxGroupId == 3 * Cardinality(GroupIds)  \* originals, split and host copies
Status == {"running", "storage_error", "unique_conflict"}

NameOf(g) == hstgrp[g].name
TypeNames(t) == {hstgrp[g].name : g \in {x \in DOMAIN hstgrp : hstgrp[x].type = t}}

\* Result rows of "... order by length(name)": ties come in any order.
ByLength(S) ==
    {s \in SetToSeqs(S) :
        \A i, j \in DOMAIN s : i < j => Len(NameOf(s[i])) <= Len(NameOf(s[j]))}

\* DBPATCH_TPLGRP_GROUPIDS / DBPATCH_HSTGRP_GROUPIDS
TplGrpIds == {g \in DOMAIN hstgrp :
                 \E h \in Hosts : <<h, g>> \in hostsGroups /\ HostStatus[h] = HOST_STATUS_TEMPLATE}
HstGrpIds == {g \in DOMAIN hstgrp :
                 \E h \in Hosts : <<h, g>> \in hostsGroups /\ HostStatus[h] # HOST_STATUS_TEMPLATE}

\* The unique index hstgrp_1 on (type,name): a write that breaks it fails.
TypeNameUnique(t) ==
    \A a, b \in DOMAIN t : a # b => <<t[a].type, t[a].name>> # <<t[b].type, t[b].name>>

(***************************************************************************)
(* The driver: apply patch `v` with the tables it computed.  The insert or *)
(* update fails on the unique index, the patch returns FAIL and its       *)
(* transaction is rolled back; otherwise the version advances with it.    *)
(***************************************************************************)
Commit(v, hstgrp2, hostsGroups2, rights2, nextid2) ==
    IF TypeNameUnique(hstgrp2)
    THEN /\ hstgrp' = hstgrp2
         /\ hostsGroups' = hostsGroups2
         /\ rights' = rights2
         /\ nextid' = nextid2
         /\ dbversion' = v
         /\ UNCHANGED <<groupPrototype, upgrade, failures>>
    ELSE /\ upgrade' = "unique_conflict"
         /\ UNCHANGED <<hstgrp, hostsGroups, groupPrototype, rights, nextid,
                        dbversion, failures>>

\* A patch that changes nothing: not a server, or nothing selected.
Skip(v) == Commit(v, hstgrp, hostsGroups, rights, nextid)

RunPatch(v) == upgrade = "running" /\ dbversion = v - 1

-----------------------------------------------------------------------------
(* DBpatch_6010032_split_groups                                            *)

\* Mutant: the prototype alternative of the selection is dropped.
SplitGroupIdsNoProto == {g \in TplGrpIds : g \in HstGrpIds}

\* Mutant: the host group alternative of the selection is dropped.
SplitGroupIdsNoHosts == {g \in TplGrpIds : g \in groupPrototype}

\* Groups of templates that are also groups of hosts or of host prototypes.
SplitGroupIds == {g \in TplGrpIds : g \in HstGrpIds \/ g \in groupPrototype}

\* update hosts_groups set groupid=new where groupid=old and the host is a
\* template.
SplitMembers(hg, newOf) ==
    {IF e[2] \in DOMAIN newOf /\ HostStatus[e[1]] = HOST_STATUS_TEMPLATE
        THEN <<e[1], newOf[e[2]]>> ELSE e : e \in hg}

\* Mutant: the copied rows keep the old group's id.
CopyRightsToOld(r, newOf) ==
    r \cup {<<x[1], x[2], x[3]>> : x \in {y \in r : y[3] \in DOMAIN newOf}}

\* For every <<old, new>>: select groupid,permission from rights where
\* id=old, and insert each row again with id=new.
CopyRights(r, newOf) ==
    r \cup {<<x[1], x[2], newOf[x[3]]>> : x \in {y \in r : y[3] \in DOMAIN newOf}}

\* Mutant: the new row is typed with the host status macro (3) instead of
\* HOSTGROUP_TYPE_TEMPLATE.
SplitRowStatusType(g) == [name |-> NameOf(g), type |-> HOST_STATUS_TEMPLATE]

\* insert into hstgrp (groupid,name,type,uuid): the copy of group g.
SplitRow(g) == [name |-> NameOf(g), type |-> HOSTGROUP_TYPE_TEMPLATE]

\* Selected groups in groupid order get ids nextid, nextid+1, ...; each gets
\* a template group row of the same name, its rights and its templates.
SplitGroups ==
    LET sel == SetToSortSeq(SplitGroupIds, <)
        newOf == [g \in SplitGroupIds |->
                     nextid - 1 + CHOOSE i \in DOMAIN sel : sel[i] = g]
        newIds == {newOf[g] : g \in SplitGroupIds}
        old == [n \in newIds |-> CHOOSE g \in SplitGroupIds : newOf[g] = n]
    IN Commit(6010032,
              hstgrp @@ [n \in newIds |-> SplitRow(old[n])],
              SplitMembers(hostsGroups, newOf),
              CopyRights(rights, newOf),
              nextid + Len(sel))

DBpatch_6010032 ==
    /\ RunPatch(6010032)
    /\ IF IsServer /\ SplitGroupIds # {} THEN SplitGroups ELSE Skip(6010032)

-----------------------------------------------------------------------------
(* DBpatch_6010033: every group of templates becomes a template group.     *)

DBpatch_6010033 ==
    /\ RunPatch(6010033)
    /\ IF IsServer
       THEN Commit(6010033,
                   [g \in DOMAIN hstgrp |->
                       IF g \in TplGrpIds THEN [hstgrp[g] EXCEPT !.type = HOSTGROUP_TYPE_TEMPLATE]
                                          ELSE hstgrp[g]],
                   hostsGroups, rights, nextid)
       ELSE Skip(6010033)

-----------------------------------------------------------------------------
(* DBpatch_6010034_update_empty                                            *)

\* Groups with no hosts_groups and no group_prototype row.
EmptyGroupIds ==
    {g \in DOMAIN hstgrp : g \notin groupPrototype /\ ~\E h \in Hosts : <<h, g>> \in hostsGroups}

\* Mutant: a resolved group is not added to the names it is tested against.
UpdateEmptyStepNoAppend(acc, g) ==
    IF NH!StartFrom(acc.names, NameOf(g), NH!CHECK_PARENTS)
    THEN [acc EXCEPT !.ids = @ \cup {g}]
    ELSE acc

\* One row of the loop: an empty group that is an ancestor or descendant of
\* a template group name (or of an empty group resolved before it) joins
\* the names and the ids to retype.
UpdateEmptyStep(acc, g) ==
    IF NH!StartFrom(acc.names, NameOf(g), NH!CHECK_PARENTS)
    THEN [names |-> acc.names \cup {NameOf(g)}, ids |-> acc.ids \cup {g}]
    ELSE acc

UpdateEmpty(rows) ==
    LET res == FoldLeft(UpdateEmptyStep,
                        [names |-> TypeNames(HOSTGROUP_TYPE_TEMPLATE), ids |-> {}], rows)
    IN IF res.ids = {}
       THEN Skip(6010034)
       ELSE Commit(6010034,
                   [g \in DOMAIN hstgrp |->
                       IF g \in res.ids THEN [hstgrp[g] EXCEPT !.type = HOSTGROUP_TYPE_TEMPLATE]
                                        ELSE hstgrp[g]],
                   hostsGroups, rights, nextid)

DBpatch_6010034 ==
    /\ RunPatch(6010034)
    /\ IF IsServer THEN \E rows \in ByLength(EmptyGroupIds) : UpdateEmpty(rows)
                   ELSE Skip(6010034)

-----------------------------------------------------------------------------
(* DBpatch_6010035_create_empty_hostgroups                                 *)

\* Mutant: only template groups without members are candidates, as in the
\* selection of 6010034.
CreateEmptyCandidatesNoMembers ==
    {g \in EmptyGroupIds : hstgrp[g].type = HOSTGROUP_TYPE_TEMPLATE}

\* select ... from hstgrp g left join hosts_groups left join group_prototype
\* where type=TEMPLATE: every template group (the joins only repeat a row,
\* and a repeated name is skipped by the names search below).
CreateEmptyCandidates ==
    {g \in DOMAIN hstgrp : hstgrp[g].type = HOSTGROUP_TYPE_TEMPLATE}

\* Mutant: the zbx_vector_str_search of the name among host names is gone.
CreateEmptyStepNoSearch(acc, g) ==
    IF ~NH!StartFrom(acc.names, NameOf(g), NH!CHECK_CHILDREN_ONLY)
    THEN acc
    ELSE [names |-> acc.names \cup {NameOf(g)}, list |-> Append(acc.list, g)]

\* One row: a template group whose name is not a host group name and is an
\* ancestor of one gets a host group copy.
CreateEmptyStep(acc, g) ==
    IF NameOf(g) \in acc.names \/ ~NH!StartFrom(acc.names, NameOf(g), NH!CHECK_CHILDREN_ONLY)
    THEN acc
    ELSE [names |-> acc.names \cup {NameOf(g)}, list |-> Append(acc.list, g)]

CreateEmptyHostgroups(rows) ==
    LET list == FoldLeft(CreateEmptyStep,
                         [names |-> TypeNames(HOSTGROUP_TYPE_HOST), list |-> <<>>], rows).list
        newOf == [g \in ToSet(list) |->
                     nextid - 1 + CHOOSE i \in DOMAIN list : list[i] = g]
        newIds == {newOf[g] : g \in ToSet(list)}
        old == [n \in newIds |-> CHOOSE g \in ToSet(list) : newOf[g] = n]
    IN IF list = <<>>
       THEN Skip(6010035)
       ELSE Commit(6010035,
                   hstgrp @@ [n \in newIds |-> [name |-> NameOf(old[n]), type |-> HOSTGROUP_TYPE_HOST]],
                   hostsGroups,
                   CopyRights(rights, newOf),
                   nextid + Len(list))

DBpatch_6010035 ==
    /\ RunPatch(6010035)
    /\ IF IsServer THEN \E rows \in ByLength(CreateEmptyCandidates) : CreateEmptyHostgroups(rows)
                   ELSE Skip(6010035)

-----------------------------------------------------------------------------
(* The upgrade driver                                                      *)

\* A select, insert or execute of the running patch fails: the patch
\* returns FAIL, the transaction rolls back and the upgrade stops.
StorageFailure ==
    /\ upgrade = "running"
    /\ dbversion < LastPatch
    /\ failures < MaxFailures
    /\ upgrade' = "storage_error"
    /\ failures' = failures + 1
    /\ UNCHANGED <<hstgrp, hostsGroups, groupPrototype, rights, nextid, dbversion>>

\* The operator starts the server again: the upgrade resumes at the first
\* patch after the recorded version.
Restart ==
    /\ upgrade # "running"
    /\ upgrade' = "running"
    /\ UNCHANGED <<hstgrp, hostsGroups, groupPrototype, rights, nextid, dbversion, failures>>

\* The upgrade is complete; the server runs on the migrated tables.
Upgraded ==
    /\ dbversion = LastPatch
    /\ UNCHANGED vars

Init ==
    /\ \E name \in [GroupIds -> GroupNames] :
           /\ \A a, b \in GroupIds : a # b => name[a] # name[b]  \* old unique index on name
           /\ hstgrp = [g \in GroupIds |-> [name |-> name[g], type |-> HOSTGROUP_TYPE_HOST]]
    /\ hostsGroups \in SUBSET (Hosts \X GroupIds)
    /\ groupPrototype \in SUBSET GroupIds
    /\ rights = {<<Grant[g][1], Grant[g][2], g>> : g \in GroupIds}
    /\ nextid = Cardinality(GroupIds) + 1
    /\ dbversion = FirstPatch - 1
    /\ upgrade = "running"
    /\ failures = 0

Next ==
    \/ DBpatch_6010032
    \/ DBpatch_6010033
    \/ DBpatch_6010034
    \/ DBpatch_6010035
    \/ StorageFailure
    \/ Restart
    \/ Upgraded

Spec == Init /\ [][Next]_vars

-----------------------------------------------------------------------------
(* Properties                                                              *)

Migrated == dbversion = LastPatch

TypeOK ==
    /\ DOMAIN hstgrp \subseteq 1..MaxGroupId
    /\ GroupIds \subseteq DOMAIN hstgrp
    /\ \A g \in DOMAIN hstgrp :
           hstgrp[g] \in [name : GroupNames, type : {HOSTGROUP_TYPE_HOST, HOSTGROUP_TYPE_TEMPLATE}]
    /\ hostsGroups \subseteq Hosts \X DOMAIN hstgrp
    /\ rights \subseteq {<<Grant[o][1], Grant[o][2], g>> : o \in GroupIds, g \in DOMAIN hstgrp}
    /\ nextid \in 1..(MaxGroupId + 1)
    /\ dbversion \in (FirstPatch - 1)..LastPatch
    /\ upgrade \in Status
    /\ failures \in 0..MaxFailures

(***************************************************************************)
(* No patch of the split fails on the unique index on (type,name) that    *)
(* 6010031 creates: the template copies of 6010032, the retyping of       *)
(* 6010033 and 6010034 and the host copies of 6010035 never produce two   *)
(* groups of the same type and name, whatever the groups were before.    *)
(***************************************************************************)
NoUniqueConflict == upgrade # "unique_conflict"

(***************************************************************************)
(* A group that host prototypes put discovered hosts in stays a host group *)
(* in every state: 6010032 splits off the templates of such a group before *)
(* 6010033 retypes the groups of templates.                               *)
(***************************************************************************)
PrototypeGroupsAreHostGroups ==
    \A g \in groupPrototype : hstgrp[g].type = HOSTGROUP_TYPE_HOST

(***************************************************************************)
(* Once migrated, templates are members of template groups only and hosts *)
(* of host groups only: the split moved exactly the templates of a mixed  *)
(* group to its copy, and 6010033 retyped the groups of templates.        *)
(***************************************************************************)
NamespaceMatchesMembers ==
    Migrated =>
        \A e \in hostsGroups :
            (hstgrp[e[2]].type = HOSTGROUP_TYPE_TEMPLATE) <=> (HostStatus[e[1]] = HOST_STATUS_TEMPLATE)

\* The group that had name n before the upgrade (names were unique then).
OriginalNamed(n) == CHOOSE o \in GroupIds : hstgrp[o].name = n

(***************************************************************************)
(* In every state each group, original or copy, carries exactly the grants *)
(* of the original group of the same name: copies of 6010032 and of       *)
(* 6010035 take the rows of their source by id, and originals keep theirs. *)
(***************************************************************************)
GrantsFollowOrigin ==
    \A g \in DOMAIN hstgrp :
        {<<x[1], x[2]>> : x \in {y \in rights : y[3] = g}} = {Grant[OriginalNamed(NameOf(g))]}

\* Every group named by an ancestor path of a type-t group's name has a
\* type-t counterpart of the same name.
HierarchyClosed(t) ==
    \A b \in DOMAIN hstgrp, a \in DOMAIN hstgrp :
        hstgrp[b].type = t /\ NH!SpecAncestor(NameOf(a), NameOf(b)) => NameOf(a) \in TypeNames(t)

(***************************************************************************)
(* Once migrated, every group whose name is an ancestor path of a host    *)
(* group's name also exists as a host group: 6010035 gives a host copy to  *)
(* each template group above a host group, whatever order equal-length    *)
(* names come in.                                                          *)
(***************************************************************************)
HostHierarchyClosed == Migrated => HierarchyClosed(HOSTGROUP_TYPE_HOST)

(***************************************************************************)
(* Section 4.4 and invariant 2 of the spec: the same closure for template *)
(* groups.  The code only moves empty groups into the template hierarchy, *)
(* so a host group with members above a template group has no template    *)
(* counterpart.                                                            *)
(***************************************************************************)
TemplateHierarchyClosed == Migrated => HierarchyClosed(HOSTGROUP_TYPE_TEMPLATE)

\* Groups that were empty before the upgrade (they stay empty: the split
\* leaves every split group with members or a prototype).
OriginalEmpty == {g \in GroupIds : g \in EmptyGroupIds}

Related(x, y) == NH!SpecAncestor(x, y) \/ NH!SpecAncestor(y, x)

\* The empty groups reachable from S along Related, and S itself.
RECURSIVE FolderClosure(_)
FolderClosure(S) ==
    LET S2 == S \cup {e \in OriginalEmpty : \E s \in S : Related(NameOf(e), NameOf(s))}
    IN IF S2 = S THEN S ELSE FolderClosure(S2)

(***************************************************************************)
(* Once 6010034 has run, an original empty group is a template group iff  *)
(* it is linked to a group of templates by a chain of empty groups, each  *)
(* an ancestor or descendant of the next: the single pass in name-length  *)
(* order reaches the same fixpoint as repeating it until nothing changes. *)
(***************************************************************************)
FolderPlacementIsClosure ==
    dbversion >= 6010034 =>
        {e \in OriginalEmpty : hstgrp[e].type = HOSTGROUP_TYPE_TEMPLATE}
            = FolderClosure(TplGrpIds) \cap OriginalEmpty


-----------------------------------------------------------------------------
(* Refinement of GroupNamespaces.  A logical group is a name: the split   *)
(* gives a name several groupids, one per type.  Until the last patch     *)
(* commits, the tables present every name as a host group.               *)

PlacementByName ==
    [n \in {NameOf(g) : g \in DOMAIN hstgrp} |->
        IF Migrated
            THEN {hstgrp[g].type : g \in {x \in DOMAIN hstgrp : NameOf(x) = n}}
            ELSE {HOSTGROUP_TYPE_HOST}]

\* A grant counts for a name when every groupid of that name carries it.
GrantsByName ==
    {<<x[1], x[2], NameOf(x[3])>> :
        x \in {y \in rights :
                 \A g \in DOMAIN hstgrp : NameOf(g) = NameOf(y[3]) => <<y[1], y[2], g>> \in rights}}

GN == INSTANCE GroupNamespaces
        WITH HOST <- HOSTGROUP_TYPE_HOST,
             TEMPLATE <- HOSTGROUP_TYPE_TEMPLATE,
             IsTemplate <- LAMBDA s : s = HOST_STATUS_TEMPLATE,
             placement <- PlacementByName,
             members <- {<<e[1], NameOf(e[2])>> : e \in hostsGroups},
             protoNames <- {NameOf(g) : g \in groupPrototype},
             grants <- GrantsByName,
             migrated <- Migrated

(***************************************************************************)
(* The four patches, with failures and restarts between them, implement   *)
(* the one-step split of GroupNamespaces: no step changes which hosts and *)
(* templates a group name holds, which names prototypes use, or the       *)
(* grants every group of a name carries (spec 8.2), and the placement the *)
(* committed 6010035 leaves satisfies the namespace rules of 4.2-4.4.     *)
(***************************************************************************)
RefinesGroupNamespaces == GN!Spec


=============================================================================
