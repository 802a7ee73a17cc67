---------------------------- MODULE DataPatches ----------------------------
(***************************************************************************)
(* The data and schema patches of dbupgrade_6010.c outside the LDAP move  *)
(* and the group split: 6010000 (clear md5 passwords), 6010001 (vault     *)
(* provider), 6010002-6010003 (truncate long trigger descriptions, then   *)
(* make the column varchar(255)), 6010004-6010005 (link_type of template  *)
(* links, LLD links of discovered hosts), 6010021-6010023 (host_rtdata,   *)
(* its foreign key and one row per host), 6010026-6010027 (the audit log  *)
(* action filter becomes a multi-value filter), 6010028-6010031 (the      *)
(* hstgrp schema the split starts from) and 6010036 (four profile keys    *)
(* renamed).  The loops of 6010002 and 6010005 are in BatchWriter; here   *)
(* each patch is its committed effect.                                    *)
(*                                                                         *)
(* The driver runs every patch of 6010000-6010036 in order, one per        *)
(* transaction.  The patches modelled in LdapMove and GroupSplit, and the *)
(* item renames of 6010024/25, touch other tables; here they only advance *)
(* the version (PatchElsewhere).  A description is modelled by its length *)
(* in characters, which is all the select and the new column type read.   *)
(* users.passwd is modelled by its length, the only thing 6010000 reads;   *)
(* a profile row is [userid, idx, value] (value_int).                      *)
(***************************************************************************)
EXTENDS Integers, SequencesExt

CONSTANTS
    Users,          \* user ids
    PasswdLengths,  \* lengths users.passwd may have
    AuditValues,    \* value_int of web.auditlog.filter.action (-1: any action)
    Hosts,          \* host ids
    HostFlags,      \* hostid -> hosts.flags
    HostStatus,     \* hostid -> hosts.status
    Triggers,       \* trigger ids
    DescLengths,    \* lengths, in characters, a trigger description may have
    TemplateLinks,  \* hosts_templates rows, as <<hostid, templateid>>
    HstGroups,      \* hstgrp rows
    IsServer,       \* program_type & ZBX_PROGRAM_TYPE_SERVER # 0
    MaxFailures

VARIABLES
    passwd,      \* userid -> length(users.passwd)
    schema,      \* host_rtdata and its foreign key, once created
    rtdata,      \* hostid -> host_rtdata.active_available
    profiles,    \* set of profile rows
    triggers,    \* triggerid -> length of triggers.description
    linkType,    \* hosts_templates row -> link_type, once the column exists
    hstgrpType,  \* hstgrp row -> type, once the column exists
    dbversion, upgrade, failures,
    profiles0    \* history: the profiles before the upgrade

data == <<passwd, rtdata, profiles, triggers, linkType, hstgrpType>>
vars == <<data, schema, dbversion, upgrade, failures, profiles0>>

PreviousVersion == 6000000    \* the database of the last 6.0 patch
FirstPatch == 6010000
LastPatch == 6010036
ModelledHere == (6010000..6010005) \cup (6010021..6010023) \cup (6010026..6010031) \cup {6010036}

ZBX_MD5_SIZE == 32
DESCRIPTION_LEN == 255             \* triggers.description after 6010003
ZBX_FLAG_DISCOVERY_PROTOTYPE == 2
ZBX_FLAG_DISCOVERY_CREATED == 4
ZBX_TEMPLATE_LINK_MANUAL == 0
ZBX_TEMPLATE_LINK_LLD == 1
HOSTGROUP_TYPE_HOST == 0
HOST_STATUS_MONITORED == 0
HOST_STATUS_NOT_MONITORED == 1
INTERFACE_AVAILABLE_UNKNOWN == 0

AuditAction == "web.auditlog.filter.action"
AuditActions == "web.auditlog.filter.actions"

\* The RENAME_PROFILE(old, new) statements of 6010036, in the order they run.
OldKeys == <<"web.hostgroups.php.sort", "web.hostgroups.php.sortorder",
             "web.groups.filter_name", "web.groups.filter.active">>
Renames6010036Typo ==
    << <<OldKeys[1], "web.hostgroups.sort">>, <<OldKeys[2], "web.hostgroup.sortorder">>,
       <<OldKeys[3], "web.hostgroups.filter_name">>, <<OldKeys[4], "web.hostgroups.filter.active">> >>
Renames6010036 ==
    << <<OldKeys[1], "web.hostgroups.sort">>, <<OldKeys[2], "web.hostgroups.sortorder">>,
       <<OldKeys[3], "web.hostgroups.filter_name">>, <<OldKeys[4], "web.hostgroups.filter.active">> >>

(* The driver.                                                             *)

Before(v) == IF v = FirstPatch THEN PreviousVersion ELSE v - 1

RunPatch(v) == upgrade = "running" /\ dbversion = Before(v)

Commit(v) == dbversion' = v /\ UNCHANGED <<upgrade, failures, profiles0>>

Fail(why) ==
    /\ upgrade' = why
    /\ UNCHANGED <<data, schema, dbversion, failures, profiles0>>

\* A patch of this range that touches none of the tables above.
PatchElsewhere ==
    \E v \in FirstPatch..LastPatch \ ModelledHere :
        /\ RunPatch(v)
        /\ Commit(v)
        /\ UNCHANGED <<data, schema>>

-----------------------------------------------------------------------------

\* update users set passwd='' where length(passwd)=32, on a server only.
DBpatch_6010000 ==
    /\ RunPatch(6010000)
    /\ passwd' = IF IsServer
                    THEN [u \in Users |-> IF passwd[u] = ZBX_MD5_SIZE THEN 0 ELSE passwd[u]]
                    ELSE passwd
    /\ Commit(6010000)
    /\ UNCHANGED <<schema, rtdata, profiles, triggers, linkType, hstgrpType>>

(* DBadd_field, DBcreate_table, DBadd_foreign_key, DBcreate_index: the    *)
(* statement fails when the object exists or what it needs is missing.    *)
(* DBdrop_field and DBdrop_index fail when the object is gone.            *)
AddSchemaObject(v, obj, needs) ==
    /\ RunPatch(v)
    /\ IF obj \in schema \/ ~(needs \subseteq schema) THEN Fail("schema_error")
       ELSE /\ schema' = schema \cup {obj}
            /\ Commit(v)
            /\ UNCHANGED data

DropSchemaObject(v, obj) ==
    /\ RunPatch(v)
    /\ IF obj \notin schema THEN Fail("schema_error")
       ELSE /\ schema' = schema \ {obj}
            /\ Commit(v)
            /\ UNCHANGED data

DBpatch_6010001 == AddSchemaObject(6010001, "config.vault_provider", {})

\* Mutant: the select misses descriptions of exactly 256 characters.
LongDescriptionOffByOne(len) == len > DESCRIPTION_LEN + 1

\* where ZBX_DB_CHAR_LENGTH(description) > 255
LongDescription(len) == len > DESCRIPTION_LEN

\* Each selected description is cut after zbx_strlen_utf8_nchars(row[1], 255)
\* bytes, i.e. to its first 255 characters, and written back.
DBpatch_6010002 ==
    /\ RunPatch(6010002)
    /\ triggers' = [t \in Triggers |->
                       IF LongDescription(triggers[t]) THEN DESCRIPTION_LEN ELSE triggers[t]]
    /\ Commit(6010002)
    /\ UNCHANGED <<schema, passwd, rtdata, profiles, linkType, hstgrpType>>

\* DBmodify_field_type(triggers, description varchar(255)): the database
\* refuses the new type while a value is longer.
DBpatch_6010003 ==
    /\ RunPatch(6010003)
    /\ IF \E t \in Triggers : triggers[t] > DESCRIPTION_LEN THEN Fail("sql_error")
       ELSE /\ schema' = schema \cup {"triggers.description varchar(255)"}
            /\ Commit(6010003)
            /\ UNCHANGED data

\* DBadd_field of a NOT NULL column with a default: every row of the table
\* gets the default, which rowsUpdated states.
AddColumnWithDefault(v, obj, rowsUpdated) ==
    /\ RunPatch(v)
    /\ IF obj \in schema THEN Fail("schema_error")
       ELSE /\ schema' = schema \cup {obj}
            /\ rowsUpdated
            /\ Commit(v)

\* DBadd_field(hosts_templates, link_type default 0)
DBpatch_6010004 ==
    /\ AddColumnWithDefault(6010004, "hosts_templates.link_type",
           linkType' = [l \in TemplateLinks |-> ZBX_TEMPLATE_LINK_MANUAL])
    /\ UNCHANGED <<passwd, rtdata, profiles, triggers, hstgrpType>>

\* select ht.hosttemplateid ... where ht.hostid=h.hostid and h.flags=4
LldLink(l) == HostFlags[l[1]] = ZBX_FLAG_DISCOVERY_CREATED

DBpatch_6010005 ==
    /\ RunPatch(6010005)
    /\ linkType' = [l \in DOMAIN linkType |->
                       IF LldLink(l) THEN ZBX_TEMPLATE_LINK_LLD ELSE linkType[l]]
    /\ Commit(6010005)
    /\ UNCHANGED <<schema, passwd, rtdata, profiles, triggers, hstgrpType>>

DBpatch_6010021 == AddSchemaObject(6010021, "host_rtdata", {})
DBpatch_6010022 == AddSchemaObject(6010022, "fk host_rtdata_1", {"host_rtdata"})

\* select hostid from hosts where flags!=2 and status in (0,1)
RtdataHosts ==
    {h \in Hosts : HostFlags[h] # ZBX_FLAG_DISCOVERY_PROTOTYPE
                   /\ HostStatus[h] \in {HOST_STATUS_MONITORED, HOST_STATUS_NOT_MONITORED}}

\* One row (hostid, INTERFACE_AVAILABLE_UNKNOWN) per selected host, inserted
\* by zbx_db_insert_execute only when rows were added; a duplicate key fails.
DBpatch_6010023 ==
    /\ RunPatch(6010023)
    /\ IF RtdataHosts \cap DOMAIN rtdata # {} THEN Fail("sql_error")
       ELSE /\ rtdata' = rtdata @@ [h \in RtdataHosts |-> INTERFACE_AVAILABLE_UNKNOWN]
            /\ Commit(6010023)
            /\ UNCHANGED <<passwd, schema, profiles, triggers, linkType, hstgrpType>>

\* update profiles set idx='new' where idx='old'
RenameProfile(ps, r) ==
    {IF p.idx = r[1] THEN [p EXCEPT !.idx = r[2]] ELSE p : p \in ps}

\* Mutant: every action filter row is deleted, not only value_int=-1.
DeletedAuditRowsAll(p) == p.idx = AuditAction

\* delete from profiles where idx='web.auditlog.filter.action' and value_int=-1
DeletedAuditRows(p) == p.idx = AuditAction /\ p.value = -1

DBpatch_6010026 ==
    /\ RunPatch(6010026)
    /\ profiles' = IF IsServer THEN {p \in profiles : ~DeletedAuditRows(p)} ELSE profiles
    /\ Commit(6010026)
    /\ UNCHANGED <<passwd, schema, rtdata, triggers, linkType, hstgrpType>>

DBpatch_6010027 ==
    /\ RunPatch(6010027)
    /\ profiles' = IF IsServer THEN RenameProfile(profiles, <<AuditAction, AuditActions>>)
                              ELSE profiles
    /\ Commit(6010027)
    /\ UNCHANGED <<passwd, schema, rtdata, triggers, linkType, hstgrpType>>

(* 6010028-6010031: the hstgrp schema the split of 6010032 works on.      *)

DBpatch_6010028 == DropSchemaObject(6010028, "hstgrp.internal")

\* DBadd_field(hstgrp, type default 0): every group becomes a host group.
DBpatch_6010029 ==
    /\ AddColumnWithDefault(6010029, "hstgrp.type",
           hstgrpType' = [g \in HstGroups |-> HOSTGROUP_TYPE_HOST])
    /\ UNCHANGED <<passwd, rtdata, profiles, triggers, linkType>>

DBpatch_6010030 == DropSchemaObject(6010030, "hstgrp_1 unique(name)")

\* DBcreate_index(hstgrp, hstgrp_1, "type,name", unique)
TypeNameIndex == "hstgrp_1 unique(type,name)"

DBpatch_6010031 ==
    /\ RunPatch(6010031)
    /\ IF \E i \in schema : i \in {"hstgrp_1 unique(name)", "hstgrp_1 unique(type,name)"}
          THEN Fail("schema_error")
       ELSE /\ schema' = schema \cup {TypeNameIndex}
            /\ Commit(6010031)
            /\ UNCHANGED data

\* The four renames in order; a failed one (goto out) is a StorageFailure.
DBpatch_6010036 ==
    /\ RunPatch(6010036)
    /\ profiles' = IF IsServer THEN FoldLeft(RenameProfile, profiles, Renames6010036)
                              ELSE profiles
    /\ Commit(6010036)
    /\ UNCHANGED <<passwd, schema, rtdata, triggers, linkType, hstgrpType>>

-----------------------------------------------------------------------------

\* A statement fails on the storage side: the patch is rolled back.
StorageFailure ==
    /\ upgrade = "running" /\ dbversion # LastPatch /\ failures < MaxFailures
    /\ upgrade' = "storage_error" /\ failures' = failures + 1
    /\ UNCHANGED <<data, schema, dbversion, profiles0>>

\* The operator starts the server again; the driver resumes after dbversion.
Restart ==
    /\ upgrade # "running"
    /\ upgrade' = "running"
    /\ UNCHANGED <<data, schema, dbversion, failures, profiles0>>

Upgraded == dbversion = LastPatch /\ UNCHANGED vars

\* A 6.0 database: one action filter row at most per user, and any of the
\* four host group list settings.
InitProfiles ==
    {{[userid |-> u, idx |-> AuditAction, value |-> a[u]] : u \in DOMAIN a}
       \cup {[userid |-> k[1], idx |-> OldKeys[k[2]], value |-> k[2]] : k \in keys} :
        a \in UNION {[U -> AuditValues] : U \in SUBSET Users},
        keys \in SUBSET (Users \X DOMAIN OldKeys)}

Init ==
    /\ passwd \in [Users -> PasswdLengths]
    /\ schema = {"hstgrp.internal", "hstgrp_1 unique(name)"}
    /\ rtdata = <<>>
    /\ triggers \in [Triggers -> DescLengths]
    /\ linkType = <<>>
    /\ hstgrpType = <<>>
    /\ profiles \in InitProfiles
    /\ dbversion = PreviousVersion
    /\ upgrade = "running"
    /\ failures = 0
    /\ profiles0 = profiles

Next ==
    \/ DBpatch_6010000 \/ DBpatch_6010001 \/ DBpatch_6010002 \/ DBpatch_6010003
    \/ DBpatch_6010004 \/ DBpatch_6010005
    \/ DBpatch_6010028 \/ DBpatch_6010029 \/ DBpatch_6010030 \/ DBpatch_6010031
    \/ DBpatch_6010021 \/ DBpatch_6010022 \/ DBpatch_6010023
    \/ DBpatch_6010026 \/ DBpatch_6010027 \/ DBpatch_6010036
    \/ PatchElsewhere \/ StorageFailure \/ Restart \/ Upgraded

Spec == Init /\ [][Next]_vars

-----------------------------------------------------------------------------

\* The keys the 6.2 frontend reads the four host group list settings from.
NewKeys == <<"web.hostgroups.sort", "web.hostgroups.sortorder",
             "web.hostgroups.filter_name", "web.hostgroups.filter.active">>

TypeOK ==
    /\ passwd \in [Users -> PasswdLengths]
    /\ schema \subseteq {"host_rtdata", "fk host_rtdata_1", "config.vault_provider",
                         "triggers.description varchar(255)", "hosts_templates.link_type",
                         "hstgrp.internal", "hstgrp.type", "hstgrp_1 unique(name)",
                         "hstgrp_1 unique(type,name)"}
    /\ triggers \in [Triggers -> Nat]
    /\ DOMAIN linkType \subseteq TemplateLinks
    /\ DOMAIN hstgrpType \subseteq HstGroups
    /\ DOMAIN rtdata \subseteq Hosts
    /\ \A p \in profiles :
           /\ p.userid \in Users
           /\ p.idx \in {AuditAction, AuditActions} \cup Range(OldKeys) \cup Range(NewKeys)
    /\ dbversion \in {PreviousVersion} \cup FirstPatch..LastPatch
    /\ upgrade \in {"running", "storage_error", "schema_error", "sql_error"}
    /\ failures \in 0..MaxFailures

\* The values user u holds under key k.
Setting(ps, u, k) == {p.value : p \in {q \in ps : q.userid = u /\ q.idx = k}}

\* The actions the audit log filter lets through.  The 6.0 frontend reads
\* one value, where -1 or no row means any action; the 6.2 frontend reads
\* a list, where an empty one means any action.
AnyAction == AuditValues \ {-1}
AuditFilter60(ps, u) ==
    LET s == Setting(ps, u, AuditAction) IN IF s \subseteq {-1} THEN AnyAction ELSE s
AuditFilter62(ps, u) ==
    LET s == Setting(ps, u, AuditActions) IN IF s = {} THEN AnyAction ELSE s

(***************************************************************************)
(* When a server's upgrade is over, whatever failures and restarts came   *)
(* between 6010026, 6010027 and 6010036, every user reads through the 6.2 *)
(* keys the settings they had under the 6.0 keys: the same audit log      *)
(* action filter, and the same value of each of the four host group list  *)
(* settings; and no row is left under a 6.0 key.                          *)
(***************************************************************************)
ProfilesPreserved ==
    IsServer /\ dbversion = LastPatch =>
        \A u \in Users :
            /\ AuditFilter62(profiles, u) = AuditFilter60(profiles0, u)
            /\ Setting(profiles, u, AuditAction) = {}
            /\ \A i \in DOMAIN OldKeys :
                   /\ Setting(profiles, u, NewKeys[i]) = Setting(profiles0, u, OldKeys[i])
                   /\ Setting(profiles, u, OldKeys[i]) = {}

(***************************************************************************)
(* No patch fails on its own statements, whatever failures and restarts   *)
(* come between them: in particular 6010002 has shortened every           *)
(* description the new varchar(255) of 6010003 could not hold, and every  *)
(* DDL finds what it creates absent and what it drops present.            *)
(***************************************************************************)
DataPatchesNeverFail == upgrade \notin {"schema_error", "sql_error"}

=============================================================================
