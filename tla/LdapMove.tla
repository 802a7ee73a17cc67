------------------------------ MODULE LdapMove ------------------------------
(***************************************************************************)
(* Patches 6010006-6010020 of dbupgrade_6010.c: the LDAP settings of the  *)
(* single config row move into the new table userdirectory.  6010006-12   *)
(* create the table, the reference columns, their foreign keys and        *)
(* indexes; 6010013 copies the settings into userdirectory row 1;         *)
(* 6010014 points config at that row; 6010015-20 drop the old columns.    *)
(*                                                                         *)
(* config is the config row as a function from its columns to values, so *)
(* a dropped column leaves the domain.  schema holds the other objects    *)
(* the patches create.  The driver runs one patch per transaction and     *)
(* records the version with it.  Where DDL is not transactional (MySQL),  *)
(* a DDL statement commits at once: a crash after it and before the       *)
(* version is recorded keeps the change, and the patch runs again on      *)
(* restart.                                                               *)
(***************************************************************************)
EXTENDS Naturals, FiniteSets, TLC

CONSTANTS
    LdapHosts,        \* values config.ldap_host may hold
    Quoted,           \* those containing a single quote
    DDLTransactional, \* DDL is rolled back with the transaction
    MaxFailures,      \* bound on crashes and storage failures
    NULL

VARIABLES
    config,         \* column -> value of the config row
    userdirectory,  \* userdirectoryid -> row
    schema,         \* tables, columns of usrgrp, keys and indexes created
    dbversion, upgrade, failures,
    settings        \* history: the LDAP settings config held before the upgrade

vars == <<config, userdirectory, schema, dbversion, upgrade, failures, settings>>

FirstPatch == 6010006
LastPatch == 6010020

LdapColumns == {"ldap_host", "ldap_port", "ldap_base_dn", "ldap_bind_dn",
                "ldap_bind_password", "ldap_search_attribute"}

\* The userdirectory column each LDAP setting of config moves to.
DirectoryColumn ==
    [ldap_host |-> "host", ldap_port |-> "port", ldap_base_dn |-> "base_dn",
     ldap_bind_dn |-> "bind_dn", ldap_bind_password |-> "bind_password",
     ldap_search_attribute |-> "search_attribute"]

Errors == {"schema_error", "sql_error", "fk_error"}

\* fk config_3: a non-NULL ldap_userdirectoryid names a userdirectory row.
ForeignKeyHolds(c, u) ==
    "ldap_userdirectoryid" \in DOMAIN c =>
        c.ldap_userdirectoryid \in {NULL} \cup DOMAIN u

(* The driver.                                                             *)

RunPatch(v) == upgrade = "running" /\ dbversion = v - 1

Fail(why) ==
    /\ upgrade' = why
    /\ UNCHANGED <<config, userdirectory, schema, dbversion, failures, settings>>

Commit(v, c2, u2, s2) ==
    /\ config' = c2 /\ userdirectory' = u2 /\ schema' = s2
    /\ dbversion' = v
    /\ UNCHANGED <<upgrade, failures, settings>>

\* A DDL patch commits with its version, or, without transactional DDL,
\* the server may crash after the statement and before the version update.
DDLCommit(v, c2, u2, s2) ==
    \/ Commit(v, c2, u2, s2)
    \/ /\ ~DDLTransactional /\ failures < MaxFailures
       /\ config' = c2 /\ userdirectory' = u2 /\ schema' = s2
       /\ upgrade' = "crashed" /\ failures' = failures + 1
       /\ UNCHANGED <<dbversion, settings>>

(* DBadd_field, DBadd_foreign_key, DBcreate_index, DBcreate_table and     *)
(* DBdrop_field: the statement fails when the object exists already (or, *)
(* for a drop, is gone), or when what it refers to is missing.           *)

AddConfigField(v, col) ==
    /\ RunPatch(v)
    /\ IF col \in DOMAIN config THEN Fail("schema_error")
       ELSE DDLCommit(v, config @@ (col :> NULL), userdirectory, schema)

AddObject(v, obj, needs) ==
    /\ RunPatch(v)
    /\ IF obj \in schema \/ ~(needs \subseteq schema \cup DOMAIN config)
          THEN Fail("schema_error")
       ELSE IF obj = "fk config_3" /\ ~ForeignKeyHolds(config, userdirectory)
          THEN Fail("fk_error")
       ELSE DDLCommit(v, config, userdirectory, schema \cup {obj})

DropConfigField(v, col) ==
    /\ RunPatch(v)
    /\ IF col \notin DOMAIN config THEN Fail("schema_error")
       ELSE DDLCommit(v, [k \in DOMAIN config \ {col} |-> config[k]],
                      userdirectory, schema)

DBpatch_6010006 == AddObject(6010006, "userdirectory", {})
DBpatch_6010007 == AddConfigField(6010007, "ldap_userdirectoryid")
DBpatch_6010008 == AddObject(6010008, "fk config_3", {"userdirectory", "ldap_userdirectoryid"})
DBpatch_6010009 == AddObject(6010009, "config_3", {"ldap_userdirectoryid"})
DBpatch_6010010 == AddObject(6010010, "usrgrp.userdirectoryid", {})
DBpatch_6010011 == AddObject(6010011, "fk usrgrp_2", {"userdirectory", "usrgrp.userdirectoryid"})
DBpatch_6010012 == AddObject(6010012, "usrgrp_2", {"usrgrp.userdirectoryid"})

(* 6010013: the values of the insert; row[2]..row[5] pass through         *)
(* DBdyn_escape_string, ldap_host (row[0]) and ldap_port (row[1]) are     *)
(* printed into the statement as they are.                                *)
DirectoryRowNoSearchAttribute(c) ==
    [host |-> c.ldap_host, port |-> c.ldap_port, base_dn |-> c.ldap_base_dn,
     bind_dn |-> c.ldap_bind_dn, bind_password |-> c.ldap_bind_password]
DirectoryRowSwappedDn(c) ==
    [host |-> c.ldap_host, port |-> c.ldap_port, base_dn |-> c.ldap_bind_dn,
     bind_dn |-> c.ldap_base_dn, bind_password |-> c.ldap_bind_password,
     search_attribute |-> c.ldap_search_attribute]
DirectoryRow(c) ==
    [host |-> c.ldap_host, port |-> c.ldap_port, base_dn |-> c.ldap_base_dn,
     bind_dn |-> c.ldap_bind_dn, bind_password |-> c.ldap_bind_password,
     search_attribute |-> c.ldap_search_attribute]

\* The userdirectoryid the insert of 6010013 uses.
DefaultDirectoryId == 1

\* Select the settings where ldap_configured=1 and insert them as row 1; a
\* quote in the unescaped host breaks the statement.
DBpatch_6010013 ==
    /\ RunPatch(6010013)
    /\ IF config.ldap_configured # 1
          THEN Commit(6010013, config, userdirectory, schema)
       ELSE IF config.ldap_host \in Quoted THEN Fail("sql_error")
       ELSE Commit(6010013, config,
                   userdirectory @@ (DefaultDirectoryId :> DirectoryRow(config)), schema)

\* The userdirectoryid the update of 6010014 sets.
ConfigDirectoryIdOff == 2
ConfigDirectoryId == 1

\* update config set ldap_userdirectoryid=1 where ldap_configured=1
DBpatch_6010014 ==
    /\ RunPatch(6010014)
    /\ LET c2 == IF config.ldap_configured = 1
                    THEN [config EXCEPT !.ldap_userdirectoryid = ConfigDirectoryId]
                    ELSE config
       IN IF "fk config_3" \in schema /\ ~ForeignKeyHolds(c2, userdirectory)
             THEN Fail("fk_error")
             ELSE Commit(6010014, c2, userdirectory, schema)

DBpatch_6010015 == DropConfigField(6010015, "ldap_host")
DBpatch_6010016 == DropConfigField(6010016, "ldap_port")
DBpatch_6010017 == DropConfigField(6010017, "ldap_base_dn")
DBpatch_6010018 == DropConfigField(6010018, "ldap_bind_dn")
DBpatch_6010019 == DropConfigField(6010019, "ldap_bind_password")
DBpatch_6010020 == DropConfigField(6010020, "ldap_search_attribute")

\* A select or statement fails on the storage side: the patch is rolled back.
StorageFailure ==
    /\ upgrade = "running" /\ dbversion < LastPatch /\ failures < MaxFailures
    /\ upgrade' = "storage_error" /\ failures' = failures + 1
    /\ UNCHANGED <<config, userdirectory, schema, dbversion, settings>>

\* The operator starts the server again; the driver resumes after dbversion.
Restart ==
    /\ upgrade # "running"
    /\ upgrade' = "running"
    /\ UNCHANGED <<config, userdirectory, schema, dbversion, failures, settings>>

Upgraded == dbversion = LastPatch /\ UNCHANGED vars

Init ==
    /\ \E configured \in {0, 1}, host \in LdapHosts :
           config = [ldap_configured |-> configured, ldap_host |-> host,
                     ldap_port |-> 389, ldap_base_dn |-> "dc=example,dc=com",
                     ldap_bind_dn |-> "cn=zabbix", ldap_bind_password |-> "secret",
                     ldap_search_attribute |-> "uid"]
    /\ userdirectory = <<>>
    /\ schema = {}
    /\ dbversion = FirstPatch - 1
    /\ upgrade = "running"
    /\ failures = 0
    /\ settings = [c \in LdapColumns |-> config[c]]

Next ==
    \/ DBpatch_6010006 \/ DBpatch_6010007 \/ DBpatch_6010008 \/ DBpatch_6010009
    \/ DBpatch_6010010 \/ DBpatch_6010011 \/ DBpatch_6010012
    \/ DBpatch_6010013 \/ DBpatch_6010014
    \/ DBpatch_6010015 \/ DBpatch_6010016 \/ DBpatch_6010017
    \/ DBpatch_6010018 \/ DBpatch_6010019 \/ DBpatch_6010020
    \/ StorageFailure \/ Restart \/ Upgraded

Spec == Init /\ [][Next]_vars

-----------------------------------------------------------------------------

TypeOK ==
    /\ DOMAIN config \subseteq LdapColumns \cup {"ldap_configured", "ldap_userdirectoryid"}
    /\ \A c \in DOMAIN config \cap LdapColumns : config[c] = settings[c]
    /\ DOMAIN userdirectory \subseteq {DefaultDirectoryId}
    /\ \A d \in DOMAIN userdirectory :
           /\ DOMAIN userdirectory[d] = {DirectoryColumn[c] : c \in LdapColumns}
           /\ userdirectory[d].host \in LdapHosts
           /\ userdirectory[d].port \in Nat
           /\ \A f \in {"base_dn", "bind_dn", "bind_password", "search_attribute"} :
                  userdirectory[d][f] \in STRING
    /\ dbversion \in (FirstPatch - 1)..LastPatch
    /\ upgrade \in {"running", "storage_error", "crashed"} \cup Errors
    /\ failures \in 0..MaxFailures

(***************************************************************************)
(* No patch of the LDAP move fails on its own statements: every DDL finds *)
(* what it creates absent and what it refers to present, the foreign key  *)
(* of config holds when 6010008 adds it and when 6010014 sets the         *)
(* reference, and the insert of 6010013 is valid SQL.  A failed mandatory *)
(* patch would stop the upgrade for good, since a restart repeats it.     *)
(***************************************************************************)
PatchesNeverFail == upgrade \notin Errors

\* The configured server's setting c, read the way the code of that version
\* reads it: from the config column while it exists, else through the reference.
Readable(c) ==
    \/ c \in DOMAIN config /\ config[c] = settings[c]
    \/ /\ "ldap_userdirectoryid" \in DOMAIN config
       /\ config.ldap_userdirectoryid \in DOMAIN userdirectory
       /\ userdirectory[config.ldap_userdirectoryid][DirectoryColumn[c]] = settings[c]

(***************************************************************************)
(* In every state, with any failure and restart between the patches, each *)
(* setting of a configured LDAP server can still be read: from its config *)
(* column or from the userdirectory row config refers to.  A column is    *)
(* dropped only after 6010013 copied it and 6010014 linked the copy.      *)
(***************************************************************************)
LdapSettingsNeverLost ==
    config.ldap_configured = 1 => \A c \in LdapColumns : Readable(c)

=============================================================================
