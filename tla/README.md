# TLA+ models of the Zabbix 6.2 host group split

The repository holds `src/src/libs/zbxdbupgrade/dbupgrade_6010.c`. This file contains the database patches 6010000–6010036 of the
Zabbix 6.0 → 6.2 upgrade. It also holds a header, `src/include/zbxescalations.h`, that declares two escalation
functions and nothing else. The one part with real algorithmic content is patches 6010032–6010035. They split the single
`hstgrp` table into *host groups* and *template groups*, keep the name-based hierarchy of both, and copy the
access rights of every group that is split or mirrored. That is what these models cover first. They also cover the
batched update loops, the move of the LDAP settings into the new `userdirectory` table (6010006–6010020), and the
smaller data patches on users, `host_rtdata` and profiles.

## Inventory

### Components and their state

| Component (spec §2) | Code | State it reads / writes |
|---|---|---|
| NameHierarchyIndex | `DBpatch_6010034_startfrom` (687–721) and the `names` vectors of 6010034/35 | a vector of names that only grows; two query modes (`CHECK_PARENTS`, `CHECK_CHILDREN_ONLY`) |
| Classifier | macros `DBPATCH_TPLGRP_GROUPIDS`, `DBPATCH_HSTGRP_GROUPIDS`, `DBPATCH_HOSTPROTOTYPE_GROUPIDS` (504–514), the empty-group query (747–752) | `hosts_groups`, `hosts.status`, `group_prototype` (read only) |
| Splitter | `DBpatch_6010032_split_groups` (557–658), `DBpatch_6010033` (668–683) | inserts `hstgrp` rows, moves `hosts_groups` rows, retypes `hstgrp.type`; reserves ids with `DBget_maxid_num` |
| HierarchyResolver | `DBpatch_6010034_update_empty` (723–783), `DBpatch_6010035_create_empty_hostgroups` (793–900) | retypes empty groups in place, inserts host copies of template groups |
| PermissionMirror | rights loops of 6010032 (608–626) and 6010035 (867–884) | reads `rights` rows of the old id, inserts them again for the new id |
| BatchWriter | the loops of 6010002, 6010005, 6010024, 6010025 and 6010032 around `zbx_DBbegin_multiple_update` / `DBexecute_overflowed_sql` / final `DBexecute` (the helpers are outside `src/`) | an SQL buffer flushed past a size threshold; the `out` name buffer of 6010024/25 |
| Upgrade driver | `DBPATCH_START`/`DBPATCH_ADD` (945–985); the driver loop is outside `src/` | `dbversion`; one transaction per patch; a mandatory failure halts the upgrade |
| Schema patches 6010028–31 | 528–548 | drop `hstgrp.internal`, add `type` (default 0), replace the unique index on `name` by one on `(type,name)` |
| LDAP move 6010006–20 | 143–282 | creates `userdirectory` and the reference columns, copies the configured settings to row 1, links `config` to it, drops the six `config.ldap_*` columns |
| Data patches 6010000–05, 21–23, 26, 27, 36 | 33–141, 284–334, 477–502, 910–933 | clear md5 passwords; create and fill `host_rtdata`; delete and rename the audit log filter profile; rename four host group list profiles |
| Other patches 6010024, 25 | 336–475 | per-row rewrites of web item names (in `BatchWriter`) |
| Escalations | `zbxescalations.h` | declarations only |

### How they interact

The driver runs the patches one after another, in version order. Each patch runs in its own transaction, and the
version is recorded when the patch commits. A patch that returns FAIL is rolled back and the upgrade stops at the
last applied version. Restarting the server resumes the upgrade at the next patch. Inside the split, each patch reads
the tables as the previous patch committed them:

1. **6010032** selects the groups that hold templates *and* either hosts or host prototypes. It reserves one new id per
   group in groupid order and inserts a template-typed copy with the same name. It copies the group's `rights` rows to
   the copy and moves the group's *templates* to the copy.
2. **6010033** retypes every group that still holds a template to TEMPLATE.
3. **6010034** collects the template group names. It then scans the groups with no members and no prototype, by name
   length. A group whose name is an ancestor or descendant of a collected name is collected too and retyped to
   TEMPLATE in place.
4. **6010035** collects the host group names. It then scans the template groups by name length. A group whose name is
   not yet collected and is an ancestor of a collected name gets a host copy with a new id and the same rights.

### What is hard here

- **Order-dependence of single passes.** 6010034 and 6010035 make one pass in `order by length(name)` order, and the
  database may return equal lengths in any order. Each group is tested against a vector that the same loop extends.
- **Sequencing across patches.** The prototype alternative of 6010032 must split a group before 6010033 retypes it.
  6010035 copies the rights of groups that 6010032 created. All patches write under a unique index on `(type,name)`
  that exists before any of them runs, and a conflict halts a mandatory patch.
- **Failure and restart.** Any select, insert or execute can fail. The patch is rolled back and the upgrade stops,
  possibly between 6010032 and 6010033. A restart resumes there.
- **String-level hierarchy.** Ancestry is decided by `strncmp` on `name + "/"`, not by segments.
- **Batching.** Updates are flushed in chunks; the final execute of 6010032 is not guarded, and after a flush the buffer still holds the flushed text.

### What makes each component correct

- NameHierarchyIndex: both query modes answer the segment contract of spec §4.1.
- Classifier and Splitter: afterwards templates are only in template groups and hosts only in host groups. A group
  used by host prototypes stays a host group.
- HierarchyResolver: every ancestor of a host group exists as a host group. The placement of empty groups is the
  fixpoint of the "ancestor or descendant" relation. Spec invariant 2 asks the same closure for template groups.
- PermissionMirror: every group carries exactly the grants of the original group of the same name.
- All patches: no write breaks the `(type,name)` index.

## Modules

| Module | Models | Notes |
|---|---|---|
| `NameHierarchy.tla` | `DBpatch_6010034_startfrom` and the growing `names` vector | A name is a sequence of one-character strings, so the test is modelled by what it does: compare lengths, append `"/"`, compare a prefix. `SpecStartFrom` is the contract of §4.1, written from the spec. |
| `GroupSplit.tla` | patches 6010032–6010035 and the driver | One action per patch (`DBpatch_60100xx`), plus `StorageFailure`, `Restart` and `Upgraded`. Instantiates `NameHierarchy` for `StartFrom`. |
| `MCNameHierarchy.tla` | model values for the name index | names of 1–3 characters over `a`, `b`, `/` |
| `GroupNamespaces.tla` | the promise of the split, per logical group (a name) | One step, `Migrate`, places every name in the host namespace, the template namespace or both (`Placed`). Members, prototype names and grants by name stay unchanged. Written from spec §4.2–4.4 and §8.2; host-namespace closure only (see `template_tree`). |
| `BatchWriter.tla` | the batched update loops and the SQL buffer | `FetchRow` is one loop iteration: render, `zbx_snprintf_alloc`, `DBexecute_overflowed_sql`. `FinalFlush` is the final guarded or unguarded `DBexecute`. `sql` is the string `DBexecute("%s", sql)` reads, as a sequence of statements; `sql_offset` counts the statements since the last reset. |
| `LdapMove.tla` | patches 6010006–6010020 and the driver | One action per patch. `config` is the config row as a map from column to value, so a dropped column leaves its domain. `userdirectory` maps ids to rows. `schema` holds the other objects created. `DDLCommit` is the commit of a DDL patch; without transactional DDL it may instead crash after the statement and before the version update. |
| `DataPatches.tla` | 6010000–05, 6010021–23, 6010026/27, 6010028–31, 6010036 and the driver over 6010000–6010036 | One action per patch. `PatchElsewhere` is any patch of the range that touches none of these tables (the LDAP move, 6010024/25, the split): it only advances the version. |
| `MCGroupSplit.tla` | model values for the split | 3 groups, names from `{a, b, a/b, a/c, a/b/c}`, one host and one template, one distinct grant per group |
| `MCBatchWriter.tla` | model values for the loops | the type values each web item table holds; the guarded patches and 6010032 |
| `MCDataPatches.tla` | model values for the data patches | one host of each kind the select tells apart (plain, prototype, discovered, template, proxy); audit values -1, 0 and 3 |
| `MCLdapMove.tla` | model values for the LDAP move | a plain host name, and a host name with a single quote |

How `GroupSplit` corresponds to the code:

- Tables are variables. `hstgrp` is a function groupid → `[name, type]`. `hostsGroups` is a set of `<<hostid, groupid>>`.
  `groupPrototype` is a set of groupids. `rights` is a set of `<<user group, permission, id>>`. `nextid` is the next
  id `DBget_maxid_num` hands out. The `uuid` column travels with the name and is left out. The autoincrement `rightid`
  is left out too.
- Each patch action computes the new tables in one step. This is sound because the driver runs it in one transaction.
  Its guard is the version gate (`RunPatch`). The `program_type` check is `IsServer`. The "nothing selected" exits are
  `Skip`.
- A write that breaks the `(type,name)` index makes `Commit` take its failure branch. Nothing changes and
  `upgrade = "unique_conflict"`.
- The `order by length(name)` scans are `\E rows \in ByLength(S)`, which covers every tie order. The loop bodies are
  `UpdateEmptyStep` and `CreateEmptyStep`, folded with `FoldLeft`.
- The left joins in the 6010035 query repeat a template group once per member. A repeated row has the same name
  length as the first, so any rows between the two copies have that same length too. Names added in between are
  therefore unrelated to it (`startfrom` skips equal lengths), and the name search skips the repeat. The model scans
  each group once.
- Patches 6010028–31 are folded into `Init`: a database at version 6010031, every type 0, names unique under the old
  index. `DataPatches` runs those four patches as steps, under `DataPatchesNeverFail`.

How `BatchWriter` corresponds to the code:

- The buffer helpers belong to the database layer, which is not in this repository. They are modelled for the MySQL/PostgreSQL
  build, where `zbx_DBbegin_multiple_update` and `zbx_DBend_multiple_update` write nothing. There,
  `DBexecute_overflowed_sql` executes the buffer once `sql_offset` passes `ZBX_MAX_OVERFLOW_SQL_SIZE` and then only
  sets `sql_offset = 0`. The text stays in the buffer until the next `zbx_snprintf_alloc` writes over it and
  terminates it.
- Sizes are counted in statements. Every update statement is longer than 16 bytes, so `16 < sql_offset` is
  `sql_offset > 0`.
- A statement is `<<row, name>>`. In 6010024/25 the name is whatever `out` holds after the `switch`. A case label
  writes a text built from the row's own type and scenario; any other type leaves the previous text.
- Any `DBexecute` may fail. A failure ends the loop (`goto out`, or the `while (SUCCEED == ret ...)` condition)
  and skips the final execute.

How `LdapMove` corresponds to the code:

- Patches 6010006–12 and 15–20 are one call each into the schema helpers (`DBcreate_table`, `DBadd_field`,
  `DBadd_foreign_key`, `DBcreate_index`, `DBdrop_field`). Those helpers are outside `src/` and are modelled by what the
  database does with the statement (`AddObject`, `AddConfigField`, `DropConfigField`). The statement fails if the
  object already exists or is already gone, or if what it refers to is missing. Adding `fk config_3` fails if
  `config` names a missing row.
- 6010013 is the select where `ldap_configured=1`, then one insert of row 1 (`DirectoryRow`). The four escaped columns
  are kept as values. The host is printed unescaped between quotes, so a host in `Quoted` turns the insert into an SQL
  error. A failed select is `StorageFailure`.
- 6010014 sets `ldap_userdirectoryid = 1` in the configured row. The foreign key, once added, makes it fail if no row
  1 exists.
- `settings` is a history variable: the LDAP settings before the upgrade, which `LdapSettingsNeverLost` compares with
  what can still be read.
- The constant columns of the insert (`name`, `description`, `start_tls`) are left out. No property reads them.

How `DataPatches` corresponds to the code:

- Each patch is one statement, or one DDL helper call, inside the driver's transaction, so it is one action. The
  `program_type` checks of 6010000, 6010026, 6010027 and 6010036 are `IsServer`.
- 6010023 is the select with `flags!=2 and status in (0,1)` (`RtdataHosts`) followed by one `zbx_db_insert_execute`
  of all the rows. It runs only when rows were added.
- 6010036 is the four `RENAME_PROFILE` statements, folded in their order. A failed one jumps to `out`, the patch
  returns FAIL, and the whole patch is rolled back (`StorageFailure`).
- The audit log filter is compared as the set of actions it lets through. The 6.0 frontend reads one value, where -1
  or no row means any action. The 6.2 frontend reads a list, where an empty list means any action.
- A trigger description is its length in characters (`triggers`). 6010002 selects `CHAR_LENGTH(description) > 255`
  (`LongDescription`) and cuts each selected value to its first 255 characters. 6010003 changes the column to
  varchar(255); the database refuses that while a longer value remains (`sql_error`).
- 6010004 and 6010029 add a NOT NULL column with default 0 (`AddColumnWithDefault`): every existing row gets 0.
  6010005 sets `link_type = 1` on the links whose host has `flags = 4` (`LldLink`). A link is `<<hostid, templateid>>`.
- 6010028 and 6010030 drop `hstgrp.internal` and the index `hstgrp_1` on `name` (`DropSchemaObject`, which fails if the
  object is gone). 6010031 creates `hstgrp_1` again on `(type,name)` (`TypeNameIndex`). The state these leave is the
  one `GroupSplit`'s `Init` starts from.

The refinement: `GroupSplit` instantiates `GroupNamespaces` with these substitutions.

| Abstract variable | Concrete expression |
|---|---|
| `placement` | until `dbversion = 6010035`, `{HOST}` for every name; from then on, the set of types of the groupids with that name (`PlacementByName`) |
| `members` | `hosts_groups` with groupids replaced by names |
| `protoNames` | the names of the prototype groups |
| `grants` | the grants that every groupid of a name carries (`GrantsByName`) |
| `migrated` | `dbversion = 6010035` |

Every step before the last commit must leave the mapped state unchanged. The commit of 6010035 must be a `Migrate`
step.

## Runs

| Run | Config | Expect | What it shows |
|---|---|---|---|
| `name_index` | `MCNameHierarchy.cfg` | pass | `StartFromMatchesSpec`: for every vector of ≤3 well-formed names (no leading, trailing or doubled `/`) and every query name and mode, the string test equals the segment contract (988 states). |
| `split` | `MCGroupSplit.cfg` | pass | `NoUniqueConflict`, `PrototypeGroupsAreHostGroups`, `NamespaceMatchesMembers`, `GrantsFollowOrigin` and `TypeOK`, checked over all 30720 starting databases, with one storage failure and restart anywhere (430080 states, about 40 s). Also `HostHierarchyClosed` and `FolderPlacementIsClosure`: the single length-ordered pass equals the recursive fixpoint `FolderClosure`, in every tie order. |
| `split_refines` | `MCGroupSplitRefines.cfg` | pass | `RefinesGroupNamespaces`: the four patches, with failures and restarts, implement `GroupNamespaces!Spec` (430080 states, about 50 s). No step changes the members or prototypes of a name or the grants on all its groupids. The committed placement satisfies `Placed`. |
| `batch_loops` | `MCBatchWriter.cfg` | pass | For the guarded loops of 6010002/5/24/25 (up to 5 rows, a flush after every 2 statements, any execute may fail): `ExecutedOnceInOrder` (every fetched row's update runs exactly once, in fetch order). |
| `batch_split_final` | `MCBatchWriterSplit.cfg` | violation | `ExecutedOnceInOrder` fails for 6010032. When the last update triggers the overflow flush, the unguarded final `DBexecute` at line 649 runs the flushed text again. The updates are idempotent, so the tables end the same, but the batch is sent twice. Spec §4.6 says a flush clears the buffer. |
| `ldap_move` | `MCLdapMove.cfg` | pass | `PatchesNeverFail` and `LdapSettingsNeverLost` with transactional DDL, up to 3 storage failures and restarts anywhere, LDAP configured or not (218 states). No DDL meets a schema it does not expect. In every state a configured server's settings can be read from `config` or from the row `config` refers to. |
| `ldap_mysql_ddl_crash` | `MCLdapMoveMySQL.cfg` | violation | `PatchesNeverFail` with DDL that commits at once (MySQL). A crash after `DBcreate_table` of 6010006 and before the version update makes every re-run fail with "table exists". Spec §5 expects each step to be all-or-nothing. |
| `ldap_quoted_host` | `MCLdapMoveQuoted.cfg` | violation | `PatchesNeverFail`: a host such as `o'hara.example.com` breaks the insert of 6010013, because `row[0]` is not passed through `DBdyn_escape_string` as the four values after it are. |
| `data_patches` | `MCDataPatches.cfg` | pass | Over the whole driver sequence 6010000–6010036, with a storage failure and restart before any patch (17344 states, about 6 s). `DataPatchesNeverFail`: no patch fails on its own statements; in particular 6010002 leaves no description that the varchar(255) of 6010003 refuses, and every DDL of 6010001–04 and 6010021–31 finds its object absent or present as it needs. `ProfilesPreserved`: each user's audit log filter and host group list settings read the same through the 6.2 keys. |
| `template_tree` | `MCGroupSplitTemplateTree.cfg` | violation | `TemplateHierarchyClosed` (spec invariant 2) fails. Group `a` holds a host prototype and group `a/b` holds a template. After the upgrade `a/b` is a template group and there is no template group `a`. |

Every property of a passing run has a mutant in `PROJECT.json`: a plausible bug in the mapped definition that TLC
catches under the same config. Examples: dropping the prototype alternative of the split selection, copying rights
onto the old id, not appending a resolved folder to `names`, dropping the name search of 6010035, and typing the copy
with the host status macro.

### Bounds and why they are enough

- Three groups suffice for every pattern the properties need:
  - a split pair plus a child (index conflict, rights of a copy);
  - a template, an empty ancestor and an empty sibling folder (the chain 6010034 must follow);
  - a prototype group above a template group (the template gap).
- Names have three path levels and two groups of equal length, `a/b` and `a/c`, so tie orders occur.
- One host and one template are all the code tells apart: it only tests `status = 3`.
- A single grant per group, distinct per group, exposes any copy from the wrong source.
- One storage failure lets the upgrade stop and resume between any two patches.
- For the data patches, one user with no filter row, -1, or a single action, and any subset of the four list
  settings, covers every row the delete and the renames treat differently. Five hosts cover every branch of the
  `host_rtdata` select. One trigger with a description of 255, 256 or 300 characters covers both sides of the
  threshold and the first length past it. Template links to a plain host, a prototype and a discovered host cover
  every value of `flags` the select tells apart. Two host groups show the default applies to every row.
- For the LDAP move, one configured and one unconfigured row cover both branches of the select. Three failures let the
  upgrade stop at three different patches of the fifteen. One crash is enough to reach the re-run of a DDL patch.

### Fairness and liveness

No run states liveness. The patches are finite loops over select results, and whether the upgrade moves from one
patch to the next is decided by the driver (`DBcheck_version`), which is outside `src/`: in the models it records the
version of every committed patch by construction, so a progress property would check the model, not the code.

## Not modelled, and why

- Unchecked `DBselect` results (every select but 6010013's). A failed select ends the loop as if no row matched. The
  models take the database layer to turn the failed statement into a rolled-back patch (`StorageFailure`). That layer
  is outside `src/`.
- The bytes of a trigger description. 6010002 cuts at a character boundary with `zbx_strlen_utf8_nchars`;
  whatever `DBdyn_escape_field` (outside `src/`) does on top, the stored value has at most 255 characters, which is all
  the model keeps.
- Non-transactional DDL is modelled only in `LdapMove`. The same crash window exists for every DDL patch of
  `DataPatches` (6010001, 6010003, 6010004, 6010021/22, 6010028–31); it is the same finding and is not repeated.
- Disabled LDAP settings (`ldap_configured=0`) are not copied by 6010013 and are dropped with the columns. The code
  does this deliberately, and nothing says they must survive, so `LdapSettingsNeverLost` covers configured servers only.
- The Oracle build of the buffer helpers (`begin`/`end;` wrapper, `ZBX_SQL_EXEC_FROM`) is not modelled. In
  `GroupSplit` the buffer is abstracted into the patch's atomic commit. `BatchWriter` models it on its own.
- Web item rows whose type is not one the frontend writes (corrupt data) are not enumerated. For them the code
  would reuse the previous row's name.
- `uuid` and `rightid` values; `zbxescalations.h` (no implementation).

## Plan

1. *(done)* `NameHierarchy`: the string test against the contract.
2. *(done)* `GroupSplit`: patches 6010032–35 with the driver's transaction, failure and restart; safety properties of
   the split, the rights copy and both hierarchies.
3. *(done)* `BatchWriter`: the buffer and the five loops; the 6010032 final execute is a violation run.
4. *(done)* `GroupNamespaces` and the refinement, for the host namespace. §4.4's template closure stays the
   `template_tree` violation.
5. Liveness: left out, since progress between patches rests on the driver outside `src/` (see above).
6. Larger configurations (4 groups, 2 templates), using symmetry on hosts of equal status. Four groups multiply the
   30720 starting databases of the split by far more than the 5-minute budget allows.
7. *(done)* The schema patches 6010028–31 as steps (in `DataPatches`), checked against the state `GroupSplit` starts from.
8. Per-row membership in the abstract spec (each member in a group of its own namespace), to fold
   `NamespaceMatchesMembers` into the refinement.
9. *(done)* `LdapMove`: the LDAP move 6010006–20, with the MySQL DDL crash and the unescaped host as violation runs.
10. *(done)* `DataPatches`: 6010000–05, 6010021–23, 6010026–31 and 6010036 over the whole driver sequence.
11. One driver module composing all patch modules over 6010000–6010036, with non-transactional DDL throughout.
