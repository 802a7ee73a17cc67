---------------------------- MODULE BatchWriter ----------------------------
(***************************************************************************)
(* The batched update loops of dbupgrade_6010.c: 6010002 (truncate trigger *)
(* descriptions), 6010005 (link_type of discovered hosts), 6010024 and     *)
(* 6010025 (rename web scenario items) and the hosts_groups loop of        *)
(* 6010032.  Each selects rows, appends one update statement per row to    *)
(* the buffer `sql` with zbx_snprintf_alloc, calls                         *)
(* DBexecute_overflowed_sql after every row, and executes the rest of the  *)
(* buffer at the end.                                                       *)
(*                                                                         *)
(* The buffer helpers live outside src/.  They are modelled for the        *)
(* MySQL/PostgreSQL build, where zbx_DBbegin_multiple_update and           *)
(* zbx_DBend_multiple_update write nothing, and an overflow flush executes *)
(* the buffer and then only resets sql_offset to 0: the text stays in the  *)
(* buffer until the next zbx_snprintf_alloc overwrites it.  `sql` is the   *)
(* NUL-terminated string DBexecute("%s", sql) reads, as a sequence of      *)
(* statements; `sql_offset` counts the statements before the offset.       *)
(***************************************************************************)
EXTENDS Naturals, Sequences, SequencesExt

CONSTANTS
    Patches,                    \* the patches whose loop is checked
    RowTypes(_),                \* the type values the patch's table can hold
    MaxRows,                    \* bound on the rows the select returns
    ZBX_MAX_OVERFLOW_SQL_SIZE,  \* flush threshold, measured in statements
    NULL                        \* `out` before the first zbx_snprintf_alloc

VARIABLES
    patch,      \* the patch whose loop runs
    rows,       \* the type column of the selected rows, in fetch order
    fetched,    \* rows fetched so far
    out,        \* the item name buffer of 6010024/25, reused across rows
    sql,        \* the statement string in the buffer
    sql_offset, \* statements written since the last reset
    executed,   \* the strings DBexecute ran successfully, in order
    ret,        \* SUCCEED or FAIL
    done        \* the loop and the final execute are over

vars == <<patch, rows, fetched, out, sql, sql_offset, executed, ret, done>>

SUCCEED == 0
FAIL == -1

HTTPSTEP_ITEM_TYPE_RSPCODE == 0
HTTPSTEP_ITEM_TYPE_TIME == 1
HTTPSTEP_ITEM_TYPE_IN == 2
HTTPSTEP_ITEM_TYPE_LASTSTEP == 3
HTTPSTEP_ITEM_TYPE_LASTERROR == 4

WebItemPatches == {6010024, 6010025}

\* The select of 6010032 is never empty here: the patch returns before the
\* loop when no group is split.
MinRows(p) == IF p = 6010032 THEN 1 ELSE 0

(* The case labels of the switch that writes `out` in each renaming patch. *)
Cases6010024 ==
    {HTTPSTEP_ITEM_TYPE_IN, HTTPSTEP_ITEM_TYPE_LASTSTEP, HTTPSTEP_ITEM_TYPE_LASTERROR}
Cases6010025 ==
    {HTTPSTEP_ITEM_TYPE_IN, HTTPSTEP_ITEM_TYPE_TIME, HTTPSTEP_ITEM_TYPE_RSPCODE}

(* The new item name of row r: a text built from the row's type and      *)
(* scenario, or, for a type no case handles, what `out` already held.     *)
RenderName(p, type, r, o) ==
    IF type \in (IF p = 6010024 THEN Cases6010024 ELSE Cases6010025)
        THEN <<type, r>>
        ELSE o

(* zbx_snprintf_alloc at sql_offset: the text after the offset is         *)
(* replaced by the new statement and its terminating NUL.                 *)
SnprintfAlloc(s, off, stmt) == SubSeq(s, 1, off) \o <<stmt>>

(* One DBexecute of string s; the storage may fail it.                    *)
Execute(s) ==
    \E ok \in BOOLEAN :
        /\ executed' = IF ok THEN Append(executed, s) ELSE executed
        /\ ret' = IF ok THEN SUCCEED ELSE FAIL

DBexecute_overflowed_sql_NoReset(s, off) ==
    /\ sql' = s /\ sql_offset' = off
    /\ IF off > ZBX_MAX_OVERFLOW_SQL_SIZE THEN Execute(s)
                                         ELSE UNCHANGED <<executed, ret>>

(* DBexecute_overflowed_sql after the statement is written: past the     *)
(* threshold the buffer is executed and sql_offset reset to 0.            *)
DBexecute_overflowed_sql(s, off) ==
    /\ sql' = s
    /\ IF off > ZBX_MAX_OVERFLOW_SQL_SIZE
          THEN Execute(s) /\ sql_offset' = 0
          ELSE sql_offset' = off /\ UNCHANGED <<executed, ret>>

(* "16 < sql_offset": every update statement is longer than 16 bytes, so  *)
(* this holds exactly when a statement was written since the last reset.  *)
FinalGuardDropped(p, off) == TRUE
FinalGuard(p, off) == p = 6010032 \/ off > 0

(* The loop body for one fetched row; a failed flush ends the loop        *)
(* (goto out in 6010002/5/32, the while condition in 6010024/25).         *)
FetchRow ==
    /\ ~done /\ ret = SUCCEED /\ fetched < Len(rows)
    /\ LET r == fetched + 1
           o == IF patch \in WebItemPatches
                   THEN RenderName(patch, rows[r], r, out) ELSE out
           stmt == <<r, IF patch \in WebItemPatches THEN o ELSE r>>
       IN /\ fetched' = r
          /\ out' = o
          /\ DBexecute_overflowed_sql(SnprintfAlloc(sql, sql_offset, stmt),
                                      sql_offset + 1)
    /\ done' = (ret' = FAIL)
    /\ UNCHANGED <<patch, rows>>

(* After the last row: zbx_DBend_multiple_update, then the final          *)
(* DBexecute of the whole buffer string when the guard allows it.         *)
FinalFlush ==
    /\ ~done /\ ret = SUCCEED /\ fetched = Len(rows)
    /\ IF FinalGuard(patch, sql_offset)
          THEN Execute(sql)
          ELSE UNCHANGED <<executed, ret>>
    /\ done' = TRUE
    /\ UNCHANGED <<patch, rows, fetched, out, sql, sql_offset>>

(* The patch has returned.                                                *)
Returned == done /\ UNCHANGED vars

Init ==
    /\ patch \in Patches
    /\ rows \in UNION {[1..n -> RowTypes(patch)] : n \in MinRows(patch)..MaxRows}
    /\ fetched = 0
    /\ out = NULL
    /\ sql = <<>>
    /\ sql_offset = 0
    /\ executed = <<>>
    /\ ret = SUCCEED
    /\ done = FALSE

Next == FetchRow \/ FinalFlush \/ Returned

Spec == Init /\ [][Next]_vars

-----------------------------------------------------------------------------

TypeOK ==
    /\ fetched \in 0..Len(rows)
    /\ sql_offset \in 0..ZBX_MAX_OVERFLOW_SQL_SIZE
    /\ sql_offset <= Len(sql)
    /\ ret \in {SUCCEED, FAIL}
    /\ ret = FAIL => done

\* The row ids of the statements executed, in execution order.
ExecutedRows ==
    LET flat == FlattenSeq(executed) IN [k \in 1..Len(flat) |-> flat[k][1]]

(* Every fetched row's update is executed exactly once and in fetch order *)
(* by the overflow flushes and the final DBexecute: at any time the       *)
(* executed statements are a prefix of the fetched rows, and when the     *)
(* patch returns SUCCEED they are all of them (spec 4.6: a flush executes *)
(* and then clears the buffer).                                           *)
ExecutedOnceInOrder ==
    /\ IsPrefix(ExecutedRows, [k \in 1..fetched |-> k])
    /\ done /\ ret = SUCCEED => ExecutedRows = [k \in 1..Len(rows) |-> k]

=============================================================================
