--------------------------- MODULE MCBatchWriter ---------------------------
EXTENDS BatchWriter

\* The type values the frontend writes into httptestitem (6010024) and
\* httpstepitem (6010025); the other loops do not read a type.
MCRowTypes(p) ==
    CASE p = 6010024 -> {HTTPSTEP_ITEM_TYPE_IN, HTTPSTEP_ITEM_TYPE_LASTSTEP,
                         HTTPSTEP_ITEM_TYPE_LASTERROR}
      [] p = 6010025 -> {HTTPSTEP_ITEM_TYPE_RSPCODE, HTTPSTEP_ITEM_TYPE_TIME,
                         HTTPSTEP_ITEM_TYPE_IN}
      [] OTHER -> {0}

\* The loops with the "16 < sql_offset" guard on the final execute.
MCGuardedPatches == {6010002, 6010005, 6010024, 6010025}

MCSplitPatch == {6010032}
=============================================================================
