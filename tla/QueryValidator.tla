--------------------------- MODULE QueryValidator ---------------------------
(***************************************************************************)
(* services/database/query_validator.py: validate_sql, as an operator on   *)
(* a statement and an allowed schema.                                      *)
(*                                                                         *)
(* A statement is what sqlglot and the two textual checks tell about the   *)
(* string the model wrote: how it parses, what it names, and which of the  *)
(* textual rules it trips.                                                 *)
(***************************************************************************)
EXTENDS Naturals

CONSTANTS
    SqlTableNames,   \* names a statement may use for tables
    SqlColumnNames,  \* names a statement may use for columns
    Star             \* the column "*"

\* empty        nothing but blanks          unparsable  sqlglot.parse raises
\* several      zero or many statements     select      a SELECT (or WITH)
\* union        a UNION of queries          dml         INSERT, UPDATE, DELETE
\* admin        DDL or a command            other       any other expression
StatementKinds ==
    {"empty", "unparsable", "several", "select", "union", "dml", "admin",
     "other"}

Statement ==
    [kind : StatementKinds,
     commented : BOOLEAN,      \* holds --, /* or */
     keyword : BOOLEAN,        \* a word of BLOCKED_KEYWORDS occurs
     system : BOOLEAN,         \* names a table of a system schema
     limited : BOOLEAN,        \* has a LIMIT of its own
     tables : SUBSET SqlTableNames,
     columns : SUBSET (SqlColumnNames \cup {Star})]

Parsed(s) == s.kind \notin {"empty", "unparsable", "several"}

\* The query_type given to the executor; "DML" stands for the three names.
QueryType(s) == IF s.kind = "dml" THEN "DML" ELSE "SELECT"

\* What is wrong with the text, before it is parsed.
TextErrors(s) ==
    (IF s.commented THEN {"comment"} ELSE {})
      \cup (IF s.keyword THEN {"keyword"} ELSE {})

\* What is wrong with the shape of the statement.
ShapeErrors(s) ==
    IF ~Parsed(s) THEN {s.kind}
    ELSE (IF s.kind \in {"select", "union", "dml"} THEN {} ELSE {"not a query"})
           \cup (IF s.system THEN {"system schema"} ELSE {})

\* Seeded fault: write access is not asked for.
TableErrorsIgnoringAccess(s, allowed) ==
    {n \in s.tables : n \notin DOMAIN allowed}

\* The tables it may not use, or may not change.
TableErrors(s, allowed) ==
    {n \in s.tables :
        \/ n \notin DOMAIN allowed
        \/ QueryType(s) # "SELECT" /\ allowed[n].access # "read_write"}

\* One set for all tables: the check does not ask which table a column is of.
AllowedColumns(allowed) == UNION {allowed[n].columns : n \in DOMAIN allowed}

\* The columns it may not use; no column is checked when none is allowed.
ColumnErrors(s, allowed) ==
    IF AllowedColumns(allowed) = {} THEN {}
    ELSE {k \in s.columns : k # Star /\ k \notin AllowedColumns(allowed)}

IsValid(s, allowed) ==
    /\ TextErrors(s) = {}
    /\ ShapeErrors(s) = {}
    /\ TableErrors(s, allowed) = {}
    /\ ColumnErrors(s, allowed) = {}

\* Does the statement that is executed carry a row limit?
NormalizedLimited(s) == s.limited \/ s.kind = "select"

ValidateSql(s, allowed) ==
    [is_valid |-> IsValid(s, allowed),
     query_type |-> QueryType(s),
     limited |-> NormalizedLimited(s)]
============================================================================
