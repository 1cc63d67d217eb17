--------------------------- MODULE BlacklistTable ---------------------------
(***************************************************************************)
(* A row of the SQLite table ip_blacklist and what the statements of        *)
(* database.py (the blacklist methods of WAFDatabase) do to it. Each is one *)
(* transaction on a fresh connection, called synchronously from the event   *)
(* loop, so it is one atomic change of the row.                             *)
(*                                                                          *)
(* is_whitelisted is not a field: the schema has the column, but no         *)
(* statement of the program ever writes it.                                 *)
(***************************************************************************)
EXTENDS Integers

\* expires_at of a row without a ban, or with a permanent one.
NULL == -1

Row == [present : BOOLEAN, count : Nat, permanent : BOOLEAN, expires : Nat \cup {NULL}]

\* No row: what the column defaults give if one is inserted.
NoRow == [present |-> FALSE, count |-> 0, permanent |-> FALSE, expires |-> NULL]

\* blacklist_add_violation: the upsert touches only the count.
Violated(row) == [row EXCEPT !.present = TRUE, !.count = @ + 1]

\* Mutant: a row that has a ban keeps it (ON CONFLICT DO NOTHING).
Banned_OldBanStays(row, permanent, until) ==
    IF row.present /\ (row.permanent \/ row.expires # NULL) THEN row
    ELSE [row EXCEPT !.present = TRUE,
                     !.permanent = permanent,
                     !.expires = IF permanent THEN NULL ELSE until]

\* blacklist_ban: the upsert overwrites BOTH ban columns and keeps the count.
Banned(row, permanent, until) ==
    [row EXCEPT !.present = TRUE,
                !.permanent = permanent,
                !.expires = IF permanent THEN NULL ELSE until]

\* blacklist_is_blocked, the answer.
IsBlocked(row, t) ==
    row.present /\ (row.permanent \/ (row.expires # NULL /\ row.expires > t))

\* A temporary ban whose time has come.
Lapsed(row, t) ==
    row.present /\ ~row.permanent /\ row.expires # NULL /\ row.expires <= t

\* Rows of ip_violations refer to this one: each counted violation inserts one,
\* no statement ever deletes one, and the foreign key has no ON DELETE. SQLite
\* refuses to delete a row that is referred to.
Referenced(row) == row.count > 0

\* Mutant: foreign keys are left switched off.
Deletable_WithoutForeignKeys(row) == TRUE

Deletable(row) == ~Referenced(row)

\* blacklist_is_blocked, its effect when it does not raise: a lapsed row is
\* deleted. The DELETE reads the clock again and compares with "<", so at the
\* very instant of expiry it may or may not find the row.
AfterLookup(row, t) ==
    IF ~Lapsed(row, t) THEN {row}
    ELSE {gone \in {NoRow} : Deletable(row)} \cup {kept \in {row} : row.expires = t}

\* The row records a ban, in force or lapsed.
HasBan(row) == row.present /\ (row.permanent \/ row.expires # NULL)

=============================================================================
