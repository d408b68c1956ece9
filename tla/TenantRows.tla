------------------------------ MODULE TenantRows ------------------------------
(***************************************************************************)
(* Tables whose rows belong to a tenant and are deleted by a mark, and the *)
(* queries of services/base.py on them.  A table is a sequence of records  *)
(* with the fields tenant and deleted; a row's id is its index, and lists  *)
(* are ordered by it, newest first.  Rows of one request bear the same     *)
(* created_at and some lists have another order or none: the index stands  *)
(* for the order the database gives them.                                  *)
(***************************************************************************)
EXTENDS Naturals, Sequences, FiniteSets

CONSTANT Tenants

\* A new row.
Inserted(table, row) == Append(table, row)

\* BaseService._apply_tenant_filter and _apply_soft_delete_filter.
OfTenant(table, t) == {i \in DOMAIN table : table[i].tenant = t}
NotDeleted(table) == {i \in DOMAIN table : ~table[i].deleted}

\* BaseService.list and count: the rows of a tenant that are not deleted.
Listed(table, t) == OfTenant(table, t) \cap NotDeleted(table)

\* A page of a list: OFFSET (page - 1) * limit, LIMIT limit.
Page(ids, page, limit) == {i \in ids :
    LET newer == Cardinality({j \in ids : j > i})
    IN  (page - 1) * limit <= newer /\ newer < page * limit}

\* What a reader sees who walks the pages of a list, each of one row.
Walk(List(_, _), pages) == UNION {List(p, 1) : p \in 1 .. pages}

\* Mutant: a query that forgets the mark.
OwnRow(table, i, t) == i \in DOMAIN table /\ table[i].tenant = t

\* BaseService.get finds a row by its id, and the same two conditions.
Gets(table, i, t) == i \in DOMAIN table /\ table[i].tenant = t /\ ~table[i].deleted

\* BaseService.soft_delete, of a row that get finds.
SoftDeleted(table, i) == [table EXCEPT ![i].deleted = TRUE]

\* The newest of some rows: ORDER BY created_at DESC, LIMIT 1.
NewestOf(ids) == {i \in ids : \A j \in ids : j <= i}
=============================================================================
