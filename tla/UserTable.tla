------------------------------ MODULE UserTable ------------------------------
(* The rows of table users, which the account service writes and the        *)
(* friendship service reads: primary keys, each with its unique e-mail       *)
(* (names, which are unique too, are left out).                              *)
EXTENDS Naturals, FiniteSets, TLC

CONSTANTS
    Ids,       \* the primary keys there are for users; a key is never given twice
    Emails

VARIABLE users     \* the rows: e-mail by primary key

Known == DOMAIN users
Taken(e) == \E u \in Known : users[u] = e

\* Tables of rows with distinct e-mails.
UserTables ==
    {f \in UNION {[S -> Emails] : S \in SUBSET Ids} :
        \A u, v \in DOMAIN f : f[u] = f[v] => u = v}
=============================================================================
