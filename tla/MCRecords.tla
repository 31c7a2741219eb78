----------------------------- MODULE MCRecords -----------------------------
(***************************************************************************)
(* Instances of Records: a policy p1 on repository r1 launched for clients *)
(* c1 and c2, whose jobs j1 and j2 form a chain, and a policy p2 that may  *)
(* be created.                                                             *)
(***************************************************************************)
EXTENDS Records

CONSTANTS c1, c2, r1, p1, p2, u1, u2, j1, j2, q1, q2, q3

MCRefs == [x \in Row |-> CASE x \in {p1, p2} -> {r1}
                           [] x = j1 -> {c1, r1, p1, j2}
                           [] x = j2 -> {c2, r1, p1}
                           [] OTHER -> {}]

A(op, on, field, by) == [op |-> op, on |-> on, field |-> field, by |-> by]

\* An administrator removes something, or a user himself; a user changes or
\* creates something; the other does too, a task saves sizes, or a policy goes.
MCAsks ==
    [q \in Request |->
        CASE q = q1 -> {A("delete", x, "name", u1) : x \in {c1, c2, r1, u2}}
                       \cup {A("delete", u2, "name", u2)}
          [] q = q2 -> {A("patch", c2, "name", u2), A("put", c2, "name", u2),
                        A("patch", u2, "password", u2), A("create", p2, "name", u2)}
          [] q = q3 -> {A("patch", c2, "option", u1), A("system", r1, "name", None),
                        A("delete", p1, "name", u1), A("patch", u2, "name", u1)}]
=============================================================================
