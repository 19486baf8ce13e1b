------------------------------- MODULE MCStore -------------------------------
(***************************************************************************)
(* Store for TLC: one client of each operation.  The documents of          *)
(* insert_documents have neither uri nor scope.  The filters are every     *)
(* as_of_ts that is a number, and none, pairs and some triples of clauses. *)
(***************************************************************************)
EXTENDS Store

Text(k) == [type |-> "string", num |-> k]
Float(twice) == [type |-> "float", num |-> twice]
Bool(b) == [type |-> "bool", num |-> b]

Put(u, s) == [id |-> 0, uri |-> Text(u), scope |-> Text(s)]
Doc(k) == [id |-> k, uri |-> None, scope |-> None]

MCClients == {"put", "insert", "hook"}

MCCall ==
    [c \in MCClients |->
        CASE c = "put"    -> [op |-> "put_text", docs |-> <<Put(1, 1)>>]
          [] c = "insert" -> [op |-> "insert_documents", docs |-> <<Doc(1), Doc(2), Doc(3)>>]
          [] c = "hook"   -> [op |-> "put_text_uncommitted", docs |-> <<Put(2, 1)>>]]

MCMaxAttempts == [c \in MCClients |-> IF c = "insert" THEN 2 ELSE 1]

Clause(op, key, v) == [how |-> "and", op |-> op, key |-> key, value |-> v]

(* Numbers that an f64 of three bits can hold, twice their value.          *)
Floats == {n \in -70..70 : \E k \in 0..4 : n % Pow2[k] = 0 /\ n \div Pow2[k] \in -7..7}

Times == {Clause("eq", "as_of_ts", Int64(n)) : n \in -16..31}
            \cup {Clause("eq", "as_of_ts", Float(n)) : n \in Floats}

Clauses ==
    {Clause("eq", "uri", Text(1)), Clause("eq", "scope", Int64(1)), Clause("eq", "scope", Text(2)),
     Clause("eq", "as_of_frame", Int64(2)), Clause("eq", "as_of_frame", Int64(-1)),
     Clause("eq", "as_of_ts", Float(4)), Clause("eq", "as_of_ts", Text(1)),
     Clause("eq", "no_sketch", Bool(1)), Clause("eq", "no_sketch", Int64(1)),
     Clause("eq", "cursor", Text(1)), Clause("eq", "title", Text(1)),
     Clause("gt", "as_of_ts", Int64(1)), Clause("lt", "scope", Text(1))}

Joined(cs) == {[c EXCEPT !.how = how] : c \in cs, how \in {"and", "before"}}
                 \cup {[c EXCEPT !.how = "or"] : c \in {d \in cs : d.key = "scope"}}

Few == {c \in Clauses : c.key = "scope"}

MCExpressions ==
    {<<>>} \cup {<<c>> : c \in Times \cup Clauses}
        \cup {<<c, d>> : c \in Clauses, d \in Joined(Clauses)}
        \cup {<<c, d, e>> : c \in Few, d \in Joined(Few), e \in Joined(Few)}
==============================================================================
