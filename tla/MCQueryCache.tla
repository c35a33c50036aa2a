--------------------------- MODULE MCQueryCache ---------------------------
(* QueryCache for TLC.  In each play there are two readers and a writer.   *)
EXTENDS QueryCache

Statements(r1, r2, w, root) ==
    [c \in Client |-> CASE c = "r1" -> r1 [] c = "r2" -> r2 [] c = "w" -> w [] c = Admin -> root]

Base ==
    [mode |-> [c \in Reader \cup Writer |-> IF c = "r2" THEN "trans" ELSE "auto"],
     isolation |-> [r \in Reader |-> "RR"],
     tables |-> [q \in Query |-> IF q = "q1" THEN <<"t1", "t2">> ELSE <<>>],
     left |-> Statements(1, 1, 1, 0), memory |-> 9, cascade |-> TRUE, concurrent |-> FALSE]

(* SELECTs in and out of a transaction against an autocommit write, with   *)
(* foreign keys; a transaction that reads twice against one that writes;   *)
(* two queries of a MyISAM table in a small cache; reset and resize; a     *)
(* foreign key inside a transaction, against SELECTs that are not in one;  *)
(* uncommitted reads of both readers; a concurrent insert                  *)
MCPlays ==
    {Base,
     [Base EXCEPT !.mode["w"] = "trans", !.left = Statements(1, 2, 1, 0), !.cascade = FALSE,
                  !.isolation["r1"] = "RC"],
     [Base EXCEPT !.tables = [q \in Query |-> <<"m">>], !.memory = 5, !.left = Statements(2, 1, 1, 0)],
     [Base EXCEPT !.isolation["r1"] = "RU", !.tables = ("q1" :> <<"t1">> @@ "q2" :> <<>>), !.left = Statements(2, 0, 1, 1)],
     [Base EXCEPT !.tables = ("q1" :> <<"m">> @@ "q2" :> <<>>), !.left = Statements(1, 1, 1, 1)],
     [Base EXCEPT !.mode = [c \in DOMAIN @ |-> IF c = "w" THEN "trans" ELSE "auto"]],
     [Base EXCEPT !.isolation = [r \in Reader |-> "RU"], !.tables = ("q1" :> <<"t1">> @@ "q2" :> <<>>),
                  !.left = Statements(1, 2, 1, 0), !.cascade = FALSE, !.mode["w"] = "trans"],
     [Base EXCEPT !.tables = ("q1" :> <<"m", "t1">> @@ "q2" :> <<>>), !.concurrent = TRUE]}

(* a foreign key changes a table inside a transaction *)
CascadePlays == {[Base EXCEPT !.mode["w"] = "trans"]}

(* a reader of uncommitted rows beside one of committed rows *)
DirtyPlays == {[Base EXCEPT !.mode["r2"] = "auto", !.isolation["r1"] = "RU"]}

(* inserts into a MyISAM table that its readers allow *)
ConcurrentPlays == {[Base EXCEPT !.tables = [q \in Query |-> <<"m">>], !.concurrent = TRUE]}
=============================================================================
