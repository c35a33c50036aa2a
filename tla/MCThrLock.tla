----------------------------- MODULE MCThrLock -----------------------------
(***************************************************************************)
(* Instances of ThrLock for TLC.  A wish <<o, {<<l, i, t>>, ...}>> is one  *)
(* kind of statement of owner o: a lock of type t on its i-th instance of  *)
(* table l.  Owner "k" is a cursor of connection "a", every other owner is *)
(* the statement of a connection of its own.                               *)
(***************************************************************************)
EXTENDS ThrLock

CONSTANT Wishes

MCData     == UNION {{<<w[1], x[1], x[2]>> : x \in w[2]} : w \in Wishes}
MCLockOf   == [d \in MCData |-> d[2]]
MCOwnerOf  == [d \in MCData |-> d[1]]
MCOwner    == {w[1] : w \in Wishes}
MCThreadOf == [o \in MCOwner |-> IF o = "k" THEN "a" ELSE o]
MCThread   == {MCThreadOf[o] : o \in MCOwner}
MCRequests ==
    {[d \in {<<w[1], x[1], x[2]>> : x \in w[2]} |->
        (CHOOSE x \in w[2] : x[1] = d[2] /\ x[2] = d[3])[3]] : w \in Wishes}

(* one table, the lock types in pairs that meet in every order *)
One(o, T) == {<<o, {<<1, 1, t>>}>> : t \in T}

(* statements over two tables, one that uses a table twice, and a         *)
(* connection that has nothing to do with them                             *)
OrderWishes ==
    {<<"a", {<<1, 1, TL_WRITE>>, <<2, 1, TL_READ>>}>>,
     <<"b", {<<1, 1, TL_READ>>, <<2, 1, TL_WRITE>>}>>,
     <<"b", {<<1, 1, TL_READ>>}>>,
     <<"c", {<<2, 1, TL_WRITE>>, <<2, 2, TL_READ>>, <<1, 1, TL_WRITE>>}>>,
     <<"e", {<<3, 1, TL_WRITE>>}>>}

(* on a table of its own: concurrent inserts and their readers            *)
InsertWishes ==
    LET On3(o, T) == {<<o, {<<3, 1, t>>}>> : t \in T} IN
    On3("p", {TL_READ, TL_WRITE, TL_WRITE_ALLOW_WRITE})
    \cup On3("q", {TL_WRITE_CONCURRENT_INSERT, TL_WRITE_ALLOW_WRITE, TL_READ_NO_INSERT})
    \cup On3("r", {TL_READ_HIGH_PRIORITY, TL_WRITE_LOW_PRIORITY, TL_READ_NO_INSERT})
    \cup On3("s", {TL_WRITE_DELAYED})

(* on two others: locks that fail half way                                *)
FailWishes ==
    {<<"a", {<<1, 1, TL_READ>>, <<2, 1, TL_WRITE>>}>>,
     <<"k", {<<2, 1, TL_READ>>}>>,
     <<"b", {<<1, 1, TL_WRITE_ALLOW_WRITE>>}>>,
     <<"b", {<<1, 1, TL_WRITE>>}>>,
     <<"b", {<<2, 1, TL_WRITE>>}>>,
     <<"d", {<<1, 1, TL_WRITE_DELAYED>>}>>}

AllWishes == InsertWishes \cup FailWishes

(* a reader that wants no inserts comes to a table with a multi-writer lock *)
NoInsertWishes == One("a", {TL_WRITE_ALLOW_WRITE}) \cup One("b", {TL_READ_NO_INSERT})

(* a writer that waits between readers is killed *)
KillWishes  == One("a", {TL_READ}) \cup One("b", {TL_WRITE}) \cup One("c", {TL_READ})
(* the first of two table locks fails, the second keeps its type *)
StaleWishes == {<<"a", {<<1, 1, TL_WRITE>>, <<2, 1, TL_READ>>}>>,
                <<"a", {<<2, 1, TL_WRITE>>}>>,
                <<"k", {<<1, 1, TL_READ>>}>>}
=============================================================================
