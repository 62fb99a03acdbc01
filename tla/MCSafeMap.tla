------------------------------ MODULE MCSafeMap ------------------------------
(* A TLC instance of SafeMap: a writer and a reader, each of which also     *)
(* assigns one map to the other, crosswise.                                 *)
EXTENDS SafeMap, TLC

CONSTANTS T1, T2, M1, M2, V0, V1

C(op, m, k, v) == [op |-> op, m |-> m, n |-> m, k |-> k, v |-> v]

MCCalls ==
    T1 :> {C("insert", M1, 1, V1), C("insert", M1, 2, V1), C("erase", M1, 1, V0),
           C("index", M1, 2, V0), C("update", M1, 1, V0),
           C("index", M2, 1, V1),
           [op |-> "assign", m |-> M1, n |-> M2, k |-> 1, v |-> V0],
           [op |-> "assign", m |-> M1, n |-> M1, k |-> 1, v |-> V0]} @@
    T2 :> {C("begin", M1, 1, V0), C("find", M1, 2, V0), C("size", M1, 1, V0),
           C("updateItr", M1, 1, V0), C("eraseItr", M1, 1, V0),
           [op |-> "assign", m |-> M2, n |-> M1, k |-> 1, v |-> V0]}

MCMaxCalls == T1 :> 3 @@ T2 :> 2

=============================================================================
