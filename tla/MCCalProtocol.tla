---------------------------- MODULE MCCalProtocol ----------------------------
(* Instances of CalProtocol for TLC: what the clients ask.                 *)
EXTENDS CalProtocol

Request == [x : {0, 12}, op : {43, 45, 42, 47, 37, 32, 94}, y : {-5, 0, 7}]

\* Any request, alone or followed by one of two others.
AllSessions ==
    {<<r>> : r \in Request}
      \cup {<<r, [x |-> 7, op |-> 42, y |-> 100000]>> : r \in Request}
      \cup {<<[x |-> 1, op |-> 45, y |-> 2], [x |-> 3, op |-> 47, y |-> 0],
              [x |-> 12345678, op |-> 43, y |-> 1]>>}

TwoSums == {<<[x |-> 1, op |-> 43, y |-> 1], [x |-> 2, op |-> 43, y |-> 2]>>}
=============================================================================
