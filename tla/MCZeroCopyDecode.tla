--------------------------- MODULE MCZeroCopyDecode ---------------------------
(***************************************************************************)
(* Model values for ZeroCopyDecode: the call alphabet of MCChainedEncode, *)
(* with the threshold at 2 so that payloads of 0, 1 and 2 bytes sit      *)
(* below, just below and at the zero-copy boundary.                      *)
(***************************************************************************)
EXTENDS ZeroCopyDecode

MCPayloads == {<< >>, << 7 >>, << 7, 9 >>}

MCUuid == [i \in 1..16 |-> i]

MCCalls ==
  {[op |-> "message_begin", v |-> [type |-> 1, name |-> n, seq |-> 5]] : n \in MCPayloads}
  \cup {[op |-> "field_begin", v |-> [type |-> TTypeCode.I32, id |-> -2]],
        [op |-> "field_stop", v |-> 0],
        [op |-> "bool", v |-> TRUE], [op |-> "bool", v |-> FALSE],
        [op |-> "byte", v |-> 200], [op |-> "i8", v |-> -3],
        [op |-> "i16", v |-> 300], [op |-> "i32", v |-> -1],
        [op |-> "i32", v |-> 70000], [op |-> "i64", v |-> -5],
        [op |-> "double", v |-> 1], [op |-> "uuid", v |-> MCUuid],
        [op |-> "list_begin", v |-> [type |-> TTypeCode.Binary, size |-> 2]],
        [op |-> "set_begin", v |-> [type |-> TTypeCode.I64, size |-> 1]],
        [op |-> "map_begin", v |-> [ktype |-> TTypeCode.I32, vtype |-> TTypeCode.Binary, size |-> 2]]}
  \cup {[op |-> k, v |-> p] : k \in PayloadOps, p \in MCPayloads}

=============================================================================
