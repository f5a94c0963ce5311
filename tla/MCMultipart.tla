---------------------------- MODULE MCMultipart ----------------------------
EXTENDS MultipartUpload

CONSTANTS u0, u1, u2, p1, p2, q1, q2, s1, c0, c1, c2, a1

\* Upload u0 has become object c0 with the parts q1 and q2; p1 and p2 are
\* PUTs of part 1 of u1, and s1 is part 1 of u2.
MCUploadOf == [r \in PartReq \cup Complete \cup Abort |->
                 IF r \in {q1, q2, c0} THEN u0 ELSE IF r \in {s1, c2} THEN u2 ELSE u1]
MCPartNumber == [p \in PartReq |-> IF p = q2 THEN 2 ELSE 1]
MCAsked == [c \in Complete |-> IF c = c0 THEN Part ELSE 1..1]
MCPastParts == [c \in Past |-> [n \in Part |-> IF n = 1 THEN q1 ELSE q2]]
FirstPart(o) == [n \in Part |-> IF n = 1 THEN o ELSE NoOid]
NoneOpen == [u \in {} |-> NoParts]
BothOpen == [u \in {u1, u2} |-> FirstPart(IF u = u1 THEN p1 ELSE s1)]

PartFaults ==
    ({"create_index", "save_upload", "rollback_index"} \X {u1}) \cup
    ({"add_probable", "save_part", "mark_old", "delete_old", "delete_new"} \X {p1}) \cup
    ({"save", "delete_index"} \X {c1}) \cup
    ({"add_probable", "delete_upload", "delete_index", "mark_parts",
      "delete_part"} \X {a1})
PartLeaves == {<<"save_part", p1>>, <<"create_object", p1>>, <<"respond", a1>>,
               <<"delete_upload", c1>>}
CompleteFaults ==
    {"add_probable", "delete_upload", "delete_index", "mark_old", "delete_old",
     "remove_version", "remove_ext", "remove_records"} \X {c1}
SaveFaults == {<<"save", c1>>}
=============================================================================
