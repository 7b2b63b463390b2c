---------------------------- MODULE MCWikiPages ----------------------------
(* Small instances of WikiPages for TLC. *)
EXTENDS WikiPages

OneOp == {<<"create">>, <<"title">>, <<"body">>, <<"delete">>}

Instances == {[pages |-> 3, runs |-> 3, approvals |-> 0], [pages |-> 1, runs |-> 2, approvals |-> 1],
              [pages |-> 3, runs |-> 2, approvals |-> 2]}

============================================================================
