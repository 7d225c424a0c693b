------------------------ MODULE MCServiceRequests ------------------------
(* Two users: an administrator and one who is limited to its own budgets. *)
EXTENDS ServiceRequests

CONSTANTS u1, u2, b1, b2, b3, p1, p2, p3, c1, c2

MCInitialDb ==
    [user |-> (u1 :> [is_active |-> TRUE, roles |-> {"USERTYPE_ADMIN", "BUDGET_ADMINISTRATOR"}])
              @@ (u2 :> [is_active |-> TRUE, roles |-> {"USERTYPE_INTERNAL", "BUDGET_USER"}]),
     budget |-> (b1 :> [user |-> u2]) @@ (b2 :> [user |-> u1]),
     position |-> (p1 :> [budget |-> b1, category |-> c1, sequence |-> 0])
                  @@ (p2 :> [budget |-> b1, category |-> c2, sequence |-> 0])
                  @@ (p3 :> [budget |-> b2, category |-> c1, sequence |-> 1])]

MCPrimaryKey == (p1 :> 1) @@ (p2 :> 2) @@ (p3 :> 3) @@ (c1 :> 1) @@ (c2 :> 2)

MCKeyScopes == {<<"budget", "update">>, <<"user", "update">>}

MCOps ==
    {[do |-> "create", user |-> u] : u \in {Unset, u1}}
    \cup {[do |-> "update", pk |-> b1, user |-> u] : u \in {NoUser, u1}}
    \cup {[do |-> "delete", pk |-> b2]}
    \cup {[do |-> "roles", pk |-> u2, roles |-> r] :
            r \in {{"USERTYPE_INTERNAL", "BUDGET_READER"}, {"USERTYPE_ADMIN"}}}
    \cup {[do |-> "resequence", budget |-> b1, ids |-> ids, offset |-> 0] :
            ids \in {<<p2, p1>>, <<p1, p3>>, <<p1, p1>>}}

Symmetry == Permutations(Workers)
=============================================================================
