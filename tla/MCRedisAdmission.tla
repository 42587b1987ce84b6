-------------------------- MODULE MCRedisAdmission --------------------------
(* Two users of one tenant share a project; the third scope is a user of     *)
(* another tenant.  The limits are hierarchical, as the constructor demands. *)
EXTENDS RedisAdmission, TLC

MCScopes   == {"alice", "bob", "eve"}
MCCounters == {"global", "tenantA", "tenantE", "userA", "userB", "userE",
               "projectA", "projectE"}
MCCountersOf ==
  [s \in MCScopes |->
     CASE s = "alice" -> <<"global", "tenantA", "userA", "projectA">>
       [] s = "bob"   -> <<"global", "tenantA", "userB", "projectA">>
       [] s = "eve"   -> <<"global", "tenantE", "userE", "projectE">>]
MCLimit == [c \in MCCounters |->
              CASE c = "global" -> 3
                [] c \in {"tenantA", "tenantE"} -> 2
                [] OTHER -> 1]
Symmetry == Permutations(Tokens)
=============================================================================
