---------------------------- MODULE MCRadiusUsers ----------------------------
EXTENDS RadiusUsers, TLC

CONSTANTS u1, u2, v1, v2, r1, r2

\* A new user with an expiration, given twice, and a group; an update that removes
\* the password and all check attributes; one that sets a password, lists another
\* and clears the groups; one that renews the expiration and lists Auth-Type.
SmallBodies ==
    {[username |-> u1, password |-> Absent, check |-> CheckAttr \X Value,
      reply |-> Absent, groups |-> Group \X {v1}],
     [username |-> Absent, password |-> Empty, check |-> {}, reply |-> Absent, groups |-> Absent],
     [username |-> Absent, password |-> v1, check |-> {<<Password, v2>>},
      reply |-> ReplyAttr \X {v2}, groups |-> {}],
     [username |-> Absent, password |-> Nil,
      check |-> (CheckAttr \X {v2}) \cup {<<AuthType, v1>>}, reply |-> Absent, groups |-> Absent]}

\* Two users; only the first body has groups.
TwoUserBodies ==
    {[username |-> u1, password |-> v1, check |-> Absent, reply |-> Absent,
      groups |-> Group \X {v1}],
     [username |-> u2, password |-> v1, check |-> Absent, reply |-> Absent, groups |-> Absent]}

SmallEntries == {<<"Expiration", v2>>, <<Password, v2>>, <<"Session-Timeout", v1>>, <<"premium", v1>>}
Requests == {r1, r2}
Symmetry == Permutations(Requests)
CheckNames == {"Expiration"}
ReplyNames == {"Session-Timeout"}
GroupNames == {"premium"}
=============================================================================
