---------------------------- MODULE MCRoleRequests ----------------------------
(* Small instances of RoleRequests.                                        *)
EXTENDS RoleRequests, TLC

CONSTANTS ann, bob, eve, q1, q2, q3, w1, w2, w3

Person(role, effect, s) ==
    [active |-> TRUE, role |-> role, effect |-> effect, department |-> 1,
     level |-> [x \in Scopes |-> IF x = s THEN "read" ELSE "none"],
     defaults |-> {s} \ {NoScope}]

\* A manager who may decide role requests, a new colleague, an administrator
MCUsers == [u \in Users |-> CASE u = ann -> Person("manager", "allow", 1)
                              [] u = bob -> Person("user", "none", NoScope)
                              [] OTHER   -> Person("admin", "none", Global)]

MixedAsks == {<<ann, "analyst", 2>>, <<ann, "admin", NoScope>>,
              <<bob, "manager", NoScope>>, <<bob, "admin", Global>>}

\* Promoted, or locked out, on the way
MCChoices == [u \in Users |->
    IF u = bob THEN {[active |-> TRUE, role |-> "analyst"], [active |-> FALSE, role |-> "none"]}
    ELSE IF u = ann THEN {[active |-> TRUE, role |-> "analyst"]} ELSE {}]

MCSymmetry == Permutations(Workers) \cup Permutations(Requests)
=============================================================================
