--------------------------- MODULE AccessContract ---------------------------
(* What owned access promises (docs/systems/resource-authorization.md): a    *)
(* decision is taken from the bindings and the memberships of the moment,    *)
(* along every path that is alive, and a grant is issued only by somebody    *)
(* one of whose own grants may issue it.  There are no effective rows here,  *)
(* no statements and no workers.                                             *)
EXTENDS AccessGrants

CONSTANTS
    Users,      \* the accounts
    Groups,     \* the groups
    Resources   \* playlists, booklists and queues

VARIABLES
    status,     \* user -> "active", "deactivated" or "purged"
    groups,     \* the groups that exist
    members,    \* group -> users
    made,       \* the resources created so far
    bindings,   \* resource -> principal -> normalised set of grants
    verdict     \* the decision just taken, if the last step took one

Principals == Users \union Groups

\* the principals through which a user reaches a resource
Paths(u) == {u} \union {g \in Groups : u \in members[g]}

Held(u, r) == UNION {bindings[r][p] : p \in Paths(u)}

May(u, r, need) == \E g \in Held(u, r) : need \in FlagsOf(g)

Exists(p) == p \in groups \/ (p \in Users /\ status[p] # "purged")

Init ==
    /\ status = [u \in Users |-> "active"]
    /\ groups = Groups
    /\ members \in [Groups -> SUBSET Users]
    /\ made = {}
    /\ bindings = [r \in Resources |-> [p \in Principals |-> {}]]
    /\ verdict = {}

Decide(u, r, need) ==
    /\ verdict' = {[user |-> u, resource |-> r, need |-> need,
                    allowed |-> May(u, r, need)]}
    /\ UNCHANGED <<status, groups, members, made, bindings>>

\* A new resource belongs to its creator or to a group the creator is in.
Create(u, r, p) ==
    /\ r \notin made
    /\ p \in Paths(u)
    /\ verdict' = {}
    /\ made' = made \union {r}
    /\ bindings' = [bindings EXCEPT ![r][p] = {"owner"}]
    /\ UNCHANGED <<status, groups, members>>

Grant(u, r, p, g) ==
    /\ \E source \in Held(u, r) : CanIssueGrant(source, g)
    /\ Exists(p)
    /\ bindings' = [bindings EXCEPT ![r][p] = MergeIncomingGrant(@, g)]
    /\ verdict' = {}
    /\ UNCHANGED <<status, groups, members, made>>

Revoke(u, r, p) ==
    /\ "owner" \in Held(u, r)
    /\ p # u
    /\ bindings' = [bindings EXCEPT ![r][p] = {}]
    /\ verdict' = {}
    /\ UNCHANGED <<status, groups, members, made>>

Drop(u, r) ==
    /\ "owner" \in Held(u, r)
    /\ bindings' = [bindings EXCEPT ![r] = [p \in Principals |-> {}]]
    /\ verdict' = {}
    /\ UNCHANGED <<status, groups, members, made>>

\* People come and go, and a group its last member left may go too.
Regroup ==
    /\ members' \in [Groups -> SUBSET Users]
    /\ groups' \subseteq groups
    /\ \A g \in Groups \ groups' : members'[g] = {}
    /\ status' \in [Users -> {"active", "deactivated", "purged"}]
    /\ \A u \in Users : status[u] = "purged" => status'[u] = "purged"
    /\ verdict' = {}
    /\ UNCHANGED <<made, bindings>>

\* What was granted to a principal goes with it: when its group is gone, or
\* while the account that is being purged is in no group any more.
Forget(p) ==
    /\ p \in Groups => p \notin groups'
    /\ p \in Users => Paths(p) = {p}
    /\ groups' \in {groups, groups \ {p}}
    /\ members' = [g \in Groups |-> IF g = p THEN {} ELSE members[g]]
    /\ bindings' = [r \in Resources |-> [bindings[r] EXCEPT ![p] = {}]]
    /\ verdict' = {}
    /\ UNCHANGED <<status, made>>

\* An administrator takes a member out and with the last one the group goes.
Expel(u, g) ==
    /\ members' = [members EXCEPT ![g] = @ \ {u}]
    /\ groups' \in {groups, groups \ {g}}
    /\ IF g \in groups'
       THEN UNCHANGED bindings
       ELSE members'[g] = {} /\ bindings' = [r \in Resources |-> [bindings[r] EXCEPT ![g] = {}]]
    /\ verdict' = {}
    /\ UNCHANGED <<status, made>>

\* The handler that asked for a decision has answered.
Answer ==
    /\ verdict' = {}
    /\ UNCHANGED <<status, groups, members, made, bindings>>

Next ==
    \/ Answer
    \/ Regroup
    \/ \E p \in Principals : Forget(p)
    \/ \E u \in Users, g \in Groups : Expel(u, g)
    \/ \E u \in Users, r \in Resources :
          \/ \E need \in AccessFlags : Decide(u, r, need)
          \/ Drop(u, r)
          \/ \E p \in Principals :
                \/ Create(u, r, p)
                \/ Revoke(u, r, p)
                \/ \E g \in AccessGrant : Grant(u, r, p, g)

Spec == Init /\ [][Next]_<<status, groups, members, made, bindings, verdict>>
=============================================================================
