------------------------------ MODULE UserProofs ------------------------------
(***************************************************************************)
(* Two things the server keeps for a user, each for every value of its     *)
(* constants: what the user may do - the grant algebra, the types of       *)
(* Access and, for requests that do not overlap (one worker), rows that    *)
(* are exact, grants that pass on no more than is held, and decisions      *)
(* that are the contract's - and what the user has decided - Intents: no   *)
(* decision is lost on its way from a device, and the devices converge if  *)
(* the ends of the jobs arrive in the order of their commits.  The two     *)
(* share no state.                                                         *)
(***************************************************************************)
EXTENDS AccessProps, IntentsProps, FiniteSetTheorems, WellFoundedInduction,
        SequenceTheorems, TLAPS

-----------------------------------------------------------------------------
(* The grant algebra.                                                        *)

LEMMA EmptySetNormal == NormalizeGrantSet({}) = {} /\ {} \in NormalSets
<1>1. NormalizeGrantSet({}) = {}
  BY DEF NormalizeGrantSet
<1>2. {} \in SUBSET AccessGrant
  OBVIOUS
<1> QED BY <1>1, <1>2 DEF NormalSets

LEMMA OwnerNormal == {"owner"} \in NormalSets
<1>1. NormalizeGrantSet({"owner"}) = {"owner"}
  BY DEF NormalizeGrantSet
<1>2. {"owner"} \in SUBSET AccessGrant
  BY DEF AccessGrant
<1> QED BY <1>1, <1>2 DEF NormalSets

LEMMA NormalSubset == \A s \in NormalSets : s \subseteq AccessGrant
  BY DEF NormalSets, NormalizeGrantSet, AccessGrant

LEMMA MergeNormal ==
  ASSUME NEW s \in NormalSets, NEW g \in AccessGrant
  PROVE  MergeIncomingGrant(s, g) \in NormalSets
<1>1. s \union {g} \in SUBSET AccessGrant
  BY NormalSubset
<1> QED BY <1>1 DEF NormalSets, MergeIncomingGrant

LEMMA FlagsType == \A s \in SUBSET AccessGrant : FlagsOfGrantSet(s) \in SUBSET AccessFlags
<1> SUFFICES ASSUME NEW s \in SUBSET AccessGrant
             PROVE  FlagsOfGrantSet(s) \in SUBSET AccessFlags
  OBVIOUS
<1>1. \A g \in AccessGrant : FlagsOf(g) \subseteq AccessFlags
  BY DEF AccessGrant, FlagsOf, AccessFlags
<1>2. NormalizeGrantSet(s) \subseteq AccessGrant
  BY DEF NormalizeGrantSet, AccessGrant
<1> QED BY <1>1, <1>2 DEF FlagsOfGrantSet

LEMMA FlagsOfNothing == FlagsOfGrantSet({}) = {}
  BY EmptySetNormal DEF FlagsOfGrantSet

\* Pruning a grant set loses nothing: the flags of the pruned set are the
\* flags of all its grants (normalizeGrantSet, flagsOfGrantSet).
THEOREM NormalizeKeepsFlags ==
  ASSUME NEW s \in SUBSET AccessGrant
  PROVE  FlagsOfGrantSet(s) = UNION {FlagsOf(g) : g \in s}
<1>1. CASE "owner" \in s
  BY <1>1 DEF FlagsOfGrantSet, NormalizeGrantSet, FlagsOf, AccessGrant, AccessFlags
<1>2. CASE "owner" \notin s
  <2>1. NormalizeGrantSet(s) \subseteq s
    BY <1>2 DEF NormalizeGrantSet
  <2>2. ASSUME NEW g \in s
        PROVE  \E h \in NormalizeGrantSet(s) : FlagsOf(g) \subseteq FlagsOf(h)
    <3>1. CASE "readwrite+share" \in s
      <4>1. "readwrite+share" \in NormalizeGrantSet(s)
        BY <1>2, <3>1 DEF NormalizeGrantSet, GrantDominates, FlagsOf, AccessGrant
      <4> QED BY <4>1, <1>2 DEF FlagsOf, AccessGrant
    <3>2. CASE "readwrite+share" \notin s /\ g = "read"
      <4>1. CASE "readwrite" \in s
        <5>1. "readwrite" \in NormalizeGrantSet(s)
          BY <1>2, <3>2, <4>1 DEF NormalizeGrantSet, GrantDominates, FlagsOf, AccessGrant
        <5> QED BY <5>1, <3>2 DEF FlagsOf
      <4>2. CASE "readwrite" \notin s /\ "read+share" \in s
        <5>1. "read+share" \in NormalizeGrantSet(s)
          BY <1>2, <3>2, <4>2 DEF NormalizeGrantSet, GrantDominates, FlagsOf, AccessGrant
        <5> QED BY <5>1, <3>2 DEF FlagsOf
      <4>3. CASE "readwrite" \notin s /\ "read+share" \notin s
        <5>1. "read" \in NormalizeGrantSet(s)
          BY <1>2, <3>2, <4>3 DEF NormalizeGrantSet, GrantDominates, FlagsOf, AccessGrant
        <5> QED BY <5>1, <3>2
      <4> QED BY <4>1, <4>2, <4>3
    <3>3. CASE "readwrite+share" \notin s /\ g # "read"
      <4>1. g \in {"readwrite", "read+share"}
        BY <1>2, <3>3 DEF AccessGrant
      <4>2. g \in NormalizeGrantSet(s)
        BY <1>2, <3>3, <4>1 DEF NormalizeGrantSet, GrantDominates, FlagsOf, AccessGrant
      <4> QED BY <4>2
    <3> QED BY <3>1, <3>2, <3>3
  <2> QED BY <2>1, <2>2 DEF FlagsOfGrantSet
<1> QED BY <1>1, <1>2

\* The flags of a user's row let it issue a grant exactly when one of the
\* grants behind them does: shareable reading and held writing do not add up to
\* shareable writing (flagsCanIssue against canIssueGrant).
THEOREM IssuedByOneGrant ==
  ASSUME NEW s \in SUBSET AccessGrant, NEW g \in AccessGrant
  PROVE  FlagToIssue(g) \in UNION {FlagsOf(h) : h \in s}
            <=> \E h \in s : CanIssueGrant(h, g)
<1>1. \A h \in AccessGrant : FlagToIssue(g) \in FlagsOf(h) <=> CanIssueGrant(h, g)
  BY DEF FlagToIssue, FlagsOf, CanIssueGrant, AccessGrant, AccessFlags
<1> QED BY <1>1

-----------------------------------------------------------------------------
(* Types.                                                                    *)

Bindings == [Resources -> [Principals -> NormalSets]]
Effective == [Users -> [Resources -> SUBSET AccessFlags]]
Members == [Groups -> SUBSET Users]

LEMMA LiveType ==
  ASSUME NEW m, NEW b \in Bindings, NEW u \in Users, NEW r \in Resources
  PROVE  LiveIn(m, b, u, r) \in SUBSET AccessFlags
<1>1. \A p \in Principals : FlagsOfGrantSet(b[r][p]) \in SUBSET AccessFlags
  BY FlagsType, NormalSubset DEF Bindings
<1> QED BY <1>1 DEF LiveIn, Principals

LEMMA RematerializedType ==
  ASSUME NEW m, NEW b \in Bindings, NEW rs, effective \in Effective
  PROVE  Rematerialized(m, b, rs) \in Effective
  BY LiveType DEF Rematerialized, Effective

LEMMA UnboundType ==
  ASSUME bindings \in Bindings, NEW p
  PROVE  Unbound(p) \in Bindings
  BY EmptySetNormal DEF Unbound, Bindings

LEMMA BoundType == \A p : BoundTo(p) \in SUBSET Resources
  BY DEF BoundTo

\* A table stays one when a row or a cell of it is replaced.
LEMMA RowReplaced ==
  ASSUME NEW A, NEW B, NEW C, NEW f \in [A -> [B -> C]], NEW a, NEW x \in [B -> C]
  PROVE  [f EXCEPT ![a] = x] \in [A -> [B -> C]]
  OBVIOUS

LEMMA CellReplaced ==
  ASSUME NEW A, NEW B, NEW C, NEW f \in [A -> [B -> C]], NEW a, NEW b, NEW c \in C
  PROVE  [f EXCEPT ![a][b] = c] \in [A -> [B -> C]]
<1>1. CASE a \in A
  <2>1. [f[a] EXCEPT ![b] = c] \in [B -> C]
    BY <1>1
  <2> QED BY <2>1
<1>2. CASE a \notin A
  BY <1>2
<1> QED BY <1>1, <1>2

LEMMA BindingReplaced ==
  ASSUME bindings \in Bindings, NEW r, NEW p, NEW s \in NormalSets
  PROVE  [bindings EXCEPT ![r][p] = s] \in Bindings
  BY CellReplaced DEF Bindings

LEMMA EffectiveReplaced ==
  ASSUME effective \in Effective, NEW u, NEW r, NEW f \in SUBSET AccessFlags
  PROVE  [effective EXCEPT ![u][r] = f] \in Effective
  BY CellReplaced DEF Effective

LEMMA IdleType == Idle \in Jobs
  BY DEF Idle, Jobs, Phases

\* The memberships, the accounts and the two tables, without the workers.
DataOK ==
    /\ status \in [Users -> {"active", "deactivated", "purged"}]
    /\ groups \subseteq Groups
    /\ members \in Members
    /\ made \subseteq Resources
    /\ bindings \in Bindings
    /\ effective \in Effective

LEMMA TypeParts == TypeOK <=> DataOK /\ job \in [Workers -> Jobs]
  BY DEF TypeOK, DataOK, Bindings, Effective, Members

LEMMA InitTypes == Init => TypeOK
<1> SUFFICES ASSUME Init PROVE TypeOK
  OBVIOUS
<1>1. bindings \in Bindings
  BY EmptySetNormal DEF Init, Bindings
<1>2. effective \in Effective
  BY DEF Init, Effective
<1>3. job \in [Workers -> Jobs]
  BY IdleType DEF Init
<1> QED BY <1>1, <1>2, <1>3, TypeParts DEF Init, DataOK, Members

\* Every action keeps the data well typed.
LEMMA DataKept ==
  ASSUME TypeOK, NEW w \in Workers, Step(w)
  PROVE  DataOK'
<1> USE TypeParts
<1>0. DataOK /\ job[w] \in Jobs
  OBVIOUS
<1>1. ASSUME NEW u \in Users, NEW r \in Resources, NEW p \in Principals, Create(w, u, r, p)
      PROVE  DataOK'
  <2>1. bindings' \in Bindings
    BY <1>0, <1>1, OwnerNormal DEF Create, Bindings, DataOK
  <2>2. effective' \in Effective
    BY <1>0, <1>1, <2>1, RematerializedType DEF Create, DataOK
  <2> QED BY <1>0, <1>1, <2>1, <2>2 DEF Create, DataOK
<1>2. ASSUME NEW u \in Users, NEW g \in Groups, AdminAdd(w, u, g)
      PROVE  DataOK'
  <2>1. members' \in Members
    BY <1>0, <1>2 DEF AdminAdd, DataOK, Members
  <2>2. \A r \in Resources : LiveIn(members', bindings, u, r) \in SUBSET AccessFlags
    BY <1>0, LiveType DEF DataOK
  <2>3. effective' \in Effective
    BY <1>0, <1>2, <2>2 DEF AdminAdd, DataOK, Effective
  <2> QED BY <1>0, <1>2, <2>1, <2>3 DEF AdminAdd, DataOK
<1>3. ASSUME NEW u \in Users, NEW g \in Groups, AdminRemove(w, u, g)
      PROVE  DataOK'
  <2>1. members' \in Members
    BY <1>0, <1>3 DEF AdminRemove, DataOK, Members
  <2>2. groups' \subseteq Groups /\ bindings' \in Bindings
    BY <1>0, <1>3, UnboundType DEF AdminRemove, DataOK
  <2>3. effective' \in Effective
    <3>1. CASE Emptied(g, u)
      BY <1>0, <1>3, <2>2, <3>1, RematerializedType DEF AdminRemove, DataOK
    <3>2. CASE ~Emptied(g, u)
      <4>1. \A r \in Resources : LiveIn(members', bindings, u, r) \in SUBSET AccessFlags
        BY <1>0, LiveType DEF DataOK
      <4>2. effective[u] \in [Resources -> SUBSET AccessFlags]
        BY <1>0 DEF DataOK, Effective
      <4>3. [r \in Resources |-> IF r \in BoundTo(g) THEN LiveIn(members', bindings, u, r)
                                                    ELSE effective[u][r]]
              \in [Resources -> SUBSET AccessFlags]
        BY <4>1, <4>2
      <4>4. effective' = [effective EXCEPT ![u] =
              [r \in Resources |-> IF r \in BoundTo(g) THEN LiveIn(members', bindings, u, r)
                                                    ELSE effective[u][r]]]
        BY <1>0, <1>3, <3>2 DEF AdminRemove, DataOK, Effective
      <4> QED BY <1>0, <4>3, <4>4, RowReplaced DEF DataOK, Effective
    <3> QED BY <3>1, <3>2
  <2> QED BY <1>0, <1>3, <2>1, <2>2, <2>3 DEF AdminRemove, DataOK
<1>4. ASSUME NEW g \in Groups, AdminDelete(w, g)
      PROVE  DataOK'
  <2>1. bindings' \in Bindings
    BY <1>0, <1>4, UnboundType DEF AdminDelete, DataOK
  <2>2. effective' \in Effective
    BY <1>0, <1>4, <2>1, RematerializedType DEF AdminDelete, DataOK
  <2> QED BY <1>0, <1>4, <2>1, <2>2 DEF AdminDelete, DataOK, Members
<1>5. ASSUME NEW u \in Users, NEW g \in Groups, Join(w, u, g) \/ Leave(w, u, g)
      PROVE  DataOK'
  BY <1>0, <1>5 DEF Join, Leave, DataOK, Members
<1>6. ASSUME NEW q \in Removals, RemoveAccount(w, q)
      PROVE  DataOK'
  <2>1. members' \in Members /\ groups' \subseteq Groups
    BY <1>0, <1>6 DEF RemoveAccount, DataOK, Members
  <2> QED BY <1>0, <1>6, <2>1 DEF RemoveAccount, DataOK
<1>7. ASSUME NEW q \in Requests, Request(w, q)
      PROVE  DataOK'
  BY <1>0, <1>7 DEF Request, DataOK
<1>8. CASE Settle(w)
  BY <1>0, <1>8 DEF Settle, DataOK
<1>9. CASE PurgeBindings(w)
  <2>1. bindings' \in Bindings
    BY <1>0, <1>9, UnboundType DEF PurgeBindings, DataOK
  <2> QED BY <1>0, <1>9, <2>1 DEF PurgeBindings, DataOK
<1>10. CASE PurgeIdentity(w)
  <2>1. effective' \in Effective
    BY ZenonT(30), <1>0, <1>10 DEF PurgeIdentity, DataOK, Effective
  <2>2. members' \in Members
    BY <1>0, <1>10 DEF PurgeIdentity, DataOK, Members
  <2> QED BY <1>0, <1>10, <2>1, <2>2 DEF PurgeIdentity, DataOK
<1>11. CASE ListBound(w) \/ RematerializeResource(w) \/ ReadLive(w)
  BY <1>0, <1>11 DEF ListBound, RematerializeResource, ReadLive, DataOK
<1>12. CASE DropBindings(w)
  <2>1. bindings' \in Bindings
    BY <1>0, <1>12, UnboundType DEF DropBindings, DataOK
  <2> QED BY <1>0, <1>12, <2>1 DEF DropBindings, DataOK
<1>13. CASE WriteRow(w)
  <2>1. effective' \in Effective
    <3>1. PICK s \in job[w].seen :
            effective' = effective \/ effective' = [effective EXCEPT ![s.row[1]][s.row[2]] = s.flags]
      BY <1>13 DEF WriteRow
    <3>2. s.row \in Rows /\ s.flags \in SUBSET AccessFlags
      BY <1>0 DEF Jobs, Readings
    <3>3. effective \in Effective
      BY <1>0 DEF DataOK
    <3>4. [effective EXCEPT ![s.row[1]][s.row[2]] = s.flags] \in Effective
      BY <3>2, <3>3, EffectiveReplaced
    <3> QED BY <3>1, <3>3, <3>4, Zenon
  <2> QED BY <1>0, <1>13, <2>1 DEF WriteRow, data, DataOK
<1>14. CASE Authorize(w) \/ Retry(w) \/ Deny(w) \/ Read(w)
  BY <1>0, <1>14 DEF Authorize, Retry, Deny, Read, DataOK
<1>15. CASE Drop(w)
  <2>1. bindings' \in Bindings
    <3>1. [p \in Principals |-> {}] \in [Principals -> NormalSets]
      BY EmptySetNormal
    <3>2. PICK q : bindings' = [bindings EXCEPT ![q.resource] = [p \in Principals |-> {}]]
      BY <1>15 DEF Drop
    <3> QED BY <1>0, <3>1, <3>2, RowReplaced DEF DataOK, Bindings
  <2>2. effective' \in Effective
    <3>1. PICK q : effective' = [u \in Users |-> [effective[u] EXCEPT ![q.resource] = {}]]
      BY <1>15 DEF Drop
    <3>2. \A u \in Users : effective[u] \in [Resources -> SUBSET AccessFlags]
      BY <1>0 DEF DataOK, Effective
    <3>3. \A u \in Users : [effective[u] EXCEPT ![q.resource] = {}] \in [Resources -> SUBSET AccessFlags]
      BY <3>2
    <3> QED BY <3>1, <3>3 DEF Effective
  <2> QED BY <1>0, <1>15, <2>1, <2>2 DEF Drop, DataOK
<1>16. CASE Grant(w)
  <2>1. bindings' \in Bindings
    <3>1. PICK q \in job[w].request :
            /\ q.op = "grant"
            /\ \/ bindings' = bindings
               \/ bindings' = [bindings EXCEPT ![q.resource][q.principal] =
                                  MergeIncomingGrant(bindings[q.resource][q.principal], q.grant)]
      BY <1>16 DEF Grant
    <3>2. q.resource \in Resources /\ q.principal \in Principals /\ q.grant \in AccessGrant
      BY <1>0, <3>1 DEF Jobs, Requests
    <3>3. MergeIncomingGrant(bindings[q.resource][q.principal], q.grant) \in NormalSets
      BY <1>0, <3>2, MergeNormal DEF DataOK, Bindings
    <3>4. bindings \in Bindings
      BY <1>0 DEF DataOK
    <3>5. [bindings EXCEPT ![q.resource][q.principal] =
              MergeIncomingGrant(bindings[q.resource][q.principal], q.grant)] \in Bindings
      BY <3>3, <3>4, BindingReplaced
    <3> QED BY <3>1, <3>4, <3>5, Zenon
  <2> QED BY <1>0, <1>16, <2>1 DEF Grant, DataOK
<1>17. CASE Revoke(w)
  <2>1. bindings' \in Bindings
    <3>1. PICK q : \/ bindings' = bindings
                   \/ bindings' = [bindings EXCEPT ![q.resource][q.principal] = {}]
      BY <1>17 DEF Revoke
    <3>2. bindings \in Bindings
      BY <1>0 DEF DataOK
    <3>3. [bindings EXCEPT ![q.resource][q.principal] = {}] \in Bindings
      BY <3>2, EmptySetNormal, BindingReplaced
    <3> QED BY <3>1, <3>2, <3>3, Zenon
  <2> QED BY <1>0, <1>17, <2>1 DEF Revoke, DataOK
<1> QED BY <1>1, <1>2, <1>3, <1>4, <1>5, <1>6, <1>7, <1>8, <1>9, <1>10, <1>11,
           <1>12, <1>13, <1>14, <1>15, <1>16, <1>17 DEF Step

\* Every action leaves a job behind.
LEMMA JobKept ==
  ASSUME TypeOK, NEW w \in Workers, Step(w)
  PROVE  job' \in [Workers -> Jobs]
<1>0. DataOK /\ job \in [Workers -> Jobs] /\ job[w] \in Jobs
  BY TypeParts
<1>a. ASSUME NEW x \in Jobs, job' = [job EXCEPT ![w] = x]
      PROVE  job' \in [Workers -> Jobs]
  BY <1>0, <1>a
<1>b. Idle \in Jobs
  BY IdleType
<1>1. ASSUME NEW u \in Users, NEW r \in Resources, NEW p \in Principals, Create(w, u, r, p)
      PROVE  job' \in [Workers -> Jobs]
  BY <1>0, <1>1 DEF Create
<1>2. ASSUME NEW u \in Users, NEW g \in Groups,
             AdminAdd(w, u, g) \/ AdminRemove(w, u, g)
      PROVE  job' \in [Workers -> Jobs]
  BY <1>0, <1>2 DEF AdminAdd, AdminRemove
<1>3. ASSUME NEW u \in Users, NEW g \in Groups, Join(w, u, g) \/ Leave(w, u, g)
      PROVE  job' \in [Workers -> Jobs]
  <2>1. \A b \in BOOLEAN : [Idle EXCEPT !.phase = "member", !.lists = {<<u, g, b>>}] \in Jobs
    <3>1. \A b \in BOOLEAN : {<<u, g, b>>} \in SUBSET Listings
      BY DEF Listings
    <3> QED BY <3>1 DEF Idle, Jobs, Phases
  <2>2. Emptied(g, u) \in BOOLEAN
    BY DEF Emptied
  <2>3. PICK b \in BOOLEAN :
           job' = [job EXCEPT ![w] = [Idle EXCEPT !.phase = "member", !.lists = {<<u, g, b>>}]]
    BY <1>3, <2>2 DEF Join, Leave
  <2> QED BY <1>a, <2>1, <2>3
<1>4. ASSUME NEW g \in Groups, AdminDelete(w, g)
      PROVE  job' \in [Workers -> Jobs]
  BY <1>0, <1>4 DEF AdminDelete
<1>5. ASSUME NEW q \in Removals, RemoveAccount(w, q)
      PROVE  job' \in [Workers -> Jobs]
  <2>1. q.user \in Users
    BY DEF Removals
  <2>2. PICK l \in SUBSET Listings :
           job' = [job EXCEPT ![w] = [Idle EXCEPT !.phase = "remove", !.removal = {q}, !.lists = l]]
    <3> DEFINE mine == {g \in Groups : q.user \in members[g]}
               gone == {g \in mine : Emptied(g, q.user)}
               l == {<<q.user, g, g \in gone>> : g \in mine}
    <3>1. ASSUME NEW g \in mine
          PROVE  <<q.user, g, g \in gone>> \in Listings
      <4>1. (g \in gone) \in BOOLEAN
        OBVIOUS
      <4>2. g \in Groups
        OBVIOUS
      <4> HIDE DEF gone
      <4> QED BY <2>1, <4>1, <4>2 DEF Listings
    <3>3. l \in SUBSET Listings
      BY <3>1
    <3>2. job' = [job EXCEPT ![w] = [Idle EXCEPT !.phase = "remove", !.removal = {q}, !.lists = l]]
      BY <1>5 DEF RemoveAccount
    <3> QED BY <3>2, <3>3
  <2>3. [Idle EXCEPT !.phase = "remove", !.removal = {q}, !.lists = l] \in Jobs
    BY DEF Idle, Jobs, Phases
  <2> QED BY <1>a, <2>2, <2>3
<1>6. ASSUME NEW q \in Requests, Request(w, q)
      PROVE  job' \in [Workers -> Jobs]
  <2>1. [Idle EXCEPT !.phase = "authorize", !.request = {q}] \in Jobs
    BY DEF Idle, Jobs, Phases
  <2> QED BY <1>a, <1>6, <2>1 DEF Request
<1>7. CASE Settle(w) \/ PurgeIdentity(w) \/ Deny(w) \/ Drop(w)
  BY <1>a, <1>b, <1>7 DEF Settle, PurgeIdentity, Deny, Drop
<1>8. CASE PurgeBindings(w)
  <2>1. \A rs \in SUBSET Resources : [job[w] EXCEPT !.phase = "identity", !.sweep = rs] \in Jobs
    BY <1>0 DEF Jobs, Phases
  <2>2. PICK rs \in SUBSET Resources :
           job' = [job EXCEPT ![w] = [job[w] EXCEPT !.phase = "identity", !.sweep = rs]]
    BY <1>0, <1>8, BoundType DEF PurgeBindings
  <2> QED BY <1>a, <2>1, <2>2
<1>9. CASE ListBound(w)
  <2>1. PICK l \in job[w].lists :
          job' = [job EXCEPT ![w] = [job[w] EXCEPT
                    !.lists = job[w].lists \ {l},
                    !.todo = {<<l[1], r>> : r \in BoundTo(l[2])},
                    !.unbind = IF l[3] THEN {l[2]} ELSE {}]]
    BY <1>0, <1>9 DEF ListBound
  <2>2. l[1] \in Users /\ l[2] \in Groups
    BY <1>0 DEF Jobs, Listings
  <2>3. {<<l[1], r>> : r \in BoundTo(l[2])} \in SUBSET Rows
    BY <2>2, BoundType DEF Rows
  <2>4. (IF l[3] THEN {l[2]} ELSE {}) \in SUBSET Groups
    BY <2>2
  <2>5. \A a, b, c : a \in SUBSET Listings /\ b \in SUBSET Rows /\ c \in SUBSET Groups
          => [job[w] EXCEPT !.lists = a, !.todo = b, !.unbind = c] \in Jobs
    BY <1>0 DEF Jobs
  <2>6. job[w].lists \ {l} \in SUBSET Listings
    BY <1>0 DEF Jobs
  <2> QED BY <1>a, <2>1, <2>3, <2>4, <2>5, <2>6
<1>10. CASE DropBindings(w)
  <2>1. PICK g \in job[w].unbind :
          job' = [job EXCEPT ![w] = [job[w] EXCEPT !.unbind = job[w].unbind \ {g},
                                                   !.sweep = BoundTo(g)]]
    BY <1>0, <1>10 DEF DropBindings
  <2>2. [job[w] EXCEPT !.unbind = job[w].unbind \ {g}, !.sweep = BoundTo(g)] \in Jobs
    BY <1>0, BoundType DEF Jobs
  <2> QED BY <1>a, <2>1, <2>2
<1>11. CASE RematerializeResource(w)
  <2>1. PICK r \in job[w].sweep, t \in SUBSET Rows :
          job' = [job EXCEPT ![w] = [job[w] EXCEPT !.sweep = job[w].sweep \ {r}, !.todo = t]]
    <3>1. PICK r \in job[w].sweep :
            job' = [job EXCEPT ![w] = [job[w] EXCEPT
                      !.sweep = job[w].sweep \ {r},
                      !.todo = {cell \in Users \X {r} :
                                  effective[cell[1]][r] # {} \/ Live(cell[1], r) # {}}]]
      BY <1>0, <1>11 DEF RematerializeResource
    <3>2. r \in Resources
      BY <1>0 DEF Jobs
    <3> QED BY <3>1, <3>2 DEF Rows
  <2>2. [job[w] EXCEPT !.sweep = job[w].sweep \ {r}, !.todo = t] \in Jobs
    BY <1>0 DEF Jobs
  <2> QED BY <1>a, <2>1, <2>2
<1>12. CASE ReadLive(w)
  <2>1. PICK cell \in job[w].todo :
          job' = [job EXCEPT ![w] = [job[w] EXCEPT
                    !.todo = job[w].todo \ {cell},
                    !.seen = {[row |-> cell, flags |-> Live(cell[1], cell[2])]}]]
    BY <1>0, <1>12 DEF ReadLive
  <2>2. cell \in Rows /\ cell[1] \in Users /\ cell[2] \in Resources
    BY <1>0 DEF Jobs, Rows
  <2>3. Live(cell[1], cell[2]) \in SUBSET AccessFlags
    BY <1>0, <2>2, LiveType DEF Live, DataOK
  <2>4. {[row |-> cell, flags |-> Live(cell[1], cell[2])]} \in SUBSET Readings
    BY <2>2, <2>3 DEF Readings
  <2>5. [job[w] EXCEPT !.todo = job[w].todo \ {cell},
                       !.seen = {[row |-> cell, flags |-> Live(cell[1], cell[2])]}] \in Jobs
    BY <1>0, <2>4 DEF Jobs
  <2> QED BY <1>a, <2>1, <2>5
<1>13. CASE WriteRow(w)
  <2>1. PICK s \in job[w].seen :
          \/ job' = [job EXCEPT ![w] = Idle]
          \/ job' = [job EXCEPT ![w] = [job[w] EXCEPT !.seen = {}, !.got = s.flags]]
    BY <1>0, <1>13 DEF WriteRow
  <2>2. s.flags \in SUBSET AccessFlags
    BY <1>0 DEF Jobs, Readings
  <2>3. [job[w] EXCEPT !.seen = {}, !.got = s.flags] \in Jobs
    BY <1>0, <2>2 DEF Jobs
  <2> QED BY <1>a, <1>b, <2>1, <2>3
<1>14. CASE Authorize(w)
  <2>1. PICK q \in job[w].request :
          \/ job' = [job EXCEPT ![w] = [job[w] EXCEPT !.phase = "allowed"]]
          \/ job' = [job EXCEPT ![w] = [job[w] EXCEPT !.phase = "retry",
                                                      !.todo = {<<q.user, q.resource>>}]]
    BY <1>0, <1>14 DEF Authorize
  <2>2. q.user \in Users /\ q.resource \in Resources
    BY <1>0 DEF Jobs, Requests
  <2>3. {<<q.user, q.resource>>} \in SUBSET Rows
    BY <2>2 DEF Rows
  <2>4. [job[w] EXCEPT !.phase = "allowed"] \in Jobs
    BY <1>0 DEF Jobs, Phases
  <2>5. [job[w] EXCEPT !.phase = "retry", !.todo = {<<q.user, q.resource>>}] \in Jobs
    BY <1>0, <2>3 DEF Jobs, Phases
  <2> QED BY <1>a, <2>1, <2>4, <2>5
<1>15. CASE Retry(w)
  <2>1. \/ job' = [job EXCEPT ![w] = [job[w] EXCEPT !.phase = "allowed"]]
        \/ job' = [job EXCEPT ![w] = [job[w] EXCEPT !.phase = "denied"]]
    BY <1>0, <1>15 DEF Retry
  <2>2. \A x \in {"allowed", "denied"} : [job[w] EXCEPT !.phase = x] \in Jobs
    BY <1>0 DEF Jobs, Phases
  <2> QED BY <1>a, <2>1, <2>2
<1>16. CASE Read(w) \/ Grant(w) \/ Revoke(w)
  <2>1. PICK q \in job[w].request :
          \/ job' = [job EXCEPT ![w] = Idle]
          \/ job' = [job EXCEPT ![w] = [Idle EXCEPT !.phase = "authorize",
                                                    !.request = {Answering(q)}]]
          \/ job' = [job EXCEPT ![w] = [Idle EXCEPT !.phase = "authorize",
                                                    !.request = {Answering(q)},
                                                    !.sweep = {q.resource}]]
    BY <1>0, <1>16 DEF Read, Grant, Revoke, Rebound
  <2>2. q.user \in Users /\ q.resource \in Resources
    BY <1>0 DEF Jobs, Requests
  <2>3. {Answering(q)} \in SUBSET Requests
    BY <2>2 DEF Answering, Requests
  <2>4. [Idle EXCEPT !.phase = "authorize", !.request = {Answering(q)}] \in Jobs
    BY <2>3 DEF Idle, Jobs, Phases
  <2>5. [Idle EXCEPT !.phase = "authorize", !.request = {Answering(q)},
                     !.sweep = {q.resource}] \in Jobs
    BY <2>2, <2>3 DEF Idle, Jobs, Phases
  <2> QED BY <1>a, <1>b, <2>1, <2>4, <2>5
<1> QED BY <1>1, <1>2, <1>3, <1>4, <1>5, <1>6, <1>7, <1>8, <1>9, <1>10, <1>11,
           <1>12, <1>13, <1>14, <1>15, <1>16 DEF Step

LEMMA TypesKept == TypeOK /\ [Next]_vars => TypeOK'
<1> SUFFICES ASSUME TypeOK, [Next]_vars PROVE TypeOK'
  OBVIOUS
<1>1. CASE UNCHANGED vars
  BY <1>1 DEF vars, TypeOK
<1>2. ASSUME NEW w \in Workers, Step(w)
      PROVE  TypeOK'
  <2>1. DataOK' /\ (job \in [Workers -> Jobs])'
    BY <1>2, DataKept, JobKept
  <2> QED BY <2>1 DEF TypeOK, DataOK, Bindings, Effective, Members
<1> QED BY <1>1, <1>2 DEF Next

\* Every stored grant set is normalised and every job is one the handlers make,
\* for any number of workers.
THEOREM AccessTypeOK == Spec => []TypeOK
<1> QED BY InitTypes, TypesKept, PTL DEF Spec

-----------------------------------------------------------------------------
(* One worker: the inductive invariant says which rows the running job still *)
(* owes; every row is either live or covered by the job's remaining work.    *)

\* The remaining work of a job rewrites the row of u for r.
Covers(j, u, r) ==
    \/ <<u, r>> \in j.todo
    \/ \E s \in j.seen : s.row = <<u, r>>
    \/ r \in j.sweep
    \/ \E l \in j.lists : l[1] = u /\ bindings[r][l[2]] # {}

Owed(w) ==
    \A u \in Users, r \in Resources :
        effective[u][r] = Live(u, r) \/ Covers(job[w], u, r)

\* What was read is still so, as nobody else is at work.
SeenLive(w) ==
    /\ \A s \in job[w].seen : s.flags = Live(s.row[1], s.row[2])
    /\ \A s, t \in job[w].seen : s = t

\* The groups a job takes for deleted have no members.
Departed(w) ==
    /\ \A l \in job[w].lists : l[3] => members[l[2]] = {}
    /\ \A g \in job[w].unbind : members[g] = {}

\* A purged account is in no group and holds nothing, and from the point where
\* a removal has taken it out, the account being removed neither.
Gone(w, phases, u) ==
    \/ status[u] = "purged"
    \/ job[w].phase \in phases /\ \E q \in job[w].removal : q.user = u

Left(w) ==
    \A u \in Users : Gone(w, {"remove", "identity"}, u) =>
        \A g \in Groups : u \notin members[g]

Erased(w) ==
    \A u \in Users : Gone(w, {"identity"}, u) =>
        \A r \in Resources : bindings[r][u] = {}

\* A request that has been decided has nothing left to rematerialise.
Quiet(w) == job[w].phase \in {"allowed", "denied"} => Clear(job[w])

OneRequest(w) ==
    /\ \A p, q \in job[w].request : p = q
    /\ job[w].phase \in {"remove", "identity"} => \A p, q \in job[w].removal : p = q

\* The retry of authorize rematerialises the row of its own request only.
RetryKnows(w) ==
    job[w].phase = "retry" =>
        /\ job[w].lists = {} /\ job[w].unbind = {} /\ job[w].sweep = {}
        /\ \A q \in job[w].request :
              /\ \A cell \in job[w].todo : cell = <<q.user, q.resource>>
              /\ \A s \in job[w].seen : s.row = <<q.user, q.resource>>
              /\ job[w].todo # {} \/ job[w].seen # {} \/ job[w].got = Live(q.user, q.resource)

\* Who was allowed may.
AllowedMay(w) ==
    job[w].phase = "allowed" =>
        \A q \in job[w].request : Need(q) \in Live(q.user, q.resource)

Sound(w) ==
    /\ Owed(w) /\ SeenLive(w) /\ Departed(w) /\ Left(w) /\ Erased(w)
    /\ Quiet(w) /\ OneRequest(w) /\ RetryKnows(w) /\ AllowedMay(w)

IInv == TypeOK /\ \A w \in Workers : Sound(w)

-----------------------------------------------------------------------------
(* What the live flags depend on.                                            *)

\* Live flags stay when the user's own binding stays and every group's either
\* stays with the membership or does not count before nor after.
LEMMA LiveSame ==
  ASSUME NEW m, NEW n, NEW b, NEW c, NEW u, NEW r,
         b[r][u] = c[r][u],
         \A g \in Groups :
            \/ (u \in m[g] <=> u \in n[g]) /\ b[r][g] = c[r][g]
            \/ (u \notin m[g] \/ b[r][g] = {}) /\ (u \notin n[g] \/ c[r][g] = {})
  PROVE  LiveIn(m, b, u, r) = LiveIn(n, c, u, r)
<1>1. ASSUME NEW f \in LiveIn(m, b, u, r)
      PROVE  f \in LiveIn(n, c, u, r)
  <2>1. PICK p \in {u} \union {g \in Groups : u \in m[g]} : f \in FlagsOfGrantSet(b[r][p])
    BY <1>1 DEF LiveIn
  <2>2. CASE p = u
    BY <2>1, <2>2 DEF LiveIn
  <2>3. CASE p # u
    <3>1. p \in Groups /\ u \in m[p] /\ b[r][p] # {}
      BY <2>1, <2>3, FlagsOfNothing
    <3>2. u \in n[p] /\ b[r][p] = c[r][p]
      BY <3>1
    <3> QED BY <2>1, <3>1, <3>2 DEF LiveIn
  <2> QED BY <2>2, <2>3
<1>2. ASSUME NEW f \in LiveIn(n, c, u, r)
      PROVE  f \in LiveIn(m, b, u, r)
  <2>1. PICK p \in {u} \union {g \in Groups : u \in n[g]} : f \in FlagsOfGrantSet(c[r][p])
    BY <1>2 DEF LiveIn
  <2>2. CASE p = u
    BY <2>1, <2>2 DEF LiveIn
  <2>3. CASE p # u
    <3>1. p \in Groups /\ u \in n[p] /\ c[r][p] # {}
      BY <2>1, <2>3, FlagsOfNothing
    <3>2. u \in m[p] /\ b[r][p] = c[r][p]
      BY <3>1
    <3> QED BY <2>1, <3>1, <3>2 DEF LiveIn
  <2> QED BY <2>2, <2>3
<1> QED BY <1>1, <1>2

LEMMA LiveNothing ==
  ASSUME NEW m, NEW b, NEW u, NEW r,
         b[r][u] = {}, \A g \in Groups : u \in m[g] => b[r][g] = {}
  PROVE  LiveIn(m, b, u, r) = {}
  BY FlagsOfNothing DEF LiveIn

LEMMA LiveNext == \A u, r : Live(u, r)' = LiveIn(members', bindings', u, r)
  BY DEF Live

\* A finished or idle job owes nothing.
LEMMA ClearOwesNothing ==
  ASSUME NEW w \in Workers, Owed(w), Clear(job[w])
  PROVE  \A u \in Users, r \in Resources : effective[u][r] = Live(u, r)
  BY DEF Owed, Covers, Clear

LEMMA IdleClear == Clear(Idle) /\ Idle.phase = "idle" /\ Idle.request = {} /\ Idle.removal = {}
  BY DEF Clear, Idle

\* What is left of soundness when the worker becomes idle.
LEMMA IdleSound ==
  ASSUME NEW w \in Workers, job'[w] = Idle,
         \A u \in Users, r \in Resources : effective'[u][r] = Live(u, r)',
         \A u \in Users : status'[u] = "purged" =>
            /\ \A g \in Groups : u \notin members'[g]
            /\ \A r \in Resources : bindings'[r][u] = {}
  PROVE  Sound(w)'
<1> USE IdleClear
<1>1. Owed(w)' /\ SeenLive(w)' /\ Departed(w)'
  BY DEF Owed, SeenLive, Departed, Clear
<1>2. Left(w)' /\ Erased(w)'
  BY DEF Left, Erased, Gone
<1>3. Quiet(w)' /\ OneRequest(w)' /\ RetryKnows(w)' /\ AllowedMay(w)'
  BY DEF Quiet, OneRequest, RetryKnows, AllowedMay
<1> QED BY <1>1, <1>2, <1>3 DEF Sound

LEMMA PurgedHoldNothing ==
  ASSUME NEW w \in Workers, Sound(w)
  PROVE  \A u \in Users : status[u] = "purged" =>
            /\ \A g \in Groups : u \notin members[g]
            /\ \A r \in Resources : bindings[r][u] = {}
  BY DEF Sound, Left, Erased, Gone

LEMMA InitSound == Init => IInv
<1> SUFFICES ASSUME Init, NEW w \in Workers PROVE Sound(w)
  BY InitTypes DEF IInv
<1>1. \A u \in Users, r \in Resources : Live(u, r) = {}
  BY LiveNothing DEF Init, Live, Principals
<1>2. job[w] = Idle
  BY DEF Init
<1> USE IdleClear
<1>3. Owed(w) /\ SeenLive(w) /\ Departed(w)
  BY <1>1, <1>2 DEF Owed, SeenLive, Departed, Clear, Init
<1>4. Left(w) /\ Erased(w)
  BY <1>2 DEF Left, Erased, Gone, Init
<1>5. Quiet(w) /\ OneRequest(w) /\ RetryKnows(w) /\ AllowedMay(w)
  BY <1>2 DEF Quiet, OneRequest, RetryKnows, AllowedMay
<1> QED BY <1>3, <1>4, <1>5 DEF Sound

-----------------------------------------------------------------------------
(* Transactions leave the worker idle and the rows exact.                    *)

\* The facts about the types that the steps use.
LEMMA Typed ==
  ASSUME TypeOK
  PROVE  /\ status \in [Users -> {"active", "deactivated", "purged"}]
         /\ groups \subseteq Groups
         /\ members \in [Groups -> SUBSET Users]
         /\ bindings \in [Resources -> [Principals -> NormalSets]]
         /\ effective \in [Users -> [Resources -> SUBSET AccessFlags]]
         /\ job \in [Workers -> Jobs]
  BY DEF TypeOK

LEMMA IdleExact ==
  ASSUME NEW w \in Workers, Sound(w), job[w] = Idle
  PROVE  \A u \in Users, r \in Resources : effective[u][r] = Live(u, r)
  BY ClearOwesNothing, IdleClear DEF Sound

LEMMA CreateSound ==
  ASSUME TypeOK, NEW w \in Workers, Sound(w),
         NEW v \in Users, NEW x \in Resources, NEW p \in Principals, Create(w, v, x, p)
  PROVE  Sound(w)'
<1> USE Typed
<1>1. /\ bindings' = [bindings EXCEPT ![x][p] = {"owner"}]
      /\ effective' = Rematerialized(members, bindings', {x})
      /\ members' = members /\ status' = status /\ job' = job /\ job[w] = Idle
      /\ status[v] = "active" /\ (p = v \/ p \in groups)
  BY DEF Create
<1>2. \A r \in Resources : r # x => bindings'[r] = bindings[r]
  BY <1>1
<1>3. ASSUME NEW u \in Users, NEW r \in Resources
      PROVE  effective'[u][r] = Live(u, r)'
  <2>1. CASE r = x
    BY <1>1, <2>1, LiveNext DEF Rematerialized
  <2>2. CASE r # x
    <3>1. effective'[u][r] = effective[u][r]
      BY <1>1, <2>2 DEF Rematerialized
    <3>2. effective[u][r] = LiveIn(members, bindings, u, r)
      BY <1>1, IdleExact DEF Live
    <3>3. LiveIn(members, bindings, u, r) = LiveIn(members', bindings', u, r)
      <4>1. bindings'[r] = bindings[r] /\ members' = members
        BY <1>1, <1>2, <2>2
      <4> QED BY <4>1 DEF LiveIn
    <3> QED BY <3>1, <3>2, <3>3, LiveNext
  <2> QED BY <2>1, <2>2
<1>4. ASSUME NEW u \in Users, status'[u] = "purged"
      PROVE  /\ \A g \in Groups : u \notin members'[g]
             /\ \A r \in Resources : bindings'[r][u] = {}
  <2>1. status[u] = "purged" /\ u # p
    BY <1>1, <1>4, AccessAssumption
  <2>2. \A r \in Resources : bindings'[r][u] = bindings[r][u]
    BY <1>1, <2>1 DEF Principals
  <2> QED BY <1>1, <2>1, <2>2, PurgedHoldNothing
<1> QED BY <1>1, <1>3, <1>4, IdleSound

\* The rows of one user for the resources bound to a group, after the user
\* joined or left it.
LEMMA MemberExact ==
  ASSUME TypeOK, NEW w \in Workers, Sound(w), job[w] = Idle,
         NEW v \in Users, NEW h \in Groups, NEW n,
         \A g \in Groups : g # h => n[g] = members[g],
         \A x \in Users : x # v => (x \in n[h] <=> x \in members[h]),
         NEW u \in Users, NEW r \in Resources,
         u # v \/ r \notin BoundTo(h)
  PROVE  effective[u][r] = LiveIn(n, bindings, u, r)
<1>1. effective[u][r] = LiveIn(members, bindings, u, r)
  BY IdleExact DEF Live
<1>2. LiveIn(members, bindings, u, r) = LiveIn(n, bindings, u, r)
  <2>1. \A g \in Groups :
           \/ (u \in members[g] <=> u \in n[g]) /\ bindings[r][g] = bindings[r][g]
           \/ (u \notin members[g] \/ bindings[r][g] = {}) /\ (u \notin n[g] \/ bindings[r][g] = {})
    BY DEF BoundTo
  <2> QED BY <2>1, LiveSame
<1> QED BY <1>1, <1>2

LEMMA AdminAddSound ==
  ASSUME TypeOK, NEW w \in Workers, Sound(w),
         NEW v \in Users, NEW h \in Groups, AdminAdd(w, v, h)
  PROVE  Sound(w)'
<1> USE Typed
<1>1. /\ members' = [members EXCEPT ![h] = members[h] \union {v}]
      /\ bindings' = bindings /\ status' = status /\ job' = job /\ job[w] = Idle
      /\ status[v] = "active"
  BY DEF AdminAdd
<1>2. \A u \in Users, r \in Resources :
        effective'[u][r] = IF u = v /\ r \in BoundTo(h)
                           THEN LiveIn(members', bindings, u, r)
                           ELSE effective[u][r]
  BY DEF AdminAdd
<1>3. ASSUME NEW u \in Users, NEW r \in Resources
      PROVE  effective'[u][r] = Live(u, r)'
  <2>1. CASE u = v /\ r \in BoundTo(h)
    BY <1>1, <1>2, <2>1, LiveNext
  <2>2. CASE u # v \/ r \notin BoundTo(h)
    <3>1. \A g \in Groups : g # h => members'[g] = members[g]
      BY <1>1
    <3>2. \A x \in Users : x # v => (x \in members'[h] <=> x \in members[h])
      BY <1>1
    <3>0. job[w] = Idle
      BY <1>1
    <3> HIDE Typed
    <3>3. effective[u][r] = LiveIn(members', bindings, u, r)
      BY <2>2, <3>0, <3>1, <3>2, MemberExact
    <3> QED BY <1>1, <1>2, <2>2, <3>3, LiveNext
  <2> QED BY <2>1, <2>2
<1>4. \A u \in Users : status'[u] = "purged" =>
         /\ \A g \in Groups : u \notin members'[g]
         /\ \A r \in Resources : bindings'[r][u] = {}
  BY <1>1, PurgedHoldNothing
<1> QED BY <1>1, <1>3, <1>4, IdleSound

\* A group that is deleted together with its bindings.
LEMMA DissolvedExact ==
  ASSUME TypeOK, NEW w \in Workers, Sound(w), job[w] = Idle,
         NEW h \in Groups, NEW n, NEW m,
         \A g \in Groups : g # h => n[g] = members[g] /\ m[g] = members[g],
         n[h] = {},
         effective' = Rematerialized(m, Unbound(h), BoundTo(h)),
         NEW u \in Users, NEW r \in Resources
  PROVE  effective'[u][r] = LiveIn(n, Unbound(h), u, r)
<1> USE Typed
<1>1. /\ Unbound(h)[r][h] = {}
      /\ \A p \in Principals : p # h => Unbound(h)[r][p] = bindings[r][p]
      /\ u # h
  BY AccessAssumption DEF Unbound, Principals
<1>2. CASE r \in BoundTo(h)
  <2>1. effective'[u][r] = LiveIn(m, Unbound(h), u, r)
    BY <1>2 DEF Rematerialized
  <2>2. LiveIn(m, Unbound(h), u, r) = LiveIn(n, Unbound(h), u, r)
    BY <1>1, LiveSame
  <2> QED BY <2>1, <2>2
<1>3. CASE r \notin BoundTo(h)
  <2>1. effective'[u][r] = LiveIn(members, bindings, u, r)
    BY <1>3, IdleExact DEF Rematerialized, Live
  <2>2. bindings[r][h] = {}
    BY <1>3 DEF BoundTo
  <2>3. Unbound(h)[r][u] = bindings[r][u] /\ \A g \in Groups : Unbound(h)[r][g] = bindings[r][g]
    BY <1>1, <2>2 DEF Principals
  <2>4. LiveIn(members, bindings, u, r) = LiveIn(n, Unbound(h), u, r)
    BY <1>1, <2>2, <2>3, LiveSame
  <2> QED BY <2>1, <2>4
<1> QED BY <1>2, <1>3

LEMMA AdminRemoveSound ==
  ASSUME TypeOK, NEW w \in Workers, Sound(w),
         NEW v \in Users, NEW h \in Groups, AdminRemove(w, v, h)
  PROVE  Sound(w)'
<1> USE Typed
<1>1. /\ members' = [members EXCEPT ![h] = members[h] \ {v}]
      /\ status' = status /\ job' = job /\ job[w] = Idle
  BY DEF AdminRemove
<1>2. CASE Emptied(h, v)
  <2>1. bindings' = Unbound(h) /\ effective' = Rematerialized(members', Unbound(h), BoundTo(h))
    BY <1>2 DEF AdminRemove
  <2>2. members'[h] = {} /\ \A g \in Groups : g # h => members'[g] = members[g]
    BY <1>1, <1>2 DEF Emptied
  <2>3. \A u \in Users, r \in Resources : effective'[u][r] = Live(u, r)'
    <3>1. \A g \in Groups : g # h => members'[g] = members[g] /\ members'[g] = members[g]
      BY <2>2
    <3>2. effective' = Rematerialized(members', Unbound(h), BoundTo(h))
      BY <2>1
    <3>3. ASSUME NEW u \in Users, NEW r \in Resources
          PROVE  effective'[u][r] = LiveIn(members', Unbound(h), u, r)
      <4>1. job[w] = Idle /\ members'[h] = {}
        BY <1>1, <2>2
      <4> DEFINE n == members'
      <4>2. n[h] = {} /\ effective' = Rematerialized(n, Unbound(h), BoundTo(h))
        BY <4>1, <3>2
      <4>3. \A g \in Groups : g # h => n[g] = members[g] /\ n[g] = members[g]
        BY <3>1
      <4> HIDE Typed DEF n
      <4>4. effective'[u][r] = LiveIn(n, Unbound(h), u, r)
        BY <4>1, <4>2, <4>3, DissolvedExact
      <4> QED BY <4>4 DEF n
    <3> QED BY <2>1, <3>3, LiveNext
  <2>4. \A u \in Users : status'[u] = "purged" =>
           /\ \A g \in Groups : u \notin members'[g]
           /\ \A r \in Resources : bindings'[r][u] = {}
    BY <1>1, <2>1, PurgedHoldNothing DEF Unbound
  <2> QED BY <1>1, <2>3, <2>4, IdleSound
<1>3. CASE ~Emptied(h, v)
  <2>1. bindings' = bindings
    BY <1>3 DEF AdminRemove
  <2>2. \A u \in Users, r \in Resources :
          effective'[u][r] = IF u = v /\ r \in BoundTo(h)
                             THEN LiveIn(members', bindings, u, r)
                             ELSE effective[u][r]
    <3>1. effective' = [effective EXCEPT ![v] =
             [r \in Resources |-> IF r \in BoundTo(h) THEN LiveIn(members', bindings, v, r)
                                                   ELSE effective[v][r]]]
      BY <1>3 DEF AdminRemove
    <3> QED BY <3>1
  <2>3. ASSUME NEW u \in Users, NEW r \in Resources
        PROVE  effective'[u][r] = Live(u, r)'
    <3>1. CASE u = v /\ r \in BoundTo(h)
      BY <2>1, <2>2, <3>1, LiveNext
    <3>2. CASE u # v \/ r \notin BoundTo(h)
      <4>1. \A g \in Groups : g # h => members'[g] = members[g]
        BY <1>1
      <4>2. \A x \in Users : x # v => (x \in members'[h] <=> x \in members[h])
        BY <1>1
      <4>0. job[w] = Idle
        BY <1>1
      <4> HIDE Typed
      <4>3. effective[u][r] = LiveIn(members', bindings, u, r)
        BY <3>2, <4>0, <4>1, <4>2, MemberExact
      <4> QED BY <1>1, <2>1, <2>2, <3>2, <4>3, LiveNext
    <3> QED BY <3>1, <3>2
  <2>4. \A u \in Users : status'[u] = "purged" =>
           /\ \A g \in Groups : u \notin members'[g]
           /\ \A r \in Resources : bindings'[r][u] = {}
    BY <1>1, <2>1, PurgedHoldNothing
  <2> QED BY <1>1, <2>3, <2>4, IdleSound
<1> QED BY <1>2, <1>3

LEMMA AdminDeleteSound ==
  ASSUME TypeOK, NEW w \in Workers, Sound(w), NEW h \in Groups, AdminDelete(w, h)
  PROVE  Sound(w)'
<1> USE Typed
<1>1. /\ members' = [members EXCEPT ![h] = {}]
      /\ bindings' = Unbound(h)
      /\ effective' = Rematerialized(members, Unbound(h), BoundTo(h))
      /\ status' = status /\ job' = job /\ job[w] = Idle
  BY DEF AdminDelete
<1>2. \A u \in Users, r \in Resources : effective'[u][r] = Live(u, r)'
  BY <1>1, DissolvedExact, LiveNext
<1>3. \A u \in Users : status'[u] = "purged" =>
         /\ \A g \in Groups : u \notin members'[g]
         /\ \A r \in Resources : bindings'[r][u] = {}
  BY <1>1, PurgedHoldNothing DEF Unbound
<1> QED BY <1>1, <1>2, <1>3, IdleSound

-----------------------------------------------------------------------------
(* Membership changes leave a job that owes the rows they touch.             *)

LEMMA MemberSound ==
  ASSUME TypeOK, NEW w \in Workers, Sound(w), job[w] = Idle,
         NEW v \in Users, NEW h \in Groups, NEW b \in BOOLEAN, status[v] = "active",
         \A g \in Groups : g # h => members'[g] = members[g],
         \A x \in Users : x # v => (x \in members'[h] <=> x \in members[h]),
         b => members'[h] = {},
         bindings' = bindings, effective' = effective, status' = status,
         job'[w] = [Idle EXCEPT !.phase = "member", !.lists = {<<v, h, b>>}]
  PROVE  Sound(w)'
<1>1. /\ job'[w].phase = "member" /\ job'[w].request = {} /\ job'[w].removal = {}
      /\ job'[w].lists = {<<v, h, b>>} /\ job'[w].unbind = {} /\ job'[w].seen = {}
  BY DEF Idle
<1>2. ASSUME NEW u \in Users, NEW r \in Resources
      PROVE  effective'[u][r] = Live(u, r)' \/ Covers(job[w], u, r)'
  <2>1. CASE u # v \/ r \notin BoundTo(h)
    <3>1. effective[u][r] = LiveIn(members', bindings, u, r)
      BY <2>1, MemberExact
    <3> QED BY <3>1, LiveNext
  <2>2. CASE u = v /\ r \in BoundTo(h)
    <3>1. <<v, h, b>> \in job'[w].lists /\ bindings'[r][h] # {}
      BY <1>1, <2>2 DEF BoundTo
    <3>2. \E l \in job'[w].lists : l[1] = u /\ bindings'[r][l[2]] # {}
      BY <2>2, <3>1
    <3> QED BY <3>2 DEF Covers
  <2> QED BY <2>1, <2>2
<1>3. Departed(w)' /\ SeenLive(w)'
  BY <1>1 DEF Departed, SeenLive
<1>4. \A u \in Users : status'[u] = "purged" =>
         /\ \A g \in Groups : u \notin members'[g]
         /\ \A r \in Resources : bindings'[r][u] = {}
  BY PurgedHoldNothing
<1>5. Left(w)' /\ Erased(w)'
  BY <1>1, <1>4 DEF Left, Erased, Gone
<1>6. Quiet(w)' /\ OneRequest(w)' /\ RetryKnows(w)' /\ AllowedMay(w)'
  BY <1>1 DEF Quiet, OneRequest, RetryKnows, AllowedMay
<1> QED BY <1>2, <1>3, <1>5, <1>6 DEF Sound, Owed

LEMMA JoinLeaveSound ==
  ASSUME TypeOK, NEW w \in Workers, Sound(w),
         NEW v \in Users, NEW h \in Groups, Join(w, v, h) \/ Leave(w, v, h)
  PROVE  Sound(w)'
<1>1. /\ job[w] = Idle /\ status[v] = "active"
      /\ bindings' = bindings /\ effective' = effective /\ status' = status
  BY DEF Join, Leave
<1>2. PICK b \in BOOLEAN :
         /\ job'[w] = [Idle EXCEPT !.phase = "member", !.lists = {<<v, h, b>>}]
         /\ b => members'[h] = {}
  <2>1. CASE Join(w, v, h)
    BY <2>1, Typed DEF Join
  <2>2. CASE Leave(w, v, h)
    <3>1. Emptied(h, v) \in BOOLEAN
      BY DEF Emptied
    <3>2. Emptied(h, v) => members'[h] = {}
      BY <2>2, Typed DEF Leave, Emptied
    <3>3. job'[w] = [Idle EXCEPT !.phase = "member", !.lists = {<<v, h, Emptied(h, v)>>}]
      BY <2>2, Typed DEF Leave
    <3> QED BY <3>1, <3>2, <3>3
  <2> QED BY <2>1, <2>2
<1>3. /\ \A g \in Groups : g # h => members'[g] = members[g]
      /\ \A x \in Users : x # v => (x \in members'[h] <=> x \in members[h])
  BY Typed DEF Join, Leave
<1> QED BY <1>1, <1>2, <1>3, MemberSound

LEMMA RemoveSound ==
  ASSUME TypeOK, NEW w \in Workers, Sound(w), NEW q \in Removals, RemoveAccount(w, q)
  PROVE  Sound(w)'
<1> DEFINE v == q.user
           mine == {g \in Groups : v \in members[g]}
           gone == {g \in mine : Emptied(g, v)}
           rest == {<<v, g, g \in gone>> : g \in mine}
<1>1. /\ job[w] = Idle /\ status[v] # "purged"
      /\ bindings' = bindings /\ effective' = effective /\ status' = status
      /\ members' = [g \in Groups |-> members[g] \ {v}]
      /\ job' = [job EXCEPT ![w] = [Idle EXCEPT !.phase = "remove", !.removal = {q},
                                                !.lists = rest]]
  BY DEF RemoveAccount
<1>2. /\ job'[w].phase = "remove" /\ job'[w].request = {} /\ job'[w].removal = {q}
      /\ job'[w].lists = rest /\ job'[w].unbind = {} /\ job'[w].seen = {}
  BY <1>1, Typed DEF Idle
<1>3. ASSUME NEW u \in Users, NEW r \in Resources
      PROVE  effective'[u][r] = Live(u, r)' \/ Covers(job[w], u, r)'
  <2>1. effective[u][r] = LiveIn(members, bindings, u, r)
    BY <1>1, IdleExact DEF Live
  <2>2. CASE \E g \in mine : u = v /\ bindings[r][g] # {}
    <3>1. PICK g \in mine : u = v /\ bindings[r][g] # {}
      BY <2>2
    <3>2. \E l \in rest : l[1] = u /\ bindings[r][l[2]] # {}
      <4>1. <<v, g, g \in gone>> \in rest
        OBVIOUS
      <4> QED BY <3>1, <4>1
    <3> QED BY <1>1, <1>2, <3>2 DEF Covers
  <2>3. CASE ~\E g \in mine : u = v /\ bindings[r][g] # {}
    <3>1. \A g \in Groups :
             \/ (u \in members[g] <=> u \in members'[g]) /\ bindings[r][g] = bindings[r][g]
             \/ (u \notin members[g] \/ bindings[r][g] = {})
                /\ (u \notin members'[g] \/ bindings[r][g] = {})
      BY <1>1, <2>3
    <3>2. LiveIn(members, bindings, u, r) = LiveIn(members', bindings, u, r)
      BY <3>1, LiveSame
    <3> QED BY <1>1, <2>1, <3>2, LiveNext
  <2> QED BY <2>2, <2>3
<1>4. Departed(w)' /\ SeenLive(w)'
  <2>1. \A l \in rest : l[3] => members'[l[2]] = {}
    <3>1. ASSUME NEW l \in rest, l[3]
          PROVE  members'[l[2]] = {}
      <4>1. PICK g \in mine : l = <<v, g, g \in gone>>
        OBVIOUS
      <4>2. g \in gone /\ l[2] = g
        BY <3>1, <4>1
      <4> QED BY <1>1, <4>2 DEF Emptied
    <3> QED BY <3>1
  <2> QED BY <1>2, <2>1 DEF Departed, SeenLive
<1>5. \A u \in Users : status'[u] = "purged" =>
         /\ \A g \in Groups : u \notin members'[g]
         /\ \A r \in Resources : bindings'[r][u] = {}
  BY <1>1, PurgedHoldNothing
<1>6. Left(w)' /\ Erased(w)'
  BY <1>1, <1>2, <1>5 DEF Left, Erased, Gone
<1>7. Quiet(w)' /\ OneRequest(w)' /\ RetryKnows(w)' /\ AllowedMay(w)'
  BY <1>2 DEF Quiet, OneRequest, RetryKnows, AllowedMay
<1> QED BY <1>3, <1>4, <1>6, <1>7 DEF Sound, Owed

LEMMA SettleSound ==
  ASSUME TypeOK, NEW w \in Workers, Sound(w), Settle(w) \/ Deny(w)
  PROVE  Sound(w)'
<1>1. /\ Clear(job[w]) /\ job'[w] = Idle
      /\ members' = members /\ bindings' = bindings /\ effective' = effective
  BY Typed DEF Settle, Deny, Sound, Quiet
<1>2. \A u \in Users : status'[u] = "purged" => status[u] = "purged"
  BY Typed DEF Settle, Deny
<1>3. \A u \in Users, r \in Resources : effective'[u][r] = Live(u, r)'
  BY <1>1, ClearOwesNothing, LiveNext DEF Sound, Live
<1> QED BY <1>1, <1>2, <1>3, PurgedHoldNothing, IdleSound

-----------------------------------------------------------------------------
(* Steps that only move a job on.                                            *)

\* The data stays: a row is still live, and it is enough that the new job
\* covers what the old one did or that the row is exact.
LEMMA MovedSound ==
  ASSUME NEW w \in Workers, Sound(w),
         bindings' = bindings, members' = members, effective' = effective, status' = status,
         \A u \in Users, r \in Resources :
            Covers(job[w], u, r) => Covers(job'[w], u, r) \/ effective[u][r] = Live(u, r),
         \A s \in job'[w].seen : s.flags = Live(s.row[1], s.row[2]),
         \A s, t \in job'[w].seen : s = t,
         \A l \in job'[w].lists : l \in job[w].lists,
         \A g \in job'[w].unbind : members[g] = {},
         job'[w].removal = job[w].removal \/ job'[w].phase \notin {"remove", "identity"},
         job'[w].phase \in {"remove", "identity"} => job'[w].phase = job[w].phase,
         job'[w].phase \in {"allowed", "denied"} => Clear(job'[w]),
         \A p, q \in job'[w].request : p = q,
         RetryKnows(w)', AllowedMay(w)'
  PROVE  Sound(w)'
<1>1. \A u, r : Live(u, r)' = Live(u, r)
  BY LiveNext DEF Live
<1>2. Owed(w)'
  <2>1. \A u, r : Covers(job[w], u, r)' <=> Covers(job'[w], u, r)
    BY DEF Covers
  <2> QED BY <1>1, <2>1 DEF Sound, Owed
<1>3. SeenLive(w)' /\ Departed(w)'
  BY <1>1 DEF Sound, SeenLive, Departed
<1>4. Left(w)' /\ Erased(w)'
  BY DEF Sound, Left, Erased, Gone
<1>5. Quiet(w)' /\ OneRequest(w)'
  BY DEF Sound, Quiet, OneRequest, Clear
<1> QED BY <1>2, <1>3, <1>4, <1>5 DEF Sound

LEMMA RequestSound ==
  ASSUME TypeOK, NEW w \in Workers, Sound(w), NEW q \in Requests, Request(w, q)
  PROVE  Sound(w)'
<1>1. /\ job[w] = Idle
      /\ bindings' = bindings /\ members' = members /\ effective' = effective /\ status' = status
      /\ job'[w] = [Idle EXCEPT !.phase = "authorize", !.request = {q}]
  BY Typed DEF Request
<1>2. /\ job'[w].phase = "authorize" /\ job'[w].request = {q} /\ job'[w].seen = {}
      /\ job'[w].lists = {} /\ job'[w].unbind = {}
  BY <1>1 DEF Idle
<1>3. RetryKnows(w)' /\ AllowedMay(w)'
  BY <1>2 DEF RetryKnows, AllowedMay
<1>4. \A u \in Users, r \in Resources : effective[u][r] = Live(u, r)
  BY <1>1, IdleExact
<1> QED BY <1>1, <1>2, <1>3, <1>4, MovedSound

LEMMA ListBoundSound ==
  ASSUME TypeOK, NEW w \in Workers, Sound(w), ListBound(w)
  PROVE  Sound(w)'
<1>1. /\ bindings' = bindings /\ members' = members /\ effective' = effective /\ status' = status
      /\ job[w].seen = {} /\ job[w].todo = {} /\ job[w].sweep = {} /\ job[w].unbind = {}
  BY DEF ListBound
<1>2. PICK l \in job[w].lists :
        job'[w] = [job[w] EXCEPT
                    !.lists = job[w].lists \ {l},
                    !.todo = {<<l[1], r>> : r \in BoundTo(l[2])},
                    !.unbind = IF l[3] THEN {l[2]} ELSE {}]
  BY Typed DEF ListBound
<1>3. /\ job'[w].lists = job[w].lists \ {l}
      /\ job'[w].todo = {<<l[1], r>> : r \in BoundTo(l[2])}
      /\ job'[w].unbind = IF l[3] THEN {l[2]} ELSE {}
      /\ job'[w].phase = job[w].phase /\ job'[w].request = job[w].request
      /\ job'[w].removal = job[w].removal /\ job'[w].seen = {}
      /\ job'[w].sweep = {}
  <2>1. job[w] \in Jobs
    BY Typed
  <2> QED BY <1>1, <1>2, <2>1 DEF Jobs
<1>4. ASSUME NEW u \in Users, NEW r \in Resources, Covers(job[w], u, r)
      PROVE  Covers(job'[w], u, r)
  <2>1. PICK k \in job[w].lists : k[1] = u /\ bindings[r][k[2]] # {}
    BY <1>1, <1>4 DEF Covers
  <2>2. CASE k = l
    <3>1. <<u, r>> \in job'[w].todo
      BY <1>3, <2>1, <2>2 DEF BoundTo
    <3> QED BY <3>1 DEF Covers
  <2>3. CASE k # l
    <3>1. k \in job'[w].lists
      BY <1>3, <2>3
    <3> QED BY <2>1, <3>1 DEF Covers
  <2> QED BY <2>2, <2>3
<1>5. \A g \in job'[w].unbind : members[g] = {}
  BY <1>3 DEF Sound, Departed
<1>6. job[w].phase \notin {"allowed", "denied", "retry"}
  BY <1>2 DEF Sound, Quiet, Clear, RetryKnows
<1>7. RetryKnows(w)' /\ AllowedMay(w)'
  BY <1>3, <1>6 DEF RetryKnows, AllowedMay
<1>8. \A p, q \in job'[w].request : p = q
  BY <1>3 DEF Sound, OneRequest
<1> QED BY <1>1, <1>3, <1>4, <1>5, <1>6, <1>7, <1>8, MovedSound

LEMMA RematerializeSound ==
  ASSUME TypeOK, NEW w \in Workers, Sound(w), RematerializeResource(w)
  PROVE  Sound(w)'
<1>1. /\ bindings' = bindings /\ members' = members /\ effective' = effective /\ status' = status
      /\ job[w].seen = {} /\ job[w].todo = {}
  BY DEF RematerializeResource
<1>2. PICK x \in job[w].sweep :
        job'[w] = [job[w] EXCEPT
                    !.sweep = job[w].sweep \ {x},
                    !.todo = {cell \in Users \X {x} :
                                 effective[cell[1]][x] # {} \/ Live(cell[1], x) # {}}]
  BY Typed DEF RematerializeResource
<1>3. /\ job'[w].lists = job[w].lists /\ job'[w].unbind = job[w].unbind
      /\ job'[w].todo = {cell \in Users \X {x} :
                            effective[cell[1]][x] # {} \/ Live(cell[1], x) # {}}
      /\ job'[w].phase = job[w].phase /\ job'[w].request = job[w].request
      /\ job'[w].removal = job[w].removal /\ job'[w].seen = {}
      /\ job'[w].sweep = job[w].sweep \ {x}
  <2>1. job[w] \in Jobs
    BY Typed
  <2> QED BY <1>1, <1>2, <2>1 DEF Jobs
<1>4. ASSUME NEW u \in Users, NEW r \in Resources, Covers(job[w], u, r)
      PROVE  Covers(job'[w], u, r) \/ effective[u][r] = Live(u, r)
  <2>1. CASE r = x
    <3>1. CASE effective[u][x] # {} \/ Live(u, x) # {}
      <4>1. <<u, x>> \in job'[w].todo
        BY <1>3, <3>1
      <4> QED BY <2>1, <4>1 DEF Covers
    <3>2. CASE effective[u][x] = {} /\ Live(u, x) = {}
      BY <2>1, <3>2
    <3> QED BY <3>1, <3>2
  <2>2. CASE r # x
    BY <1>1, <1>3, <1>4, <2>2 DEF Covers
  <2> QED BY <2>1, <2>2
<1>5. \A g \in job'[w].unbind : members[g] = {}
  BY <1>3 DEF Sound, Departed
<1>6. job[w].phase \notin {"allowed", "denied", "retry"}
  BY <1>2 DEF Sound, Quiet, Clear, RetryKnows
<1>7. RetryKnows(w)' /\ AllowedMay(w)'
  BY <1>3, <1>6 DEF RetryKnows, AllowedMay
<1>8. \A p, q \in job'[w].request : p = q
  BY <1>3 DEF Sound, OneRequest
<1> QED BY <1>1, <1>3, <1>4, <1>5, <1>6, <1>7, <1>8, MovedSound

LEMMA ReadLiveSound ==
  ASSUME TypeOK, NEW w \in Workers, Sound(w), ReadLive(w)
  PROVE  Sound(w)'
<1>1. /\ bindings' = bindings /\ members' = members /\ effective' = effective /\ status' = status
      /\ job[w].seen = {}
  BY DEF ReadLive
<1>2. PICK cell \in job[w].todo :
        job'[w] = [job[w] EXCEPT
                    !.todo = job[w].todo \ {cell},
                    !.seen = {[row |-> cell, flags |-> Live(cell[1], cell[2])]}]
  BY Typed DEF ReadLive
<1>3. /\ job'[w].lists = job[w].lists /\ job'[w].unbind = job[w].unbind
      /\ job'[w].todo = job[w].todo \ {cell}
      /\ job'[w].seen = {[row |-> cell, flags |-> Live(cell[1], cell[2])]}
      /\ job'[w].phase = job[w].phase /\ job'[w].request = job[w].request
      /\ job'[w].removal = job[w].removal /\ job'[w].sweep = job[w].sweep
  <2>1. job[w] \in Jobs
    BY Typed
  <2> QED BY <1>1, <1>2, <2>1 DEF Jobs
<1>4. ASSUME NEW u \in Users, NEW r \in Resources, Covers(job[w], u, r)
      PROVE  Covers(job'[w], u, r)
  <2>1. CASE <<u, r>> = cell
    <3>1. \E s \in job'[w].seen : s.row = <<u, r>>
      BY <1>3, <2>1
    <3> QED BY <3>1 DEF Covers
  <2>2. CASE <<u, r>> # cell
    <3>1. <<u, r>> \in job[w].todo => <<u, r>> \in job'[w].todo
      BY <1>3, <2>2
    <3> QED BY <1>1, <1>3, <1>4, <3>1 DEF Covers
  <2> QED BY <2>1, <2>2
<1>5. \A g \in job'[w].unbind : members[g] = {}
  BY <1>3 DEF Sound, Departed
<1>6. job[w].phase \notin {"allowed", "denied"}
  BY <1>2 DEF Sound, Quiet, Clear
<1>7. RetryKnows(w)' /\ AllowedMay(w)'
  BY <1>1, <1>3, <1>6 DEF Sound, RetryKnows, AllowedMay
<1>8. \A p, q \in job'[w].request : p = q
  BY <1>3 DEF Sound, OneRequest
<1>9. \A s \in job'[w].seen : s.flags = Live(s.row[1], s.row[2])
  BY <1>3
<1> QED BY <1>1, <1>3, <1>4, <1>5, <1>6, <1>7, <1>8, <1>9, MovedSound

LEMMA AuthorizeSound ==
  ASSUME TypeOK, NEW w \in Workers, Sound(w), Authorize(w)
  PROVE  Sound(w)'
<1>1. /\ bindings' = bindings /\ members' = members /\ effective' = effective /\ status' = status
      /\ Clear(job[w])
  BY DEF Authorize
<1>2. PICK q \in job[w].request :
        job'[w] = IF Need(q) \in effective[q.user][q.resource]
                  THEN [job[w] EXCEPT !.phase = "allowed"]
                  ELSE [job[w] EXCEPT !.phase = "retry", !.todo = {<<q.user, q.resource>>}]
  BY Typed DEF Authorize
<1>3. q.user \in Users /\ q.resource \in Resources /\ job[w] \in Jobs
  BY Typed DEF Jobs, Requests
<1>4. \A u \in Users, r \in Resources : effective[u][r] = Live(u, r)
  BY <1>1, ClearOwesNothing DEF Sound
<1>5. \A p \in job[w].request : p = q
  BY DEF Sound, OneRequest
<1>6. /\ job'[w].lists = {} /\ job'[w].unbind = {} /\ job'[w].seen = {} /\ job'[w].sweep = {}
      /\ job'[w].request = job[w].request
  BY <1>1, <1>2, <1>3 DEF Clear, Jobs
<1>7. CASE Need(q) \in effective[q.user][q.resource]
  <2>1. job'[w].phase = "allowed" /\ job'[w].todo = {}
    BY <1>1, <1>2, <1>3, <1>7 DEF Clear, Jobs
  <2>2. Clear(job'[w])
    BY <1>6, <2>1 DEF Clear
  <2>3. Need(q) \in Live(q.user, q.resource)
    BY <1>3, <1>4, <1>7
  <2>4. RetryKnows(w)' /\ AllowedMay(w)'
    BY <1>1, <1>5, <1>6, <2>1, <2>3, LiveNext DEF RetryKnows, AllowedMay, Live
  <2> QED BY <1>1, <1>4, <1>5, <1>6, <2>1, <2>2, <2>4, MovedSound
<1>8. CASE Need(q) \notin effective[q.user][q.resource]
  <2>1. job'[w].phase = "retry" /\ job'[w].todo = {<<q.user, q.resource>>}
    BY <1>2, <1>3, <1>8 DEF Jobs
  <2>2. RetryKnows(w)' /\ AllowedMay(w)'
    BY <1>5, <1>6, <2>1 DEF RetryKnows, AllowedMay
  <2> QED BY <1>1, <1>4, <1>5, <1>6, <2>1, <2>2, MovedSound
<1> QED BY <1>7, <1>8

LEMMA RetrySound ==
  ASSUME TypeOK, NEW w \in Workers, Sound(w), Retry(w)
  PROVE  Sound(w)'
<1>1. /\ bindings' = bindings /\ members' = members /\ effective' = effective /\ status' = status
      /\ Clear(job[w]) /\ job[w].phase = "retry"
  BY DEF Retry
<1>2. PICK q \in job[w].request :
        job'[w] = IF Need(q) \in job[w].got /\ effective[q.user][q.resource] # {}
                  THEN [job[w] EXCEPT !.phase = "allowed"]
                  ELSE [job[w] EXCEPT !.phase = "denied"]
  BY Typed DEF Retry
<1>3. job[w] \in Jobs
  BY Typed
<1>4. /\ job'[w].lists = {} /\ job'[w].unbind = {} /\ job'[w].seen = {} /\ job'[w].sweep = {}
      /\ job'[w].todo = {} /\ job'[w].request = job[w].request
      /\ job'[w].phase \in {"allowed", "denied"}
      /\ job'[w].phase = "allowed" => Need(q) \in job[w].got
  BY <1>1, <1>2, <1>3 DEF Clear, Jobs
<1>5. \A p \in job[w].request : p = q
  BY DEF Sound, OneRequest
<1>6. job[w].got = Live(q.user, q.resource)
  BY <1>1 DEF Sound, RetryKnows, Clear
<1>7. Clear(job'[w])
  BY <1>4 DEF Clear
<1>8. RetryKnows(w)' /\ AllowedMay(w)'
  BY <1>1, <1>4, <1>5, <1>6, LiveNext DEF RetryKnows, AllowedMay, Live
<1>9. \A u \in Users, r \in Resources : effective[u][r] = Live(u, r)
  BY <1>1, ClearOwesNothing DEF Sound
<1> QED BY <1>1, <1>4, <1>5, <1>7, <1>8, <1>9, MovedSound

LEMMA ReadSound ==
  ASSUME TypeOK, NEW w \in Workers, Sound(w), Read(w)
  PROVE  Sound(w)'
<1>1. /\ bindings' = bindings /\ members' = members /\ effective' = effective /\ status' = status
      /\ job[w].phase = "allowed"
  BY DEF Read
<1>2. \A u \in Users, r \in Resources : effective[u][r] = Live(u, r)
  BY <1>1, ClearOwesNothing DEF Sound, Quiet
<1>3. PICK q \in job[w].request :
         \/ job'[w] = Idle
         \/ job'[w] = [Idle EXCEPT !.phase = "authorize", !.request = {Answering(q)}]
  BY Typed DEF Read
<1>4. CASE job'[w] = Idle
  BY <1>1, <1>2, <1>4, IdleSound, PurgedHoldNothing, LiveNext DEF Live
<1>5. CASE job'[w] = [Idle EXCEPT !.phase = "authorize", !.request = {Answering(q)}]
  <2>1. /\ job'[w].phase = "authorize" /\ job'[w].request = {Answering(q)} /\ job'[w].seen = {}
        /\ job'[w].lists = {} /\ job'[w].unbind = {}
    BY <1>5 DEF Idle
  <2>2. RetryKnows(w)' /\ AllowedMay(w)'
    BY <2>1 DEF RetryKnows, AllowedMay
  <2> QED BY <1>1, <1>2, <2>1, <2>2, MovedSound
<1> QED BY <1>3, <1>4, <1>5

-----------------------------------------------------------------------------
(* Steps that take bindings away or write a row.                             *)

LEMMA UnboundFacts ==
  ASSUME TypeOK, NEW p, NEW r \in Resources
  PROVE  /\ \A x \in Principals : x # p => Unbound(p)[r][x] = bindings[r][x]
         /\ p \in Principals => Unbound(p)[r][p] = {}
         /\ \A x \in Principals : bindings[r][x] = {} => Unbound(p)[r][x] = {}
         /\ r \notin BoundTo(p) => \A x \in Principals : Unbound(p)[r][x] = bindings[r][x]
  BY Typed DEF Unbound, BoundTo

\* The rows of a resource the principal is not bound to stay as they are.
LEMMA UnboundLive ==
  ASSUME TypeOK, NEW p, NEW u \in Users, NEW r \in Resources, r \notin BoundTo(p)
  PROVE  LiveIn(members, Unbound(p), u, r) = LiveIn(members, bindings, u, r)
<1>1. \A x \in Principals : Unbound(p)[r][x] = bindings[r][x]
  BY UnboundFacts
<1>2. Unbound(p)[r][u] = bindings[r][u] /\ \A g \in Groups : Unbound(p)[r][g] = bindings[r][g]
  BY <1>1 DEF Principals
<1> QED BY <1>2, LiveSame

LEMMA PurgeBindingsSound ==
  ASSUME TypeOK, NEW w \in Workers, Sound(w), PurgeBindings(w)
  PROVE  Sound(w)'
<1>1. /\ members' = members /\ effective' = effective /\ status' = status
      /\ Clear(job[w]) /\ job[w].phase = "remove"
  BY DEF PurgeBindings
<1>2. PICK q \in job[w].removal :
        /\ bindings' = Unbound(q.user)
        /\ job'[w] = [job[w] EXCEPT !.phase = "identity", !.sweep = BoundTo(q.user)]
  BY Typed DEF PurgeBindings
<1>3. job[w] \in Jobs /\ q.user \in Users
  BY Typed DEF Jobs, Removals
<1>4. /\ job'[w].lists = {} /\ job'[w].unbind = {} /\ job'[w].seen = {}
      /\ job'[w].sweep = BoundTo(q.user) /\ job'[w].phase = "identity"
      /\ job'[w].request = job[w].request /\ job'[w].removal = job[w].removal
  BY <1>1, <1>2, <1>3 DEF Clear, Jobs
<1>5. \A p \in job[w].removal : p = q
  BY <1>1 DEF Sound, OneRequest
<1>6. ASSUME NEW u \in Users, NEW r \in Resources
      PROVE  effective'[u][r] = Live(u, r)' \/ Covers(job[w], u, r)'
  <2>1. CASE r \in BoundTo(q.user)
    BY <1>4, <2>1 DEF Covers
  <2>2. CASE r \notin BoundTo(q.user)
    <3>1. effective[u][r] = Live(u, r)
      BY <1>1, ClearOwesNothing DEF Sound
    <3>2. LiveIn(members, Unbound(q.user), u, r) = LiveIn(members, bindings, u, r)
      BY <2>2, UnboundLive
    <3> QED BY <1>1, <1>2, <3>1, <3>2, LiveNext DEF Live
  <2> QED BY <2>1, <2>2
<1>7. SeenLive(w)' /\ Departed(w)'
  BY <1>4 DEF SeenLive, Departed
<1>8. Left(w)'
  BY <1>1, <1>4 DEF Sound, Left, Gone
<1>9. Erased(w)'
  <2>1. ASSUME NEW u \in Users, status[u] = "purged" \/ u = q.user, NEW r \in Resources
        PROVE  bindings'[r][u] = {}
    <3>1. u = q.user \/ bindings[r][u] = {}
      BY <2>1, PurgedHoldNothing
    <3>2. u \in Principals
      BY DEF Principals
    <3> QED BY <1>2, <3>1, <3>2, UnboundFacts
  <2> QED BY <1>1, <1>4, <1>5, <2>1 DEF Erased, Gone
<1>10. Quiet(w)' /\ OneRequest(w)' /\ RetryKnows(w)' /\ AllowedMay(w)'
  BY <1>1, <1>4 DEF Sound, Quiet, OneRequest, RetryKnows, AllowedMay
<1> QED BY <1>6, <1>7, <1>8, <1>9, <1>10 DEF Sound, Owed

LEMMA PurgeIdentitySound ==
  ASSUME TypeOK, NEW w \in Workers, Sound(w), PurgeIdentity(w)
  PROVE  Sound(w)'
<1>1. /\ bindings' = bindings /\ job'[w] = Idle
      /\ Clear(job[w]) /\ job[w].phase = "identity"
  BY Typed DEF PurgeIdentity
<1>2. PICK q \in job[w].removal :
        /\ status' = [status EXCEPT ![q.user] = "purged"]
        /\ effective' = [effective EXCEPT ![q.user] = [r \in Resources |-> {}]]
        /\ members' = [g \in Groups |-> members[g] \ {q.user}]
  BY DEF PurgeIdentity
<1>3. q.user \in Users
  BY Typed DEF Jobs, Removals
<1>4. /\ \A g \in Groups : q.user \notin members[g]
      /\ \A r \in Resources : bindings[r][q.user] = {}
  BY <1>1, <1>3 DEF Sound, Left, Erased, Gone
<1>5. \A g \in Groups : members'[g] = members[g]
  BY <1>2, <1>4, Typed
<1>6. ASSUME NEW u \in Users, NEW r \in Resources
      PROVE  effective'[u][r] = Live(u, r)'
  <2>1. Live(u, r)' = LiveIn(members, bindings, u, r)
    <3>1. LiveIn(members', bindings, u, r) = LiveIn(members, bindings, u, r)
      BY <1>5, LiveSame
    <3> QED BY <1>1, <3>1, LiveNext
  <2>2. CASE u = q.user
    <3>1. LiveIn(members, bindings, u, r) = {}
      BY <1>4, <2>2, LiveNothing
    <3>2. effective'[u][r] = {}
      BY <1>2, <1>3, <2>2, Typed
    <3> QED BY <2>1, <3>1, <3>2
  <2>3. CASE u # q.user
    <3>1. effective'[u][r] = effective[u][r]
      BY <1>2, <2>3, Typed
    <3>2. effective[u][r] = LiveIn(members, bindings, u, r)
      BY <1>1, ClearOwesNothing DEF Sound, Live
    <3> QED BY <2>1, <3>1, <3>2
  <2> QED BY <2>2, <2>3
<1>7. ASSUME NEW u \in Users, status'[u] = "purged"
      PROVE  /\ \A g \in Groups : u \notin members'[g]
             /\ \A r \in Resources : bindings'[r][u] = {}
  <2>1. u = q.user \/ status[u] = "purged"
    BY <1>2, <1>7, Typed
  <2> QED BY <1>1, <1>4, <1>5, <2>1, PurgedHoldNothing
<1> QED BY <1>1, <1>6, <1>7, IdleSound

LEMMA DropBindingsSound ==
  ASSUME TypeOK, NEW w \in Workers, Sound(w), DropBindings(w)
  PROVE  Sound(w)'
<1>1. /\ members' = members /\ effective' = effective /\ status' = status
      /\ job[w].seen = {} /\ job[w].todo = {} /\ job[w].sweep = {}
  BY DEF DropBindings
<1>2. PICK h \in job[w].unbind :
        /\ bindings' = Unbound(h)
        /\ job'[w] = [job[w] EXCEPT !.unbind = job[w].unbind \ {h}, !.sweep = BoundTo(h)]
  BY Typed DEF DropBindings
<1>3. job[w] \in Jobs /\ h \in Groups
  BY Typed DEF Jobs
<1>4. /\ job'[w].lists = job[w].lists /\ job'[w].unbind = job[w].unbind \ {h}
      /\ job'[w].seen = {} /\ job'[w].sweep = BoundTo(h) /\ job'[w].phase = job[w].phase
      /\ job'[w].request = job[w].request /\ job'[w].removal = job[w].removal
  BY <1>1, <1>2, <1>3 DEF Jobs
<1>5. job[w].phase \notin {"allowed", "denied", "retry"}
  BY <1>2 DEF Sound, Quiet, Clear, RetryKnows
<1>6. ASSUME NEW u \in Users, NEW r \in Resources
      PROVE  effective'[u][r] = Live(u, r)' \/ Covers(job[w], u, r)'
  <2>1. CASE r \in BoundTo(h)
    BY <1>4, <2>1 DEF Covers
  <2>2. CASE r \notin BoundTo(h)
    <3>1. LiveIn(members, Unbound(h), u, r) = LiveIn(members, bindings, u, r)
      BY <2>2, UnboundLive
    <3>2. effective[u][r] = Live(u, r) \/ Covers(job[w], u, r)
      BY DEF Sound, Owed
    <3>3. CASE effective[u][r] = Live(u, r)
      BY <1>1, <1>2, <3>1, <3>3, LiveNext DEF Live
    <3>4. CASE Covers(job[w], u, r)
      <4>1. PICK l \in job[w].lists : l[1] = u /\ bindings[r][l[2]] # {}
        BY <1>1, <3>4 DEF Covers
      <4>2. l[2] \in Principals
        BY <1>3 DEF Jobs, Listings, Principals
      <4>3. Unbound(h)[r][l[2]] = bindings[r][l[2]]
        BY <2>2, <4>2, UnboundFacts
      <4> QED BY <1>2, <1>4, <4>1, <4>3 DEF Covers
    <3> QED BY <3>2, <3>3, <3>4
  <2> QED BY <2>1, <2>2
<1>7. SeenLive(w)' /\ Departed(w)'
  BY <1>1, <1>4 DEF Sound, SeenLive, Departed
<1>8. Left(w)'
  BY <1>1, <1>4 DEF Sound, Left, Gone
<1>9. Erased(w)'
  <2>1. \A u \in Users, r \in Resources : bindings[r][u] = {} => bindings'[r][u] = {}
    BY <1>2, UnboundFacts DEF Principals
  <2> QED BY <1>1, <1>4, <2>1 DEF Sound, Erased, Gone
<1>10. Quiet(w)' /\ OneRequest(w)' /\ RetryKnows(w)' /\ AllowedMay(w)'
  BY <1>4, <1>5 DEF Sound, Quiet, OneRequest, RetryKnows, AllowedMay
<1> QED BY <1>6, <1>7, <1>8, <1>9, <1>10 DEF Sound, Owed

LEMMA WriteRowSound ==
  ASSUME TypeOK, NEW w \in Workers, Sound(w), WriteRow(w)
  PROVE  Sound(w)'
<1>1. members' = members /\ bindings' = bindings /\ status' = status
  BY DEF WriteRow, data
<1>2. PICK s \in job[w].seen :
        LET refused == status[s.row[1]] = "purged" /\ s.flags # {}
        IN /\ effective' = IF refused THEN effective
                           ELSE [effective EXCEPT ![s.row[1]][s.row[2]] = s.flags]
           /\ job'[w] = IF refused THEN Idle
                        ELSE [job[w] EXCEPT !.seen = {}, !.got = s.flags]
  BY Typed DEF WriteRow
<1>3. job[w] \in Jobs /\ s \in Readings
  BY Typed DEF Jobs
<1>4. /\ s.row \in Rows /\ s.row[1] \in Users /\ s.row[2] \in Resources
      /\ s.row = <<s.row[1], s.row[2]>>
  BY <1>3 DEF Readings, Rows
<1> DEFINE v == s.row[1]
           x == s.row[2]
<1>5. s.flags = Live(v, x) /\ \A t \in job[w].seen : t = s
  BY DEF Sound, SeenLive
<1>6. ~(status[v] = "purged" /\ s.flags # {})
  <2>1. status[v] = "purged" => Live(v, x) = {}
    BY <1>4, PurgedHoldNothing, LiveNothing DEF Live
  <2> QED BY <1>5, <2>1
<1>7. /\ effective' = [effective EXCEPT ![v][x] = s.flags]
      /\ job'[w] = [job[w] EXCEPT !.seen = {}, !.got = s.flags]
  BY <1>2, <1>6
<1>8. /\ job'[w].lists = job[w].lists /\ job'[w].unbind = job[w].unbind
      /\ job'[w].sweep = job[w].sweep /\ job'[w].todo = job[w].todo
      /\ job'[w].seen = {} /\ job'[w].got = s.flags /\ job'[w].phase = job[w].phase
      /\ job'[w].request = job[w].request /\ job'[w].removal = job[w].removal
  BY <1>3, <1>7 DEF Jobs
<1>9. \A u \in Users, r \in Resources :
         effective'[u][r] = IF u = v /\ r = x THEN s.flags ELSE effective[u][r]
  BY <1>4, <1>7, Typed
<1>10. \A u, r : Live(u, r)' = Live(u, r)
  BY <1>1, LiveNext DEF Live
<1>11. ASSUME NEW u \in Users, NEW r \in Resources
       PROVE  effective'[u][r] = Live(u, r)' \/ Covers(job[w], u, r)'
  <2>1. CASE u = v /\ r = x
    BY <1>5, <1>9, <1>10, <2>1
  <2>2. CASE ~(u = v /\ r = x)
    <3>1. effective[u][r] = Live(u, r) \/ Covers(job[w], u, r)
      BY DEF Sound, Owed
    <3>2. ~\E t \in job[w].seen : t.row = <<u, r>>
      BY <1>4, <1>5, <2>2
    <3>3. Covers(job[w], u, r) => Covers(job'[w], u, r)
      BY <1>8, <3>2 DEF Covers
    <3>4. Covers(job'[w], u, r) => Covers(job[w], u, r)'
      BY <1>1 DEF Covers
    <3>5. effective'[u][r] = effective[u][r]
      BY <1>9, <2>2
    <3> QED BY <1>10, <3>1, <3>3, <3>4, <3>5
  <2> QED BY <2>1, <2>2
<1>12. SeenLive(w)' /\ Departed(w)'
  BY <1>1, <1>8 DEF Sound, SeenLive, Departed
<1>13. Left(w)' /\ Erased(w)'
  BY <1>1, <1>8 DEF Sound, Left, Erased, Gone
<1>14. job[w].phase \notin {"allowed", "denied"}
  BY DEF Sound, Quiet, Clear
<1>15. Quiet(w)' /\ OneRequest(w)' /\ AllowedMay(w)'
  BY <1>8, <1>14 DEF Sound, Quiet, OneRequest, AllowedMay
<1>16. RetryKnows(w)'
  <2>1. ASSUME job[w].phase = "retry", NEW q \in job[w].request
        PROVE  s.flags = Live(q.user, q.resource)'
    <3>1. s.row = <<q.user, q.resource>>
      BY <2>1 DEF Sound, RetryKnows
    <3>2. v = q.user /\ x = q.resource
      BY <3>1
    <3> QED BY <1>5, <1>10, <3>2
  <2> QED BY <1>8, <2>1 DEF Sound, RetryKnows
<1> QED BY <1>11, <1>12, <1>13, <1>15, <1>16 DEF Sound, Owed

-----------------------------------------------------------------------------
(* Changes of a resource.                                                    *)

LEMMA DropSound ==
  ASSUME TypeOK, NEW w \in Workers, Sound(w), Drop(w)
  PROVE  Sound(w)'
<1>1. /\ members' = members /\ status' = status /\ job'[w] = Idle
      /\ job[w].phase = "allowed"
  BY Typed DEF Drop
<1>2. PICK q \in job[w].request :
        /\ bindings' = [bindings EXCEPT ![q.resource] = [p \in Principals |-> {}]]
        /\ effective' = [u \in Users |-> [effective[u] EXCEPT ![q.resource] = {}]]
  BY DEF Drop
<1> DEFINE x == q.resource
<1>3. ASSUME NEW u \in Users, NEW r \in Resources
      PROVE  effective'[u][r] = Live(u, r)'
  <2>1. CASE r = x
    <3>1. bindings'[r][u] = {} /\ \A g \in Groups : bindings'[r][g] = {}
      BY <1>2, <2>1, Typed DEF Principals
    <3>2. LiveIn(members', bindings', u, r) = {}
      BY <3>1, LiveNothing
    <3>3. effective'[u][r] = {}
      BY <1>2, <2>1, Typed
    <3> QED BY <3>2, <3>3, LiveNext
  <2>2. CASE r # x
    <3>1. bindings'[r] = bindings[r] /\ effective'[u][r] = effective[u][r]
      BY <1>2, <2>2, Typed
    <3>2. effective[u][r] = Live(u, r)
      BY <1>1, ClearOwesNothing DEF Sound, Quiet
    <3>3. LiveIn(members', bindings', u, r) = LiveIn(members, bindings, u, r)
      BY <1>1, <3>1 DEF LiveIn
    <3> QED BY <3>1, <3>2, <3>3, LiveNext DEF Live
  <2> QED BY <2>1, <2>2
<1>4. ASSUME NEW u \in Users, status'[u] = "purged"
      PROVE  /\ \A g \in Groups : u \notin members'[g]
             /\ \A r \in Resources : bindings'[r][u] = {}
  <2>1. \A r \in Resources : bindings[r][u] = {} => bindings'[r][u] = {}
    BY <1>2, Typed DEF Principals
  <2> QED BY <1>1, <1>4, <2>1, PurgedHoldNothing
<1> QED BY <1>1, <1>3, <1>4, IdleSound

\* A job that rematerialises a resource before it answers.
Rebinding(j, x) ==
    /\ j.phase = "authorize" /\ \A p, q \in j.request : p = q
    /\ j.lists = {} /\ j.unbind = {} /\ j.sweep = {x}
    /\ j.todo = {} /\ j.seen = {}

\* The bindings of one resource have changed and all its rows are to be
\* rematerialised.
LEMMA ReboundSound ==
  ASSUME NEW w \in Workers, Sound(w), Clear(job[w]), NEW x,
         members' = members, effective' = effective, status' = status,
         \A r \in Resources : r # x => bindings'[r] = bindings[r],
         \A u \in Users : status[u] = "purged" => \A r \in Resources : bindings'[r][u] = {},
         Rebinding(job'[w], x)
  PROVE  Sound(w)'
<1>1. /\ job'[w].phase = "authorize" /\ \A p, q \in job'[w].request : p = q
      /\ job'[w].lists = {} /\ job'[w].unbind = {} /\ job'[w].sweep = {x}
      /\ job'[w].todo = {} /\ job'[w].seen = {}
  BY DEF Rebinding
<1>2. ASSUME NEW u \in Users, NEW r \in Resources
      PROVE  effective'[u][r] = Live(u, r)' \/ Covers(job[w], u, r)'
  <2>1. CASE r = x
    BY <1>1, <2>1 DEF Covers
  <2>2. CASE r # x
    <3>1. effective[u][r] = Live(u, r)
      BY ClearOwesNothing DEF Sound
    <3>2. LiveIn(members', bindings', u, r) = LiveIn(members, bindings, u, r)
      BY <2>2 DEF LiveIn
    <3> QED BY <3>1, <3>2, LiveNext DEF Live
  <2> QED BY <2>1, <2>2
<1>3. SeenLive(w)' /\ Departed(w)'
  BY <1>1 DEF SeenLive, Departed
<1>4. Left(w)' /\ Erased(w)'
  BY <1>1, PurgedHoldNothing DEF Left, Erased, Gone
<1>5. Quiet(w)' /\ OneRequest(w)' /\ RetryKnows(w)' /\ AllowedMay(w)'
  BY <1>1 DEF Quiet, OneRequest, RetryKnows, AllowedMay
<1> QED BY <1>2, <1>3, <1>4, <1>5 DEF Sound, Owed

\* A grant or a revocation that came to nothing leaves the worker idle.
LEMMA RefusedSound ==
  ASSUME NEW w \in Workers, Sound(w), Clear(job[w]), job'[w] = Idle,
         UNCHANGED <<bindings, members, effective, status>>
  PROVE  Sound(w)'
<1>1. \A u \in Users, r \in Resources : effective'[u][r] = Live(u, r)'
  BY ClearOwesNothing, LiveNext DEF Sound, Live
<1> QED BY <1>1, PurgedHoldNothing, IdleSound

LEMMA GrantSound ==
  ASSUME TypeOK, NEW w \in Workers, Sound(w), Grant(w)
  PROVE  Sound(w)'
<1>1. /\ members' = members /\ effective' = effective /\ status' = status
      /\ job[w].phase = "allowed" /\ Clear(job[w])
  BY DEF Grant, Sound, Quiet
<1>2. PICK q \in job[w].request :
        /\ q.op = "grant"
        /\ \/ /\ Exists(q.principal)
              /\ bindings' = [bindings EXCEPT ![q.resource][q.principal] =
                                 MergeIncomingGrant(bindings[q.resource][q.principal], q.grant)]
              /\ job'[w] = [Idle EXCEPT !.phase = "authorize", !.request = {Answering(q)},
                                        !.sweep = {q.resource}]
           \/ bindings' = bindings /\ job'[w] = Idle
  BY Typed DEF Grant, Rebound
<1>3. CASE bindings' = bindings /\ job'[w] = Idle
  BY <1>1, <1>3, RefusedSound
<1>4. CASE ~(bindings' = bindings /\ job'[w] = Idle)
  <2>1. \A r \in Resources : r # q.resource => bindings'[r] = bindings[r]
    BY <1>2, <1>4, Typed
  <2>2. ASSUME NEW u \in Users, status[u] = "purged", NEW r \in Resources
        PROVE  bindings'[r][u] = {}
    <3>1. u # q.principal
      BY <1>2, <1>4, <2>2, AccessAssumption, Typed DEF Exists
    <3>2. bindings'[r][u] = bindings[r][u]
      <4> DEFINE x == q.resource
                 p == q.principal
                 t == MergeIncomingGrant(bindings[x][p], q.grant)
      <4>1. bindings' = [bindings EXCEPT ![x][p] = t]
        BY <1>2, <1>4
      <4> HIDE DEF x, p, t
      <4>2. u # p
        BY <3>1 DEF p
      <4> QED BY <4>1, <4>2, Typed
    <3> QED BY <2>2, <3>2, PurgedHoldNothing
  <2>3. Rebinding(job'[w], q.resource)
    <3>1. /\ job'[w].phase = "authorize" /\ job'[w].request = {Answering(q)}
          /\ job'[w].sweep = {q.resource}
          /\ job'[w].lists = {} /\ job'[w].unbind = {} /\ job'[w].todo = {} /\ job'[w].seen = {}
      BY <1>2, <1>4 DEF Idle
    <3> QED BY <3>1 DEF Rebinding
  <2> DEFINE x == q.resource
  <2> HIDE DEF x
  <2>4. (\A r \in Resources : r # x => bindings'[r] = bindings[r]) /\ Rebinding(job'[w], x)
    BY <2>1, <2>3 DEF x
  <2>5. \A u \in Users : status[u] = "purged" => \A r \in Resources : bindings'[r][u] = {}
    BY <2>2
  <2> QED BY <1>1, <2>4, <2>5, ReboundSound
<1> QED BY <1>3, <1>4

LEMMA RevokeSound ==
  ASSUME TypeOK, NEW w \in Workers, Sound(w), Revoke(w)
  PROVE  Sound(w)'
<1>1. /\ members' = members /\ effective' = effective /\ status' = status
      /\ job[w].phase = "allowed" /\ Clear(job[w])
  BY DEF Revoke, Sound, Quiet
<1>2. PICK q \in job[w].request :
        \/ /\ bindings' = [bindings EXCEPT ![q.resource][q.principal] = {}]
           /\ job'[w] = [Idle EXCEPT !.phase = "authorize", !.request = {Answering(q)},
                                     !.sweep = {q.resource}]
        \/ bindings' = bindings /\ job'[w] = Idle
  BY Typed DEF Revoke, Rebound
<1>3. CASE bindings' = bindings /\ job'[w] = Idle
  BY <1>1, <1>3, RefusedSound
<1>4. CASE ~(bindings' = bindings /\ job'[w] = Idle)
  <2>1. \A r \in Resources : r # q.resource => bindings'[r] = bindings[r]
    BY <1>2, <1>4, Typed
  <2>2. ASSUME NEW u \in Users, status[u] = "purged", NEW r \in Resources
        PROVE  bindings'[r][u] = {}
    <3>1. bindings[r][u] = {}
      BY <2>2, PurgedHoldNothing
    <3>2. bindings'[r][u] = {} \/ bindings'[r][u] = bindings[r][u]
      BY SMTT(30), <1>2, <1>4, Typed DEF Principals
    <3> QED BY <3>1, <3>2
  <2>3. Rebinding(job'[w], q.resource)
    <3>1. job'[w] = [Idle EXCEPT !.phase = "authorize", !.request = {Answering(q)},
                                 !.sweep = {q.resource}]
      BY <1>2, <1>4, Zenon
    <3> QED BY <3>1 DEF Idle, Rebinding
  <2> DEFINE x == q.resource
  <2> HIDE DEF x
  <2>4. (\A r \in Resources : r # x => bindings'[r] = bindings[r]) /\ Rebinding(job'[w], x)
    BY <2>1, <2>3 DEF x
  <2>5. \A u \in Users : status[u] = "purged" => \A r \in Resources : bindings'[r][u] = {}
    BY <2>2
  <2> QED BY <1>1, <2>4, <2>5, ReboundSound
<1> QED BY <1>3, <1>4

-----------------------------------------------------------------------------
(* The invariant, and what follows from it.                                  *)

LEMMA StepSound ==
  ASSUME TypeOK, NEW w \in Workers, Sound(w), Step(w)
  PROVE  Sound(w)'
<1>1. ASSUME NEW u \in Users, NEW r \in Resources, NEW p \in Principals, Create(w, u, r, p)
      PROVE  Sound(w)'
  BY <1>1, CreateSound
<1>2. ASSUME NEW u \in Users, NEW g \in Groups, AdminAdd(w, u, g)
      PROVE  Sound(w)'
  BY <1>2, AdminAddSound
<1>3. ASSUME NEW u \in Users, NEW g \in Groups, AdminRemove(w, u, g)
      PROVE  Sound(w)'
  BY <1>3, AdminRemoveSound
<1>4. ASSUME NEW u \in Users, NEW g \in Groups, Join(w, u, g) \/ Leave(w, u, g)
      PROVE  Sound(w)'
  BY <1>4, JoinLeaveSound
<1>5. ASSUME NEW g \in Groups, AdminDelete(w, g)
      PROVE  Sound(w)'
  BY <1>5, AdminDeleteSound
<1>6. ASSUME NEW q \in Removals, RemoveAccount(w, q)
      PROVE  Sound(w)'
  BY <1>6, RemoveSound
<1>7. ASSUME NEW q \in Requests, Request(w, q)
      PROVE  Sound(w)'
  BY <1>7, RequestSound
<1>8. CASE Settle(w) \/ Deny(w)
  BY <1>8, SettleSound
<1>9. CASE PurgeBindings(w)
  BY <1>9, PurgeBindingsSound
<1>10. CASE PurgeIdentity(w)
  BY <1>10, PurgeIdentitySound
<1>11. CASE ListBound(w)
  BY <1>11, ListBoundSound
<1>12. CASE DropBindings(w)
  BY <1>12, DropBindingsSound
<1>13. CASE RematerializeResource(w)
  BY <1>13, RematerializeSound
<1>14. CASE ReadLive(w)
  BY <1>14, ReadLiveSound
<1>15. CASE WriteRow(w)
  BY <1>15, WriteRowSound
<1>16. CASE Authorize(w)
  BY <1>16, AuthorizeSound
<1>17. CASE Retry(w)
  BY <1>17, RetrySound
<1>18. CASE Read(w)
  BY <1>18, ReadSound
<1>19. CASE Drop(w)
  BY <1>19, DropSound
<1>20. CASE Grant(w)
  BY <1>20, GrantSound
<1>21. CASE Revoke(w)
  BY <1>21, RevokeSound
<1> QED BY <1>1, <1>2, <1>3, <1>4, <1>5, <1>6, <1>7, <1>8, <1>9, <1>10, <1>11, <1>12,
           <1>13, <1>14, <1>15, <1>16, <1>17, <1>18, <1>19, <1>20, <1>21 DEF Step

\* Requests do not overlap.
Alone == \E w : Workers = {w}

LEMMA IInvKept == Alone /\ IInv /\ [Next]_vars => IInv'
<1> SUFFICES ASSUME Alone, IInv, [Next]_vars PROVE IInv'
  OBVIOUS
<1>1. TypeOK'
  BY TypesKept DEF IInv
<1>2. ASSUME NEW w \in Workers PROVE Sound(w)'
  <2>1. TypeOK /\ Sound(w)
    BY DEF IInv
  <2>2. CASE UNCHANGED vars
    <3>1. UNCHANGED <<status, members, bindings, effective, job>>
      BY <2>2 DEF vars
    <3>2. \A u, r : Live(u, r)' = Live(u, r)
      BY <3>1, LiveNext DEF Live
    <3>3. Owed(w)' /\ SeenLive(w)' /\ Departed(w)'
      BY <2>1, <3>1, <3>2 DEF Sound, Owed, Covers, SeenLive, Departed
    <3>4. Left(w)' /\ Erased(w)' /\ Quiet(w)' /\ OneRequest(w)'
      BY <2>1, <3>1 DEF Sound, Left, Erased, Gone, Quiet, Clear, OneRequest
    <3>5. RetryKnows(w)' /\ AllowedMay(w)'
      BY <2>1, <3>1, <3>2 DEF Sound, RetryKnows, AllowedMay
    <3> QED BY <3>3, <3>4, <3>5 DEF Sound
  <2>3. CASE Next
    <3>1. PICK v \in Workers : Step(v)
      BY <2>3 DEF Next
    <3>2. v = w
      BY DEF Alone
    <3> QED BY <2>1, <3>1, <3>2, StepSound
  <2> QED BY <2>2, <2>3
<1> QED BY <1>1, <1>2 DEF IInv

\* With requests that do not overlap every row is, between two of them, exactly
\* what the live bindings and memberships give.
THEOREM CoherentAlone == Alone => (Spec => []Coherent)
<1> SUFFICES ASSUME Alone PROVE Spec => []Coherent
  OBVIOUS
<1>1. IInv /\ [Next]_vars => IInv'
  BY IInvKept
<1>2. IInv => Coherent
  <2> SUFFICES ASSUME IInv, \A w \in Workers : job[w] = Idle,
                      NEW u \in Users, NEW r \in Resources
               PROVE  effective[u][r] = Live(u, r)
    BY DEF Coherent
  <2>1. PICK w \in Workers : TRUE
    BY DEF Alone
  <2> QED BY <2>1, IdleExact DEF IInv
<1> QED BY InitSound, <1>1, <1>2, PTL DEF Spec

\* Whoever has the flag that issuing a grant takes has all its flags.
LEMMA IssuerHolds ==
  ASSUME TypeOK, NEW u \in Users, NEW r \in Resources, NEW g \in AccessGrant,
         FlagToIssue(g) \in Live(u, r)
  PROVE  FlagsOf(g) \subseteq Live(u, r)
<1>1. PICK p \in {u} \union {h \in Groups : u \in members[h]} :
         FlagToIssue(g) \in FlagsOfGrantSet(bindings[r][p])
  BY DEF Live, LiveIn
<1>2. bindings[r][p] \in SUBSET AccessGrant
  BY Typed, NormalSubset DEF Principals
<1>3. FlagsOfGrantSet(bindings[r][p]) = UNION {FlagsOf(h) : h \in bindings[r][p]}
  BY <1>2, NormalizeKeepsFlags
<1>4. PICK h \in bindings[r][p] : FlagToIssue(g) \in FlagsOf(h)
  BY <1>1, <1>3
<1>5. FlagsOf(g) \subseteq FlagsOf(h)
  BY <1>2, <1>4 DEF AccessGrant, FlagToIssue, FlagsOf, AccessFlags
<1>6. FlagsOf(h) \subseteq FlagsOfGrantSet(bindings[r][p])
  BY <1>3
<1> QED BY <1>5, <1>6 DEF Live, LiveIn

LEMMA FlagsPointwise ==
  ASSUME NEW s \in SUBSET AccessGrant, NEW f
  PROVE  f \in FlagsOfGrantSet(s) <=> \E h \in s : f \in FlagsOf(h)
  BY NormalizeKeepsFlags

\* What a merged grant set is worth.
LEMMA MergeFlags ==
  ASSUME NEW s \in SUBSET AccessGrant, NEW g \in AccessGrant,
         NEW f \in FlagsOfGrantSet(MergeIncomingGrant(s, g))
  PROVE  f \in FlagsOfGrantSet(s) \/ f \in FlagsOf(g)
<1> DEFINE t == s \union {g}
           n == NormalizeGrantSet(t)
<1>1. n \subseteq t /\ t \in SUBSET AccessGrant
  BY DEF NormalizeGrantSet
<1>2. f \in FlagsOfGrantSet(n)
  BY DEF MergeIncomingGrant
<1>3. PICK h \in n : f \in FlagsOf(h)
  <2>1. n \in SUBSET AccessGrant
    BY <1>1
  <2> HIDE DEF n
  <2> QED BY <1>2, <2>1, FlagsPointwise
<1>4. h \in s \/ h = g
  BY <1>1, <1>3
<1> QED BY <1>3, <1>4, FlagsPointwise

LEMMA GrantStep ==
  ASSUME TypeOK, NEW w \in Workers, Sound(w), Grant(w),
         NEW q \in job[w].request, NEW u \in Users
  PROVE  LiveIn(members, bindings', u, q.resource)
            \subseteq Live(u, q.resource) \union Live(q.user, q.resource)
<1>1. PICK k \in job[w].request :
        /\ k.op = "grant"
        /\ \/ bindings' = [bindings EXCEPT ![k.resource][k.principal] =
                              MergeIncomingGrant(bindings[k.resource][k.principal], k.grant)]
           \/ bindings' = bindings
  BY DEF Grant
<1>2. k = q
  BY DEF Sound, OneRequest
<1>3. q \in Requests /\ q.op = "grant"
  BY <1>1, <1>2, Typed DEF Jobs
<1>4. q.user \in Users /\ q.resource \in Resources /\ q.principal \in Principals /\ q.grant \in AccessGrant
  BY <1>3 DEF Requests
<1>5. FlagToIssue(q.grant) \in Live(q.user, q.resource)
  <2>1. Need(q) \in Live(q.user, q.resource)
    BY DEF Sound, AllowedMay, Grant
  <2>2. Need(q) = FlagToIssue(q.grant)
    BY <1>3 DEF Need
  <2> QED BY <2>1, <2>2
<1>6. FlagsOf(q.grant) \subseteq Live(q.user, q.resource)
  BY <1>4, <1>5, IssuerHolds
<1>7. CASE bindings' = bindings
  BY <1>7 DEF Live
<1>8. CASE bindings' = [bindings EXCEPT ![q.resource][q.principal] =
                            MergeIncomingGrant(bindings[q.resource][q.principal], q.grant)]
  <2> DEFINE x == q.resource
             y == q.principal
             t == MergeIncomingGrant(bindings[x][y], q.grant)
  <2>1. bindings' = [bindings EXCEPT ![x][y] = t]
    BY <1>8
  <2>2. \A f \in FlagsOfGrantSet(t) : f \in FlagsOfGrantSet(bindings[x][y]) \/ f \in FlagsOf(q.grant)
    <3>1. bindings[x][y] \in SUBSET AccessGrant
      BY <1>4, Typed, NormalSubset
    <3> QED BY <1>4, <3>1, MergeFlags
  <2>3. x \in Resources /\ y \in Principals
    BY <1>4
  <2> HIDE DEF x, y, t
  <2>4. \A p \in Principals : bindings'[x][p] = IF p = y THEN t ELSE bindings[x][p]
    BY <2>1, <2>3, Typed
  <2>5. ASSUME NEW f \in LiveIn(members, bindings', u, x)
        PROVE  f \in Live(u, x) \/ f \in FlagsOf(q.grant)
    <3>1. PICK p \in {u} \union {h \in Groups : u \in members[h]} :
             f \in FlagsOfGrantSet(bindings'[x][p])
      BY <2>5 DEF LiveIn
    <3>2. f \in FlagsOfGrantSet(bindings[x][p]) \/ f \in FlagsOf(q.grant)
      BY <2>2, <2>4, <3>1 DEF Principals
    <3> QED BY <3>1, <3>2 DEF Live, LiveIn
  <2>6. x = q.resource
    BY DEF x
  <2> QED BY <1>6, <2>5, <2>6
<1> QED BY <1>1, <1>2, <1>7, <1>8

\* With requests that do not overlap nobody gains by a grant what its issuer
\* does not hold.
THEOREM NoEscalationAlone == Alone => (Spec => NoEscalation)
<1> SUFFICES ASSUME Alone PROVE Spec => NoEscalation
  OBVIOUS
<1>1. IInv /\ [Next]_vars => IInv'
  BY IInvKept
<1>2. IInv => \A w \in Workers : Grant(w) =>
         \A q \in job[w].request, u \in Users :
            LiveIn(members, bindings', u, q.resource)
               \subseteq Live(u, q.resource) \union Live(q.user, q.resource)
  BY GrantStep DEF IInv
<1> QED BY InitSound, <1>1, <1>2, PTL DEF Spec, NoEscalation

-----------------------------------------------------------------------------
(* One worker implements the contract: what the decisions need to know of    *)
(* the groups and the accounts.                                              *)

\* A group that is gone has no members, whoever left it last.
Dissolved == \A g \in Groups \ groups : members[g] = {}

\* The groups a job takes for deleted are.
TakenForGone(w) ==
    /\ \A l \in job[w].lists : l[3] => l[2] \notin groups
    /\ \A g \in job[w].unbind : g \notin groups

\* Nobody is removed twice.
RemovedOnce(w) ==
    job[w].phase \in {"remove", "identity"} =>
        \A q \in job[w].removal : status[q.user] # "purged"

\* Who was denied may not.
DeniedMayNot(w) ==
    job[w].phase = "denied" =>
        \A q \in job[w].request : Need(q) \notin Live(q.user, q.resource)

Aware(w) == Sound(w) /\ Dissolved /\ TakenForGone(w) /\ RemovedOnce(w) /\ DeniedMayNot(w)

AwareInv == TypeOK /\ \A w \in Workers : Aware(w)

LEMMA InitAware == Init => AwareInv
<1> SUFFICES ASSUME Init, NEW w \in Workers PROVE Aware(w)
  BY InitTypes DEF AwareInv
<1>1. Sound(w) /\ Dissolved
  BY InitSound DEF IInv, Init, Dissolved
<1>2. job[w] = Idle
  BY DEF Init
<1>3. TakenForGone(w) /\ RemovedOnce(w) /\ DeniedMayNot(w)
  BY <1>2 DEF Idle, TakenForGone, RemovedOnce, DeniedMayNot
<1> QED BY <1>1, <1>3 DEF Aware

\* An idle worker takes nothing for granted.
LEMMA IdleAware ==
  ASSUME NEW w \in Workers, job'[w] = Idle
  PROVE  TakenForGone(w)' /\ RemovedOnce(w)' /\ DeniedMayNot(w)'
  BY DEF Idle, TakenForGone, RemovedOnce, DeniedMayNot

\* A job that has no account to remove and no groups to forget, and has not
\* been denied.
LEMMA QuietAware ==
  ASSUME NEW w \in Workers,
         job'[w].phase \notin {"remove", "identity", "denied"},
         job'[w].lists = {}, job'[w].unbind = {}
  PROVE  TakenForGone(w)' /\ RemovedOnce(w)' /\ DeniedMayNot(w)'
  BY DEF TakenForGone, RemovedOnce, DeniedMayNot

\* A group keeps no members when it goes, and nobody joins one that is gone.
LEMMA DissolvedKept ==
  ASSUME TypeOK, Dissolved, NEW w \in Workers, Step(w)
  PROVE  Dissolved'
<1> USE Typed
<1>1. CASE UNCHANGED <<groups, members>>
  BY <1>1 DEF Dissolved
<1>2. ASSUME NEW u \in Users, NEW g \in Groups, AdminAdd(w, u, g) \/ Join(w, u, g)
      PROVE  Dissolved'
  BY <1>2 DEF AdminAdd, Join, Dissolved
<1>3. ASSUME NEW u \in Users, NEW g \in Groups, AdminRemove(w, u, g) \/ Leave(w, u, g)
      PROVE  Dissolved'
  <2>1. members' = [members EXCEPT ![g] = members[g] \ {u}]
    BY <1>3 DEF AdminRemove, Leave
  <2>2. groups' = groups \/ (groups' = groups \ {g} /\ members[g] \subseteq {u})
    BY <1>3 DEF AdminRemove, Leave, Emptied
  <2> QED BY <2>1, <2>2 DEF Dissolved
<1>4. ASSUME NEW g \in Groups, AdminDelete(w, g)
      PROVE  Dissolved'
  BY <1>4 DEF AdminDelete, Dissolved
<1>5. ASSUME NEW q \in Removals, RemoveAccount(w, q)
      PROVE  Dissolved'
  <2>1. members' = [g \in Groups |-> members[g] \ {q.user}]
    BY <1>5 DEF RemoveAccount
  <2>2. \A g \in groups \ groups' : members[g] \subseteq {q.user}
    BY <1>5 DEF RemoveAccount, Emptied
  <2> QED BY <2>1, <2>2 DEF Dissolved
<1>6. CASE PurgeIdentity(w)
  BY <1>6 DEF PurgeIdentity, Dissolved
<1> QED
  <2>1. CASE \E u \in Users, r \in Resources, p \in Principals : Create(w, u, r, p)
    BY <1>1, <2>1 DEF Create
  <2>2. CASE \E q \in Requests : Request(w, q)
    BY <1>1, <2>2 DEF Request
  <2>3. CASE Settle(w) \/ PurgeBindings(w) \/ ListBound(w) \/ DropBindings(w)
             \/ RematerializeResource(w) \/ ReadLive(w) \/ WriteRow(w)
    BY <1>1, <2>3 DEF Settle, PurgeBindings, ListBound, DropBindings,
                      RematerializeResource, ReadLive, WriteRow, data
  <2>4. CASE Authorize(w) \/ Retry(w) \/ Deny(w) \/ Read(w) \/ Drop(w) \/ Grant(w) \/ Revoke(w)
    BY <1>1, <2>4 DEF Authorize, Retry, Deny, Read, Drop, Grant, Revoke
  <2> QED BY <1>2, <1>3, <1>4, <1>5, <1>6, <2>1, <2>2, <2>3, <2>4 DEF Step

\* What a job takes for granted holds after each of its steps.
LEMMA AwareKept ==
  ASSUME TypeOK, NEW w \in Workers, Aware(w), Step(w)
  PROVE  TakenForGone(w)' /\ RemovedOnce(w)' /\ DeniedMayNot(w)'
<1> USE Typed
<1>0. Sound(w) /\ TakenForGone(w) /\ RemovedOnce(w) /\ DeniedMayNot(w)
  BY DEF Aware
<1>1. CASE job'[w] = Idle
  BY <1>1, IdleAware
<1>2. CASE \/ \E u \in Users, r \in Resources, p \in Principals : Create(w, u, r, p)
           \/ \E u \in Users, g \in Groups : AdminAdd(w, u, g) \/ AdminRemove(w, u, g)
           \/ \E g \in Groups : AdminDelete(w, g)
  BY <1>1, <1>2 DEF Create, AdminAdd, AdminRemove, AdminDelete
<1>3. ASSUME NEW u \in Users, NEW g \in Groups, Join(w, u, g)
      PROVE  TakenForGone(w)' /\ RemovedOnce(w)' /\ DeniedMayNot(w)'
  <2>1. job'[w] = [Idle EXCEPT !.phase = "member", !.lists = {<<u, g, FALSE>>}]
    BY <1>3 DEF Join
  <2>2. job'[w].phase = "member" /\ job'[w].lists = {<<u, g, FALSE>>} /\ job'[w].unbind = {}
    BY <2>1 DEF Idle
  <2> QED BY <2>2 DEF TakenForGone, RemovedOnce, DeniedMayNot
<1>4. ASSUME NEW u \in Users, NEW g \in Groups, Leave(w, u, g)
      PROVE  TakenForGone(w)' /\ RemovedOnce(w)' /\ DeniedMayNot(w)'
  <2>1. /\ job'[w] = [Idle EXCEPT !.phase = "member", !.lists = {<<u, g, Emptied(g, u)>>}]
        /\ Emptied(g, u) => groups' = groups \ {g}
    BY <1>4 DEF Leave
  <2>2. /\ job'[w].phase = "member" /\ job'[w].lists = {<<u, g, Emptied(g, u)>>}
        /\ job'[w].unbind = {}
    BY <2>1 DEF Idle
  <2>3. \A l \in job'[w].lists : l[3] => l[2] \notin groups'
    BY <2>1, <2>2
  <2> QED BY <2>2, <2>3 DEF TakenForGone, RemovedOnce, DeniedMayNot
<1>5. ASSUME NEW q \in Removals, RemoveAccount(w, q)
      PROVE  TakenForGone(w)' /\ RemovedOnce(w)' /\ DeniedMayNot(w)'
  <2> DEFINE mine == {g \in Groups : q.user \in members[g]}
             gone == {g \in mine : Emptied(g, q.user)}
             listed == {<<q.user, g, g \in gone>> : g \in mine}
  <2>1. /\ job'[w] = [Idle EXCEPT !.phase = "remove", !.removal = {q}, !.lists = listed]
        /\ groups' = groups \ gone
        /\ status' = status /\ status[q.user] # "purged"
    BY <1>5 DEF RemoveAccount
  <2>2. /\ job'[w].phase = "remove" /\ job'[w].lists = listed
        /\ job'[w].unbind = {} /\ job'[w].removal = {q}
    <3> HIDE DEF listed
    <3> QED BY <2>1 DEF Idle
  <2>3. \A l \in listed : l[3] => l[2] \in gone
    <3> HIDE DEF gone
    <3> SUFFICES ASSUME NEW l \in listed, l[3] PROVE l[2] \in gone
      OBVIOUS
    <3>1. PICK g \in mine : l = <<q.user, g, g \in gone>>
      OBVIOUS
    <3>2. l[2] = g /\ l[3] = (g \in gone)
      BY <3>1
    <3> QED BY <3>2
  <2> HIDE DEF listed, gone
  <2>4. \A l \in job'[w].lists : l[3] => l[2] \notin groups'
    BY <2>1, <2>2, <2>3
  <2> QED BY <2>1, <2>2, <2>4 DEF TakenForGone, RemovedOnce, DeniedMayNot
<1>6. CASE Settle(w) \/ PurgeIdentity(w) \/ Deny(w) \/ Drop(w)
  BY <1>1, <1>6 DEF Settle, PurgeIdentity, Deny, Drop
<1>7. CASE PurgeBindings(w)
  <2>1. PICK rs : job'[w] = [job[w] EXCEPT !.phase = "identity", !.sweep = rs]
    BY <1>7 DEF PurgeBindings
  <2>2. /\ job'[w].phase = "identity" /\ job'[w].lists = job[w].lists
        /\ job'[w].unbind = job[w].unbind /\ job'[w].removal = job[w].removal
    BY <2>1 DEF Jobs
  <2>3. groups' = groups /\ status' = status /\ job[w].phase = "remove"
    BY <1>7 DEF PurgeBindings
  <2> QED BY <1>0, <2>2, <2>3 DEF TakenForGone, RemovedOnce, DeniedMayNot
<1>8. CASE ListBound(w)
  <2>1. PICK l \in job[w].lists : \E t :
          job'[w] = [job[w] EXCEPT !.lists = job[w].lists \ {l}, !.todo = t,
                                   !.unbind = IF l[3] THEN {l[2]} ELSE {}]
    BY <1>8 DEF ListBound
  <2>2. /\ job'[w].phase = job[w].phase /\ job'[w].lists = job[w].lists \ {l}
        /\ job'[w].unbind = (IF l[3] THEN {l[2]} ELSE {})
        /\ job'[w].removal = job[w].removal
    BY <2>1 DEF Jobs
  <2>3. job[w].phase # "denied"
    BY <1>0, <2>1 DEF Sound, Quiet, Clear
  <2>4. groups' = groups /\ status' = status
    BY <1>8 DEF ListBound
  <2>5. TakenForGone(w)'
    BY <1>0, <2>2, <2>4 DEF TakenForGone
  <2> QED BY <1>0, <2>2, <2>3, <2>4, <2>5 DEF RemovedOnce, DeniedMayNot
<1>9. CASE DropBindings(w) \/ RematerializeResource(w) \/ ReadLive(w)
  <2>2. /\ job'[w].phase = job[w].phase /\ job'[w].lists = job[w].lists
        /\ job'[w].unbind \subseteq job[w].unbind /\ job'[w].removal = job[w].removal
    <3>1. CASE DropBindings(w)
      <4>1. PICK g, ss : job'[w] = [job[w] EXCEPT !.unbind = job[w].unbind \ {g}, !.sweep = ss]
        BY <3>1, ZenonT(40) DEF DropBindings
      <4> QED BY <4>1 DEF Jobs
    <3>2. CASE RematerializeResource(w)
      <4>1. PICK r \in job[w].sweep : \E t :
              job'[w] = [job[w] EXCEPT !.sweep = job[w].sweep \ {r}, !.todo = t]
        BY <3>2 DEF RematerializeResource
      <4> QED BY <4>1 DEF Jobs
    <3>3. CASE ReadLive(w)
      <4>1. PICK t, k : job'[w] = [job[w] EXCEPT !.todo = t, !.seen = k]
        BY <3>3 DEF ReadLive
      <4> QED BY <4>1 DEF Jobs
    <3> QED BY <1>9, <3>1, <3>2, <3>3
  <2>3. job[w].phase # "denied"
    BY <1>0, <1>9 DEF Sound, Quiet, Clear, DropBindings, RematerializeResource, ReadLive
  <2>4. groups' = groups /\ status' = status
    BY <1>9 DEF DropBindings, RematerializeResource, ReadLive
  <2> QED BY <1>0, <2>2, <2>3, <2>4 DEF TakenForGone, RemovedOnce, DeniedMayNot
<1>10. CASE WriteRow(w)
  <2>1. PICK s \in job[w].seen :
          \/ job'[w] = Idle
          \/ job'[w] = [job[w] EXCEPT !.seen = {}, !.got = s.flags]
    BY <1>10 DEF WriteRow
  <2>2. CASE job'[w] # Idle
    <3>1. /\ job'[w].phase = job[w].phase /\ job'[w].lists = job[w].lists
          /\ job'[w].unbind = job[w].unbind /\ job'[w].removal = job[w].removal
      BY <2>1, <2>2 DEF Jobs
    <3>2. job[w].phase # "denied"
      BY <1>0, <2>1 DEF Sound, Quiet, Clear
    <3>3. groups' = groups /\ status' = status
      BY <1>10 DEF WriteRow, data
    <3> QED BY <1>0, <3>1, <3>2, <3>3 DEF TakenForGone, RemovedOnce, DeniedMayNot
  <2> QED BY <1>1, <2>2
<1>11. ASSUME NEW q \in Requests, Request(w, q)
       PROVE  TakenForGone(w)' /\ RemovedOnce(w)' /\ DeniedMayNot(w)'
  <2>1. job'[w] = [Idle EXCEPT !.phase = "authorize", !.request = {q}]
    BY <1>11 DEF Request
  <2> QED BY <2>1, QuietAware DEF Idle
<1>12. CASE Authorize(w)
  <2>1. PICK t : \/ job'[w] = [job[w] EXCEPT !.phase = "allowed"]
                 \/ job'[w] = [job[w] EXCEPT !.phase = "retry", !.todo = t]
    BY <1>12 DEF Authorize
  <2>2. job'[w].phase \in {"allowed", "retry"} /\ job'[w].lists = {} /\ job'[w].unbind = {}
    BY <1>12, <2>1 DEF Authorize, Clear, Jobs
  <2> QED BY <2>2, QuietAware
<1>13. CASE Retry(w)
  <2>1. PICK q \in job[w].request :
          job' = [job EXCEPT ![w].phase =
                    IF Need(q) \in job[w].got /\ effective[q.user][q.resource] # {}
                    THEN "allowed" ELSE "denied"]
    BY <1>13 DEF Retry
  <2>2. Clear(job[w]) /\ job[w].phase = "retry" /\ members' = members /\ bindings' = bindings
    BY <1>13 DEF Retry
  <2>3. /\ job'[w].phase = (IF Need(q) \in job[w].got /\ effective[q.user][q.resource] # {}
                            THEN "allowed" ELSE "denied")
        /\ job'[w].lists = {} /\ job'[w].unbind = {} /\ job'[w].request = job[w].request
    BY <2>1, <2>2 DEF Clear, Jobs
  <2>4. DeniedMayNot(w)'
    <3> SUFFICES ASSUME job'[w].phase = "denied", NEW p \in job[w].request
                 PROVE  Need(p) \notin LiveIn(members, bindings, p.user, p.resource)
      BY <2>2, <2>3 DEF DeniedMayNot, Live
    <3>1. p = q
      BY <1>0 DEF Sound, OneRequest
    <3>2. q.user \in Users /\ q.resource \in Resources
      BY DEF Jobs, Requests
    <3>3. effective[q.user][q.resource] = Live(q.user, q.resource)
      BY <1>0, <2>2, <3>2, ClearOwesNothing DEF Sound
    <3>4. job[w].got = Live(q.user, q.resource)
      BY <1>0, <2>2 DEF Sound, RetryKnows, Clear
    <3> QED BY <2>3, <3>1, <3>3, <3>4 DEF Live
  <2> QED BY <2>3, <2>4 DEF TakenForGone, RemovedOnce
<1>14. CASE Read(w) \/ Grant(w) \/ Revoke(w)
  <2>1. PICK q \in job[w].request :
          \/ job'[w] = Idle
          \/ job'[w] = [Idle EXCEPT !.phase = "authorize", !.request = {Answering(q)}]
          \/ job'[w] = [Idle EXCEPT !.phase = "authorize", !.request = {Answering(q)},
                                    !.sweep = {q.resource}]
    BY <1>14 DEF Read, Grant, Revoke, Rebound
  <2>2. CASE job'[w] # Idle
    <3>1. job'[w].phase = "authorize" /\ job'[w].lists = {} /\ job'[w].unbind = {}
      BY <2>1, <2>2 DEF Idle
    <3> QED BY <3>1, QuietAware
  <2> QED BY <1>1, <2>2
<1> QED BY <1>2, <1>3, <1>4, <1>5, <1>6, <1>7, <1>8, <1>9, <1>10, <1>11, <1>12, <1>13,
           <1>14 DEF Step

LEMMA AwareInvKept == Alone /\ AwareInv /\ [Next]_vars => AwareInv'
<1> SUFFICES ASSUME Alone, AwareInv, [Next]_vars PROVE AwareInv'
  OBVIOUS
<1>1. IInv'
  BY IInvKept DEF AwareInv, IInv, Aware
<1>2. ASSUME NEW w \in Workers PROVE Aware(w)'
  <2>1. TypeOK /\ Aware(w) /\ Sound(w)'
    BY <1>1 DEF AwareInv, IInv
  <2>2. CASE UNCHANGED vars
    <3>1. UNCHANGED <<status, groups, members, bindings, job>>
      BY <2>2 DEF vars
    <3>2. \A u, r : Live(u, r)' = Live(u, r)
      BY <3>1, LiveNext DEF Live
    <3>3. Dissolved' /\ TakenForGone(w)' /\ RemovedOnce(w)' /\ DeniedMayNot(w)'
      BY <2>1, <3>1, <3>2 DEF Aware, Dissolved, TakenForGone, RemovedOnce, DeniedMayNot
    <3> QED BY <2>1, <3>3 DEF Aware
  <2>3. CASE Next
    <3>1. PICK v \in Workers : Step(v)
      BY <2>3 DEF Next
    <3>2. v = w
      BY DEF Alone
    <3>3. Dissolved'
      BY <2>1, <3>1, DissolvedKept DEF Aware
    <3> QED BY <2>1, <3>1, <3>2, <3>3, AwareKept DEF Aware
  <2> QED BY <2>2, <2>3
<1> QED BY <1>1, <1>2 DEF AwareInv, IInv

-----------------------------------------------------------------------------
(* One worker implements the contract: what the paths give and what the      *)
(* materialised rows give is the same.                                       *)

\* The decision a job has just taken.
Decision(j) ==
    IF j.phase \in {"allowed", "denied"}
    THEN {[user |-> q.user, resource |-> q.resource, need |-> Need(q),
           allowed |-> j.phase = "allowed"] : q \in j.request}
    ELSE {}

LEMMA VerdictAlone ==
  ASSUME NEW w, Workers = {w}
  PROVE  Verdict = Decision(job[w]) /\ Verdict' = Decision(job'[w])
<1>1. CASE job[w].phase \in {"allowed", "denied"}
  <2>1. {v \in Workers : job[v].phase \in {"allowed", "denied"}} = {w}
    BY <1>1
  <2> QED BY <1>1, <2>1 DEF Verdict, Decision
<1>2. CASE job[w].phase \notin {"allowed", "denied"}
  <2>1. {v \in Workers : job[v].phase \in {"allowed", "denied"}} = {}
    BY <1>2
  <2> QED BY <1>2, <2>1 DEF Verdict, Decision
<1>3. CASE job'[w].phase \in {"allowed", "denied"}
  <2>1. {v \in Workers : job'[v].phase \in {"allowed", "denied"}} = {w}
    BY <1>3
  <2> QED BY <1>3, <2>1 DEF Verdict, Decision
<1>4. CASE job'[w].phase \notin {"allowed", "denied"}
  <2>1. {v \in Workers : job'[v].phase \in {"allowed", "denied"}} = {}
    BY <1>4
  <2> QED BY <1>4, <2>1 DEF Verdict, Decision
<1> QED BY <1>1, <1>2, <1>3, <1>4

\* A need is met by the live flags exactly when one of the grants along the
\* paths meets it.
LEMMA LiveIsHeld ==
  ASSUME TypeOK, NEW u \in Users, NEW r \in Resources, NEW f
  PROVE  f \in Live(u, r) <=> \E g \in Contract!Held(u, r) : f \in FlagsOf(g)
<1> DEFINE P == {u} \union {g \in Groups : u \in members[g]}
<1>1. \A p \in P : bindings[r][p] \in SUBSET AccessGrant
  BY Typed, NormalSubset DEF Principals
<1>2. \A p \in P : f \in FlagsOfGrantSet(bindings[r][p])
                      <=> \E h \in bindings[r][p] : f \in FlagsOf(h)
  BY <1>1, FlagsPointwise
<1>3. f \in Live(u, r) <=> \E p \in P : f \in FlagsOfGrantSet(bindings[r][p])
  BY DEF Live, LiveIn
<1>4. Contract!Held(u, r) = UNION {bindings[r][p] : p \in P}
  BY DEF Contract!Held, Contract!Paths
<1> QED BY <1>2, <1>3, <1>4

\* The contract's grant algebra is the one of the implementation.
LEMMA SameAlgebra ==
  /\ Contract!Principals = Principals /\ Contract!AccessGrant = AccessGrant
  /\ Contract!AccessFlags = AccessFlags
  /\ \A g : Contract!FlagsOf(g) = FlagsOf(g)
  /\ \A g, h : Contract!CanIssueGrant(g, h) <=> CanIssueGrant(g, h)
  /\ \A s, g : Contract!MergeIncomingGrant(s, g) = MergeIncomingGrant(s, g)
<1>1. /\ Contract!Principals = Principals /\ Contract!AccessGrant = AccessGrant
      /\ Contract!AccessFlags = AccessFlags
  BY DEF Contract!Principals, Principals, Contract!AccessGrant, AccessGrant,
         Contract!AccessFlags, AccessFlags
<1>2. \A g : Contract!FlagsOf(g) = FlagsOf(g)
  BY <1>1 DEF Contract!FlagsOf, FlagsOf
<1>3. \A g, h : Contract!CanIssueGrant(g, h) <=> CanIssueGrant(g, h)
  BY DEF Contract!CanIssueGrant, CanIssueGrant
<1>4. \A s : Contract!NormalizeGrantSet(s) = NormalizeGrantSet(s)
  BY <1>2 DEF Contract!NormalizeGrantSet, NormalizeGrantSet, Contract!GrantDominates, GrantDominates
<1>5. \A s, g : Contract!MergeIncomingGrant(s, g) = MergeIncomingGrant(s, g)
  BY <1>4 DEF Contract!MergeIncomingGrant, MergeIncomingGrant
<1> QED BY <1>1, <1>2, <1>3, <1>5

\* Whoever may revoke or drop holds ownership along a path.
LEMMA OwnerHolds ==
  ASSUME TypeOK, NEW u \in Users, NEW r \in Resources, "own" \in Live(u, r)
  PROVE  "owner" \in Contract!Held(u, r)
<1>1. PICK g \in Contract!Held(u, r) : "own" \in FlagsOf(g)
  BY LiveIsHeld
<1>2. g \in AccessGrant
  <2>1. \A p \in {u} \union {h \in Groups : u \in members[h]} : bindings[r][p] \subseteq AccessGrant
    BY Typed, NormalSubset DEF Principals
  <2> QED BY <2>1 DEF Contract!Held, Contract!Paths
<1>3. g = "owner"
  BY <1>1, <1>2 DEF AccessGrant, FlagsOf
<1> QED BY <1>1, <1>3

\* Whoever may issue a grant holds one that issues it.
LEMMA IssuerHasGrant ==
  ASSUME TypeOK, NEW u \in Users, NEW r \in Resources, NEW g \in AccessGrant,
         FlagToIssue(g) \in Live(u, r)
  PROVE  \E source \in Contract!Held(u, r) : CanIssueGrant(source, g)
<1>1. Contract!Held(u, r) \in SUBSET AccessGrant
  <2>1. \A p \in {u} \union {h \in Groups : u \in members[h]} : bindings[r][p] \subseteq AccessGrant
    BY Typed, NormalSubset DEF Principals
  <2> QED BY <2>1 DEF Contract!Held, Contract!Paths
<1>2. PICK h \in Contract!Held(u, r) : FlagToIssue(g) \in FlagsOf(h)
  BY LiveIsHeld
<1> DEFINE H == Contract!Held(u, r)
<1>3. H \in SUBSET AccessGrant /\ FlagToIssue(g) \in UNION {FlagsOf(k) : k \in H}
  BY <1>1, <1>2
<1> HIDE DEF H
<1>4. \E source \in H : CanIssueGrant(source, g)
  BY <1>3, IssuedByOneGrant
<1> QED BY <1>4 DEF H

\* The step of the contract, from here on.
ContractStep ==
    Contract!Next \/ UNCHANGED <<status, groups, members, made, bindings, Verdict>>

\* Neither before nor after the step a decision stands.
NothingDecided(w) == Decision(job[w]) = {} /\ Decision(job'[w]) = {}

LEMMA UndecidedAlone ==
  ASSUME NEW w, Workers = {w}, NothingDecided(w)
  PROVE  Verdict = {} /\ Verdict' = {}
  BY VerdictAlone DEF NothingDecided

\* Steps that only rematerialise are the contract's stuttering.
LEMMA StutterStep ==
  ASSUME NEW w, Workers = {w}, NothingDecided(w), UNCHANGED data
  PROVE  ContractStep
  BY UndecidedAlone DEF ContractStep, data

\* People coming and going.
LEMMA RegroupStep ==
  ASSUME TypeOK, TypeOK', Dissolved', NEW w, Workers = {w}, NothingDecided(w),
         groups' \subseteq groups, made' = made, bindings' = bindings,
         \A u \in Users : status[u] = "purged" => status'[u] = "purged"
  PROVE  ContractStep
<1>1. Verdict' = {}
  BY UndecidedAlone
<1>2. /\ members' \in [Groups -> SUBSET Users]
      /\ status' \in [Users -> {"active", "deactivated", "purged"}]
  BY DEF TypeOK
<1>3. \A g \in Groups \ groups' : members'[g] = {}
  BY DEF Dissolved
<1>4. Contract!Regroup
  BY <1>1, <1>2, <1>3 DEF Contract!Regroup
<1> QED BY <1>4 DEF ContractStep, Contract!Next

\* What was granted to a principal going with it.
LEMMA ForgetStep ==
  ASSUME TypeOK, NEW w, Workers = {w}, NothingDecided(w), NEW p \in Principals,
         p \in Groups => p \notin groups',
         p \in Users => \A g \in Groups : p \notin members[g],
         groups' \in {groups, groups \ {p}},
         members' \in [Groups -> SUBSET Users],
         \A g \in Groups : members'[g] = IF g = p THEN {} ELSE members[g],
         bindings' = Unbound(p), status' = status, made' = made
  PROVE  ContractStep
<1>1. Verdict' = {}
  BY UndecidedAlone
<1>2. p \in Users => Contract!Paths(p) = {p}
  BY DEF Contract!Paths
<1>3. members' = [g \in Groups |-> IF g = p THEN {} ELSE members[g]]
  OBVIOUS
<1>4. bindings' = [r \in Resources |-> [bindings[r] EXCEPT ![p] = {}]]
  BY DEF Unbound
<1>5. Contract!Forget(p)
  BY <1>1, <1>2, <1>3, <1>4 DEF Contract!Forget
<1> QED BY <1>5, SameAlgebra DEF ContractStep, Contract!Next

LEMMA DecidedNothing ==
  /\ Decision(Idle) = {}
  /\ \A j : j.phase \notin {"allowed", "denied"} => Decision(j) = {}
  /\ \A j : Decision(j) # {} => j.phase \in {"allowed", "denied"}
  BY DEF Decision, Idle

\* Only a handler that has its decision can undo it: the others take no note.
LEMMA BusyUndecided ==
  ASSUME TypeOK, NEW w \in Workers, Sound(w), ~Clear(job[w]),
         job'[w] = Idle \/ job'[w].phase = job[w].phase
  PROVE  NothingDecided(w)
<1>1. job[w].phase \notin {"allowed", "denied"}
  BY DEF Sound, Quiet
<1> QED BY <1>1, DecidedNothing DEF NothingDecided, Idle

LEMMA CreateStep ==
  ASSUME TypeOK, NEW w, Workers = {w}, NEW u \in Users, NEW r \in Resources,
         NEW p \in Principals, Create(w, u, r, p)
  PROVE  ContractStep
<1>1. Verdict' = {}
  BY DecidedNothing, UndecidedAlone DEF Create, NothingDecided
<1>2. r \notin made /\ p \in Contract!Paths(u)
  BY Typed DEF Create, Contract!Paths, Principals
<1>3. Contract!Create(u, r, p)
  BY <1>1, <1>2 DEF Create, Contract!Create
<1> QED BY <1>3, SameAlgebra DEF ContractStep, Contract!Next

LEMMA AdminRemoveStep ==
  ASSUME TypeOK, NEW w, Workers = {w}, NEW u \in Users, NEW g \in Groups,
         AdminRemove(w, u, g)
  PROVE  ContractStep
<1>1. Verdict' = {}
  BY DecidedNothing, UndecidedAlone DEF AdminRemove, NothingDecided
<1>2. members' = [members EXCEPT ![g] = members[g] \ {u}] /\ status' = status /\ made' = made
  BY DEF AdminRemove
<1>3. CASE Emptied(g, u)
  <2>1. groups' = groups \ {g} /\ bindings' = Unbound(g)
    BY <1>3 DEF AdminRemove
  <2>2. members'[g] = {}
    BY <1>2, <1>3, Typed DEF Emptied
  <2>3. Contract!Expel(u, g)
    BY <1>1, <1>2, <2>1, <2>2 DEF Contract!Expel, Unbound
  <2> QED BY <2>3 DEF ContractStep, Contract!Next
<1>4. CASE ~Emptied(g, u)
  <2>1. groups' = groups /\ bindings' = bindings /\ g \in groups
    BY <1>4 DEF AdminRemove
  <2>2. Contract!Expel(u, g)
    BY <1>1, <1>2, <2>1 DEF Contract!Expel
  <2> QED BY <2>2 DEF ContractStep, Contract!Next
<1> QED BY <1>3, <1>4

\* Joining, leaving, being added and being removed.
LEMMA MembersStep ==
  ASSUME TypeOK, TypeOK', Dissolved', NEW w, Workers = {w}, Aware(w), Step(w),
         \/ \E u \in Users, g \in Groups : AdminAdd(w, u, g) \/ Join(w, u, g) \/ Leave(w, u, g)
         \/ \E q \in Removals : RemoveAccount(w, q)
         \/ Settle(w) \/ PurgeIdentity(w)
  PROVE  ContractStep
<1>0. job \in [Workers -> Jobs] /\ w \in Workers
  BY Typed
<1>1. CASE \E u \in Users, g \in Groups : AdminAdd(w, u, g)
  <2>1. NothingDecided(w)
    BY <1>1, DecidedNothing DEF AdminAdd, NothingDecided
  <2> QED BY <1>1, <2>1, RegroupStep DEF AdminAdd
<1>2. CASE \E u \in Users, g \in Groups : Join(w, u, g) \/ Leave(w, u, g)
  <2>1. PICK l : job[w] = Idle /\ job'[w] = [Idle EXCEPT !.phase = "member", !.lists = l]
    BY <1>0, <1>2 DEF Join, Leave
  <2>2. NothingDecided(w)
    BY <2>1, DecidedNothing DEF NothingDecided, Idle
  <2>3. groups' \subseteq groups /\ made' = made /\ bindings' = bindings /\ status' = status
    BY <1>2 DEF Join, Leave
  <2> QED BY <2>2, <2>3, RegroupStep
<1>3. ASSUME NEW q \in Removals, RemoveAccount(w, q)
      PROVE  ContractStep
  <2>1. PICK l : job[w] = Idle
                 /\ job'[w] = [Idle EXCEPT !.phase = "remove", !.removal = {q}, !.lists = l]
    BY <1>0, <1>3 DEF RemoveAccount
  <2>2. NothingDecided(w)
    BY <2>1, DecidedNothing DEF NothingDecided, Idle
  <2>3. groups' \subseteq groups /\ made' = made /\ bindings' = bindings /\ status' = status
    BY <1>3 DEF RemoveAccount
  <2> QED BY <2>2, <2>3, RegroupStep
<1>4. CASE Settle(w)
  <2>1. job'[w] = Idle /\ job[w].phase \in {"member", "remove"}
    BY <1>0, <1>4 DEF Settle
  <2>2. NothingDecided(w)
    BY <2>1, DecidedNothing DEF NothingDecided
  <2>3. groups' = groups /\ made' = made /\ bindings' = bindings
    BY <1>4 DEF Settle
  <2>4. ASSUME NEW u \in Users, status[u] = "purged"
        PROVE  status'[u] = "purged"
    <3>1. CASE status' = status
      BY <2>4, <3>1
    <3>2. CASE status' # status
      <4>1. PICK q \in job[w].removal : status' = [status EXCEPT ![q.user] = "deactivated"]
        BY <1>4, <3>2 DEF Settle
      <4>2. status[q.user] # "purged"
        BY <1>4, <3>2 DEF Settle, Aware, RemovedOnce
      <4> QED BY <2>4, <4>1, <4>2, Typed
    <3> QED BY <3>1, <3>2
  <2> QED BY <2>2, <2>3, <2>4, RegroupStep
<1>5. CASE PurgeIdentity(w)
  <2>1. job'[w] = Idle /\ job[w].phase = "identity"
    BY <1>0, <1>5 DEF PurgeIdentity
  <2>2. NothingDecided(w)
    BY <2>1, DecidedNothing DEF NothingDecided
  <2>3. groups' = groups /\ made' = made /\ bindings' = bindings
    BY <1>5 DEF PurgeIdentity
  <2>4. \A u \in Users : status[u] = "purged" => status'[u] = "purged"
    BY <1>5, Typed DEF PurgeIdentity
  <2> QED BY <2>2, <2>3, <2>4, RegroupStep
<1> QED BY <1>1, <1>2, <1>3, <1>4, <1>5

\* A group or an account goes and takes with it what was granted to it.
LEMMA ForgettingStep ==
  ASSUME TypeOK, TypeOK', NEW w, Workers = {w}, Aware(w), Step(w),
         (\E g \in Groups : AdminDelete(w, g)) \/ DropBindings(w) \/ PurgeBindings(w)
  PROVE  ContractStep
<1>0. job \in [Workers -> Jobs] /\ w \in Workers /\ members' \in [Groups -> SUBSET Users]
  BY Typed DEF TypeOK
<1>1. ASSUME NEW g \in Groups, AdminDelete(w, g)
      PROVE  ContractStep
  <2>1. NothingDecided(w)
    BY <1>1, DecidedNothing DEF AdminDelete, NothingDecided
  <2>2. g \in Principals /\ g \notin Users
    BY AccessAssumption DEF Principals
  <2>3. \A h \in Groups : members'[h] = IF h = g THEN {} ELSE members[h]
    BY <1>1, Typed DEF AdminDelete
  <2> QED BY <1>0, <1>1, <2>1, <2>2, <2>3, ForgetStep DEF AdminDelete
<1>2. CASE DropBindings(w)
  <2>1. PICK g \in job[w].unbind :
          /\ bindings' = Unbound(g)
          /\ job'[w] = [job[w] EXCEPT !.unbind = job[w].unbind \ {g}, !.sweep = BoundTo(g)]
    BY <1>0, <1>2 DEF DropBindings
  <2>2. g \in Groups /\ g \in Principals /\ g \notin Users
    BY <1>0, AccessAssumption DEF Jobs, Principals
  <2>3. job'[w].phase = job[w].phase /\ ~Clear(job[w])
    BY <1>0, <2>1 DEF Jobs, Clear
  <2>4. NothingDecided(w)
    BY <1>0, <2>3, BusyUndecided DEF Aware
  <2>5. groups' = groups /\ members' = members /\ status' = status /\ made' = made
    BY <1>2 DEF DropBindings
  <2>6. g \notin groups /\ members[g] = {}
    BY <2>1 DEF Aware, TakenForGone, Sound, Departed
  <2>7. \A h \in Groups : members'[h] = IF h = g THEN {} ELSE members[h]
    BY <2>5, <2>6
  <2> QED BY <1>0, <2>1, <2>2, <2>4, <2>5, <2>6, <2>7, ForgetStep
<1>3. CASE PurgeBindings(w)
  <2>1. PICK q \in job[w].removal :
          /\ bindings' = Unbound(q.user)
          /\ job'[w] = [job[w] EXCEPT !.phase = "identity", !.sweep = BoundTo(q.user)]
    BY <1>0, <1>3 DEF PurgeBindings
  <2>2. q.user \in Users /\ q.user \in Principals /\ q.user \notin Groups
    BY <1>0, AccessAssumption DEF Jobs, Removals, Principals
  <2>3. job'[w].phase = "identity" /\ job[w].phase = "remove"
    <3>1. job[w] \in Jobs /\ job[w].phase = "remove"
      BY <1>0, <1>3 DEF PurgeBindings
    <3> QED BY <2>1, <3>1 DEF Jobs
  <2>4. NothingDecided(w)
    BY <2>3, DecidedNothing DEF NothingDecided
  <2>5. groups' = groups /\ members' = members /\ status' = status /\ made' = made
    BY <1>3 DEF PurgeBindings
  <2>6. \A h \in Groups : q.user \notin members[h]
    BY <2>1, <2>2, <2>3 DEF Aware, Sound, Left, Gone
  <2> DEFINE p == q.user
  <2>7. /\ p \in Principals /\ p \notin Groups /\ bindings' = Unbound(p)
        /\ \A h \in Groups : p \notin members[h]
        /\ \A h \in Groups : members'[h] = IF h = p THEN {} ELSE members[h]
    BY <2>1, <2>2, <2>5, <2>6
  <2> HIDE DEF p
  <2> QED BY <1>0, <2>4, <2>5, <2>7, ForgetStep
<1> QED BY <1>1, <1>2, <1>3

\* What is only a rematerialisation, a request or a listing decides nothing.
LEMMA RowsStep ==
  ASSUME TypeOK, NEW w, Workers = {w}, Aware(w), Step(w),
         \/ \E q \in Requests : Request(w, q)
         \/ ListBound(w) \/ RematerializeResource(w) \/ ReadLive(w) \/ WriteRow(w)
  PROVE  ContractStep
<1>0. job[w] \in Jobs /\ w \in Workers /\ job \in [Workers -> Jobs] /\ Sound(w)
  BY Typed DEF Aware
<1>1. ASSUME NEW q \in Requests, Request(w, q)
      PROVE  ContractStep
  <2>1. job[w] = Idle /\ job'[w] = [Idle EXCEPT !.phase = "authorize", !.request = {q}]
    BY <1>0, <1>1 DEF Request
  <2>2. NothingDecided(w)
    BY <2>1, DecidedNothing DEF NothingDecided, Idle
  <2> QED BY <1>1, <2>2, StutterStep DEF Request, data
<1>2. CASE ListBound(w)
  <2>1. PICK l \in job[w].lists : \E t :
          job'[w] = [job[w] EXCEPT !.lists = job[w].lists \ {l}, !.todo = t,
                                   !.unbind = IF l[3] THEN {l[2]} ELSE {}]
    BY <1>0, <1>2 DEF ListBound
  <2>2. job'[w].phase = job[w].phase /\ ~Clear(job[w])
    BY <1>0, <2>1 DEF Jobs, Clear
  <2> QED BY <1>0, <1>2, <2>2, BusyUndecided, StutterStep DEF ListBound, data
<1>3. CASE RematerializeResource(w)
  <2>1. PICK r \in job[w].sweep : \E t :
          job'[w] = [job[w] EXCEPT !.sweep = job[w].sweep \ {r}, !.todo = t]
    BY <1>0, <1>3 DEF RematerializeResource
  <2>2. job'[w].phase = job[w].phase /\ ~Clear(job[w])
    BY <1>0, <2>1 DEF Jobs, Clear
  <2> QED BY <1>0, <1>3, <2>2, BusyUndecided, StutterStep DEF RematerializeResource, data
<1>4. CASE ReadLive(w)
  <2>1. PICK cell \in job[w].todo : \E k :
          job'[w] = [job[w] EXCEPT !.todo = job[w].todo \ {cell}, !.seen = k]
    BY <1>0, <1>4 DEF ReadLive
  <2>2. job'[w].phase = job[w].phase /\ ~Clear(job[w])
    BY <1>0, <2>1 DEF Jobs, Clear
  <2> QED BY <1>0, <1>4, <2>2, BusyUndecided, StutterStep DEF ReadLive, data
<1>5. CASE WriteRow(w)
  <2>1. PICK s \in job[w].seen :
          \/ job'[w] = Idle
          \/ job'[w] = [job[w] EXCEPT !.seen = {}, !.got = s.flags]
    BY <1>0, <1>5 DEF WriteRow
  <2>2. job'[w] = Idle \/ job'[w].phase = job[w].phase
    BY <1>0, <2>1 DEF Jobs
  <2>3. ~Clear(job[w])
    BY <2>1 DEF Clear
  <2> QED BY <1>0, <1>5, <2>2, <2>3, BusyUndecided, StutterStep DEF WriteRow, data
<1> QED BY <1>1, <1>2, <1>3, <1>4, <1>5

\* The decision on a request is the one of the contract.
LEMMA DecideStep ==
  ASSUME TypeOK, NEW w, Workers = {w}, NEW q \in Requests,
         job'[w].request = {q}, job'[w].phase \in {"allowed", "denied"},
         job'[w].phase = "allowed" <=> Need(q) \in Live(q.user, q.resource),
         UNCHANGED data
  PROVE  ContractStep
<1>1. Verdict' = {[user |-> q.user, resource |-> q.resource, need |-> Need(q),
                   allowed |-> job'[w].phase = "allowed"]}
  BY VerdictAlone DEF Decision
<1>2. q.user \in Users /\ q.resource \in Resources
  BY DEF Requests
<1>3. Need(q) \in AccessFlags
  BY DEF Requests, Need, FlagToIssue, AccessGrant, AccessFlags
<1>4. Contract!May(q.user, q.resource, Need(q)) = (job'[w].phase = "allowed")
  BY <1>2, LiveIsHeld, SameAlgebra DEF Contract!May
<1>5. Contract!Decide(q.user, q.resource, Need(q))
  BY <1>1, <1>4 DEF Contract!Decide, data
<1> QED BY <1>2, <1>3, <1>5, SameAlgebra DEF ContractStep, Contract!Next

LEMMA AuthorizeStep ==
  ASSUME TypeOK, NEW w, Workers = {w}, Aware(w), Authorize(w)
  PROVE  ContractStep
<1>0. job[w] \in Jobs /\ w \in Workers /\ job \in [Workers -> Jobs] /\ Sound(w)
  BY Typed DEF Aware
<1>1. job[w].phase = "authorize" /\ Clear(job[w]) /\ UNCHANGED data
  BY DEF Authorize, data
<1>2. PICK q \in job[w].request :
        \/ Need(q) \in effective[q.user][q.resource]
           /\ job'[w] = [job[w] EXCEPT !.phase = "allowed"]
        \/ job'[w] = [job[w] EXCEPT !.phase = "retry", !.todo = {<<q.user, q.resource>>}]
  BY <1>0 DEF Authorize
<1>3. CASE Need(q) \in effective[q.user][q.resource]
           /\ job'[w] = [job[w] EXCEPT !.phase = "allowed"]
  <2>1. q \in Requests /\ q.user \in Users /\ q.resource \in Resources
    BY <1>0 DEF Jobs, Requests
  <2>2. effective[q.user][q.resource] = Live(q.user, q.resource)
    BY <1>0, <1>1, <2>1, ClearOwesNothing DEF Sound
  <2>3. job'[w].request = {q} /\ job'[w].phase = "allowed"
    <3>1. job[w].request = {q}
      BY <1>0 DEF Sound, OneRequest
    <3> QED BY <1>0, <1>3, <3>1 DEF Jobs
  <2>4. job'[w].phase = "allowed" <=> Need(q) \in Live(q.user, q.resource)
    BY <1>3, <2>2, <2>3
  <2>5. job'[w].phase \in {"allowed", "denied"}
    BY <2>3
  <2> QED BY <1>1, <2>1, <2>3, <2>4, <2>5, DecideStep
<1>4. CASE job'[w] = [job[w] EXCEPT !.phase = "retry", !.todo = {<<q.user, q.resource>>}]
  <2>1. job'[w].phase = "retry"
    BY <1>0, <1>4 DEF Jobs
  <2>2. NothingDecided(w)
    BY <1>1, <2>1, DecidedNothing DEF NothingDecided
  <2> QED BY <1>1, <2>2, StutterStep
<1> QED BY <1>2, <1>3, <1>4

LEMMA RetryStep ==
  ASSUME TypeOK, NEW w, Workers = {w}, Aware(w), Retry(w)
  PROVE  ContractStep
<1>0. job[w] \in Jobs /\ w \in Workers /\ job \in [Workers -> Jobs] /\ Sound(w)
  BY Typed DEF Aware
<1>1. job[w].phase = "retry" /\ Clear(job[w]) /\ UNCHANGED data
  BY DEF Retry, data
<1>2. PICK q \in job[w].request :
        job' = [job EXCEPT ![w].phase =
                  IF Need(q) \in job[w].got /\ effective[q.user][q.resource] # {}
                  THEN "allowed" ELSE "denied"]
  BY DEF Retry
<1>3. q \in Requests /\ q.user \in Users /\ q.resource \in Resources
  BY <1>0 DEF Jobs, Requests
<1>4. job[w].got = Live(q.user, q.resource)
  BY <1>0, <1>1 DEF Sound, RetryKnows, Clear
<1>5. effective[q.user][q.resource] = Live(q.user, q.resource)
  BY <1>0, <1>1, <1>3, ClearOwesNothing DEF Sound
<1>6. job[w].request = {q}
  BY <1>0 DEF Sound, OneRequest
<1>7. /\ job'[w].request = {q}
      /\ job'[w].phase = (IF Need(q) \in job[w].got /\ effective[q.user][q.resource] # {}
                          THEN "allowed" ELSE "denied")
  BY <1>0, <1>2, <1>6 DEF Jobs
<1>8. job'[w].phase = "allowed" <=> Need(q) \in Live(q.user, q.resource)
  BY <1>4, <1>5, <1>7
<1> QED BY <1>1, <1>3, <1>7, <1>8, DecideStep

\* The handler that was denied or has read what it asked for answers.
LEMMA AnswerStep ==
  ASSUME TypeOK, NEW w, Workers = {w}, Aware(w), Deny(w) \/ Read(w)
  PROVE  ContractStep
<1>0. job[w] \in Jobs /\ w \in Workers /\ job \in [Workers -> Jobs]
  BY Typed
<1>1. \/ job'[w] = Idle
      \/ \E q : job'[w] = [Idle EXCEPT !.phase = "authorize", !.request = {q}]
  BY <1>0 DEF Deny, Read
<1>2. job'[w].phase \notin {"allowed", "denied"}
  <2>1. CASE job'[w] = Idle
    BY <2>1 DEF Idle
  <2>2. ASSUME NEW q, job'[w] = [Idle EXCEPT !.phase = "authorize", !.request = {q}]
        PROVE  job'[w].phase = "authorize"
    BY <2>2 DEF Idle
  <2> QED BY <1>1, <2>1, <2>2
<1>3. Verdict' = {}
  BY <1>2, VerdictAlone, DecidedNothing
<1>4. UNCHANGED data
  BY DEF Deny, Read, data
<1>5. Contract!Answer
  BY <1>3, <1>4 DEF Contract!Answer, data
<1> QED BY <1>5 DEF ContractStep, Contract!Next

\* What holds of the request that was allowed and is now carried out.
LEMMA CarriedOut ==
  ASSUME TypeOK, NEW w, Workers = {w}, Aware(w), job[w].phase = "allowed",
         NEW q \in job[w].request
  PROVE  /\ q \in Requests /\ q.user \in Users /\ q.resource \in Resources
         /\ Need(q) \in Live(q.user, q.resource)
<1>1. job[w] \in Jobs /\ w \in Workers
  BY Typed
<1>2. q \in Requests
  BY <1>1 DEF Jobs
<1>3. q.user \in Users /\ q.resource \in Resources
  BY <1>2 DEF Requests
<1>4. Need(q) \in Live(q.user, q.resource)
  BY <1>1 DEF Aware, Sound, AllowedMay
<1> QED BY <1>2, <1>3, <1>4

LEMMA NothingDone ==
  ASSUME NEW w, Workers = {w}, job'[w] = Idle, UNCHANGED data
  PROVE  ContractStep
<1>1. Verdict' = {}
  BY VerdictAlone, DecidedNothing
<1>2. Contract!Answer
  BY <1>1 DEF Contract!Answer, data
<1> QED BY <1>2 DEF ContractStep, Contract!Next

LEMMA DropStep ==
  ASSUME TypeOK, NEW w, Workers = {w}, Aware(w), Drop(w)
  PROVE  ContractStep
<1>1. job[w].phase = "allowed" /\ job'[w] = Idle /\ status' = status /\ groups' = groups
      /\ members' = members /\ made' = made
  BY Typed DEF Drop
<1>2. PICK q \in job[w].request :
        /\ q.op = "drop"
        /\ bindings' = [bindings EXCEPT ![q.resource] = [p \in Principals |-> {}]]
  BY DEF Drop
<1>3. q \in Requests /\ q.user \in Users /\ q.resource \in Resources
      /\ Need(q) \in Live(q.user, q.resource)
  BY <1>1, CarriedOut
<1>4. Need(q) = "own"
  BY <1>2 DEF Need
<1>5. "owner" \in Contract!Held(q.user, q.resource)
  BY <1>3, <1>4, OwnerHolds
<1>6. Verdict' = {}
  BY <1>1, VerdictAlone, DecidedNothing
<1>7. Contract!Drop(q.user, q.resource)
  BY <1>1, <1>2, <1>5, <1>6, SameAlgebra DEF Contract!Drop
<1> QED BY <1>3, <1>7 DEF ContractStep, Contract!Next

LEMMA RevokeStep ==
  ASSUME TypeOK, NEW w, Workers = {w}, Aware(w), Revoke(w)
  PROVE  ContractStep
<1>1. job[w].phase = "allowed" /\ status' = status /\ groups' = groups
      /\ members' = members /\ made' = made
  BY DEF Revoke
<1>2. PICK q \in job[w].request :
        /\ q.op = "revoke"
        /\ \/ /\ q.principal # q.user
              /\ bindings' = [bindings EXCEPT ![q.resource][q.principal] = {}]
              /\ job'[w] = [Idle EXCEPT !.phase = "authorize", !.request = {Answering(q)},
                                        !.sweep = {q.resource}]
           \/ bindings' = bindings /\ job'[w] = Idle
  BY Typed DEF Revoke, Rebound
<1>3. CASE bindings' = bindings /\ job'[w] = Idle
  BY <1>1, <1>3, NothingDone DEF data
<1>4. CASE ~(bindings' = bindings /\ job'[w] = Idle)
  <2>1. q \in Requests /\ q.user \in Users /\ q.resource \in Resources
        /\ Need(q) \in Live(q.user, q.resource)
    BY <1>1, CarriedOut
  <2>2. q.principal \in Principals
    BY <1>2, <2>1 DEF Requests
  <2>3. Need(q) = "own"
    BY <1>2 DEF Need
  <2>4. "owner" \in Contract!Held(q.user, q.resource)
    BY <2>1, <2>3, OwnerHolds
  <2>5. job'[w].phase = "authorize"
    BY <1>2, <1>4 DEF Idle
  <2>6. Verdict' = {}
    BY <2>5, VerdictAlone, DecidedNothing
  <2>7. Contract!Revoke(q.user, q.resource, q.principal)
    BY <1>1, <1>2, <1>4, <2>4, <2>6 DEF Contract!Revoke
  <2> QED BY <2>1, <2>2, <2>7, SameAlgebra DEF ContractStep, Contract!Next
<1> QED BY <1>3, <1>4

LEMMA GrantingStep ==
  ASSUME TypeOK, NEW w, Workers = {w}, Aware(w), Grant(w)
  PROVE  ContractStep
<1>1. job[w].phase = "allowed" /\ status' = status /\ groups' = groups
      /\ members' = members /\ made' = made
  BY DEF Grant
<1>2. PICK q \in job[w].request :
        /\ q.op = "grant"
        /\ \/ /\ Exists(q.principal)
              /\ bindings' = [bindings EXCEPT ![q.resource][q.principal] =
                                 MergeIncomingGrant(bindings[q.resource][q.principal], q.grant)]
              /\ job'[w] = [Idle EXCEPT !.phase = "authorize", !.request = {Answering(q)},
                                        !.sweep = {q.resource}]
           \/ bindings' = bindings /\ job'[w] = Idle
  BY Typed DEF Grant, Rebound
<1>3. CASE bindings' = bindings /\ job'[w] = Idle
  BY <1>1, <1>3, NothingDone DEF data
<1>4. CASE ~(bindings' = bindings /\ job'[w] = Idle)
  <2>1. q \in Requests /\ q.user \in Users /\ q.resource \in Resources
        /\ Need(q) \in Live(q.user, q.resource)
    BY <1>1, CarriedOut
  <2>2. q.principal \in Principals /\ q.grant \in AccessGrant
    BY <1>2, <2>1 DEF Requests
  <2>3. Need(q) = FlagToIssue(q.grant)
    BY <1>2 DEF Need
  <2>4. \E source \in Contract!Held(q.user, q.resource) : Contract!CanIssueGrant(source, q.grant)
    BY <2>1, <2>2, <2>3, IssuerHasGrant, SameAlgebra
  <2>5. job'[w].phase = "authorize"
    BY <1>2, <1>4 DEF Idle
  <2>6. Verdict' = {}
    BY <2>5, VerdictAlone, DecidedNothing
  <2>7. Contract!Exists(q.principal)
    BY <1>2, <1>4 DEF Contract!Exists, Exists
  <2>8. bindings' = [bindings EXCEPT ![q.resource][q.principal] =
                       Contract!MergeIncomingGrant(bindings[q.resource][q.principal], q.grant)]
    BY <1>2, <1>4, SameAlgebra
  <2>9. Contract!Grant(q.user, q.resource, q.principal, q.grant)
    BY <1>1, <2>4, <2>6, <2>7, <2>8 DEF Contract!Grant
  <2> QED BY <2>1, <2>2, <2>9, SameAlgebra DEF ContractStep, Contract!Next
<1> QED BY <1>2, <1>3, <1>4

LEMMA EveryStep ==
  ASSUME TypeOK, TypeOK', Dissolved', NEW w, Workers = {w}, Aware(w), Step(w)
  PROVE  ContractStep
<1>1. ASSUME NEW u \in Users, NEW r \in Resources, NEW p \in Principals, Create(w, u, r, p)
      PROVE  ContractStep
  BY <1>1, CreateStep
<1>2. ASSUME NEW u \in Users, NEW g \in Groups, AdminRemove(w, u, g)
      PROVE  ContractStep
  BY <1>2, AdminRemoveStep
<1>3. CASE \/ \E u \in Users, g \in Groups : AdminAdd(w, u, g) \/ Join(w, u, g) \/ Leave(w, u, g)
           \/ \E q \in Removals : RemoveAccount(w, q)
           \/ Settle(w) \/ PurgeIdentity(w)
  BY <1>3, MembersStep
<1>4. CASE (\E g \in Groups : AdminDelete(w, g)) \/ DropBindings(w) \/ PurgeBindings(w)
  BY <1>4, ForgettingStep
<1>5. CASE \/ \E q \in Requests : Request(w, q)
           \/ ListBound(w) \/ RematerializeResource(w) \/ ReadLive(w) \/ WriteRow(w)
  BY <1>5, RowsStep
<1>6. CASE Authorize(w)
  BY <1>6, AuthorizeStep
<1>7. CASE Retry(w)
  BY <1>7, RetryStep
<1>8. CASE Deny(w) \/ Read(w)
  BY <1>8, AnswerStep
<1>9. CASE Drop(w)
  BY <1>9, DropStep
<1>10. CASE Grant(w)
  BY <1>10, GrantingStep
<1>11. CASE Revoke(w)
  BY <1>11, RevokeStep
<1> QED BY <1>1, <1>2, <1>3, <1>4, <1>5, <1>6, <1>7, <1>8, <1>9, <1>10, <1>11 DEF Step

\* With requests that do not overlap, the rows that authorize trusts, its retry
\* and the rematerialisation after every change of a binding or a membership
\* decide exactly what the bindings and memberships of the moment say, and a
\* grant, a revocation or a drop is only carried out for somebody whom one of
\* those grants entitles to it (docs/systems/resource-authorization.md).
THEOREM AccessImplementsContract == Alone => (Spec => ImplementsContract)
<1> SUFFICES ASSUME Alone PROVE Spec => ImplementsContract
  OBVIOUS
<1>1. AwareInv /\ [Next]_vars => AwareInv'
  BY AwareInvKept
<1>2. Init => Contract!Init
  <2> SUFFICES ASSUME Init PROVE Contract!Init
    OBVIOUS
  <2>1. PICK w : Workers = {w}
    BY DEF Alone
  <2>2. job[w] = Idle
    BY <2>1 DEF Init
  <2>3. Verdict = {}
    BY <2>1, <2>2, VerdictAlone, DecidedNothing
  <2> QED BY <2>3, SameAlgebra DEF Init, Contract!Init
<1>3. AwareInv /\ AwareInv' /\ [Next]_vars
        => [Contract!Next]_<<status, groups, members, made, bindings, Verdict>>
  <2> SUFFICES ASSUME AwareInv, AwareInv', [Next]_vars PROVE ContractStep
    BY DEF ContractStep
  <2>1. PICK w : Workers = {w}
    BY DEF Alone
  <2>2. CASE UNCHANGED vars
    <3>1. job' = job /\ UNCHANGED data
      BY <2>2 DEF vars, data
    <3>2. Verdict' = Verdict
      BY <3>1, <2>1, VerdictAlone
    <3> QED BY <3>1, <3>2 DEF ContractStep, data
  <2>3. CASE Next
    <3>1. Step(w)
      BY <2>1, <2>3 DEF Next
    <3>2. TypeOK /\ TypeOK' /\ Aware(w) /\ Dissolved'
      BY <2>1 DEF AwareInv, Aware
    <3> QED BY <2>1, <3>1, <3>2, EveryStep
  <2> QED BY <2>2, <2>3
<1> QED BY InitAware, <1>1, <1>2, <1>3, PTL DEF Spec, ImplementsContract, Contract!Spec

-----------------------------------------------------------------------------
(***************************************************************************)
(* Intents: the types, and what holds of the queues between the devices    *)
(* and the server.                                                         *)
(***************************************************************************)
Values == [by : Devices \cup {None}, at : Nat, seq : Nat]
AskOps == {"write", "list", "flush"}
Merges == {"override", "furthest"}
Asks   == [op : AskOps, v : Values, merge : Merges, live : BOOLEAN]
Ends   == [to : Devices, live : BOOLEAN, op : AskOps, merge : Merges, v : Values, told : BOOLEAN]
Frames == [kind : {"event"}, v : Values] \cup [kind : {"answer"}, op : AskOps, v : Values, merge : Merges]
Stages == {"idle", "refreshing-access", "flushing-proposals"}
Locals == [base : Values, proposal : Values \cup {None}]

IntentTypes ==
    /\ kind \in Kinds
    /\ row \in Values
    /\ asked \in [Devices -> Seq(Asks)]
    /\ done \in Seq(Ends)
    /\ local \in [Devices -> Locals]
    /\ online \subseteq Devices
    /\ down \in [Devices -> Seq(Frames)]
    /\ phase \in [Devices -> Stages]
    /\ parked \in [Devices -> Seq(Values)]
    /\ last \in [Devices -> Values \cup {None}]
    /\ top \in [at : Nat, seq : Nat]

\* The row has once been as new, and as far, as v.
Reached(v) == v.at <= top.at /\ v.seq <= top.seq

\* Whatever is said to a device was once the row.
Witnessed ==
    /\ Reached(row)
    /\ \A n \in DOMAIN done : Reached(done[n].v)
    /\ \A d \in Devices : \A n \in DOMAIN down[d] : Reached(down[d][n].v)
    /\ \A d \in Devices : \A n \in DOMAIN parked[d] : Reached(parked[d][n])

\* The ends on their way to the coordinator end with the row, and one without an event
\* repeats the end before it.
CommitsInOrder ==
    /\ done # <<>> => done[Len(done)].v = row
    /\ \A n \in 2 .. Len(done) : ~done[n].told => done[n].v = done[n - 1].v

\* What d will hold before the frames on their way, and after them.
Before(d) == IF parked[d] # <<>> THEN parked[d][Len(parked[d])] ELSE local[d].base
Tip(d) == IF down[d] # <<>> THEN down[d][Len(down[d])].v ELSE Before(d)

\* Since it connected, d has been told the row: it holds it, or it is on its way.
Begun(d) == parked[d] # <<>> \/ phase[d] # "refreshing-access"
Heard(d) == down[d] # <<>> \/ Begun(d)

\* The frames of a device stop where the queue of ends begins.
FollowsOn == \A d \in online :
    /\ Heard(d) /\ done = <<>> => Tip(d) = row
    /\ Heard(d) /\ done # <<>> /\ ~done[1].told => Tip(d) = done[1].v

\* An answer says what the device has been told just before.
AnswersRepeat == \A d \in online :
    /\ down[d] # <<>> /\ down[d][1].kind = "answer" /\ Begun(d) => down[d][1].v = Before(d)
    /\ \A n \in 2 .. Len(down[d]) :
          down[d][n].kind = "answer" => down[d][n].v = down[d][n - 1].v

\* Events are parked during a recovery only; nothing comes back to a lost connection.
Settled == \A d \in Devices :
    /\ phase[d] = "idle" => parked[d] = <<>>
    /\ d \notin online => /\ down[d] = <<>> /\ phase[d] = "idle"
                          /\ \A n \in DOMAIN asked[d] : ~asked[d][n].live
                          /\ \A n \in DOMAIN done : done[n].to = d => ~done[n].live

\* A recovery that waits for its list has not flushed.
ListFirst == \A d \in Devices : phase[d] = "refreshing-access" =>
    /\ \A n \in DOMAIN asked[d] : asked[d][n].live => asked[d][n].op # "flush"
    /\ \A n \in DOMAIN done : done[n].to = d /\ done[n].live => done[n].op # "flush"
    /\ \A n \in DOMAIN down[d] : down[d][n].kind = "answer" => down[d][n].op # "flush"

\* v, merged this way, settles p.
Settles(merge, v, p) ==
    IF kind = "read" /\ merge = "furthest" THEN v.seq >= p.seq ELSE v.at >= p.at

\* The proposal of d is on its way: asked for, run, or answered.
Carries(d) ==
    \/ \E n \in DOMAIN asked[d] : /\ asked[d][n].live /\ asked[d][n].op # "list"
                                  /\ asked[d][n].v = local[d].proposal
    \/ \E n \in DOMAIN done : /\ done[n].to = d /\ done[n].live /\ done[n].op # "list"
                              /\ Settles(done[n].merge, done[n].v, local[d].proposal)
    \/ \E n \in DOMAIN down[d] : /\ down[d][n].kind = "answer" /\ down[d][n].op # "list"
                                 /\ Settles(down[d][n].merge, down[d][n].v, local[d].proposal)

\* A connected device past its list has its proposal on its way.
Carried == \A d \in online :
    local[d].proposal # None /\ phase[d] # "refreshing-access" => Carries(d)

-----------------------------------------------------------------------------
(***************************************************************************)
(* Sequences.                                                              *)
(***************************************************************************)
LEMMA SeqRemoved ==
    ASSUME NEW S, NEW s \in Seq(S), NEW n \in DOMAIN s
    PROVE  LET t == RemoveAt(s, n)
           IN /\ t \in Seq(S) /\ Len(t) = Len(s) - 1
              /\ \A i \in 1 .. Len(t) : t[i] = IF i < n THEN s[i] ELSE s[i + 1]
<1> DEFINE a == SubSeq(s, 1, n - 1)
           b == SubSeq(s, n + 1, Len(s))
<1>1. n \in 1 .. Len(s) /\ Len(s) \in Nat
  OBVIOUS
<1>2. /\ a \in Seq(S) /\ Len(a) = n - 1
      /\ \A i \in 1 .. n - 1 : a[i] = s[i]
  <2>1. /\ SubSeq(s, 1, n - 1) \in Seq(S)
        /\ Len(SubSeq(s, 1, n - 1)) = IF 1 <= n - 1 THEN n - 1 - 1 + 1 ELSE 0
        /\ \A i \in 1 .. n - 1 - 1 + 1 : SubSeq(s, 1, n - 1)[i] = s[1 + i - 1]
    <3>1. 1 \in 1 .. Len(s) + 1 /\ n - 1 \in 1 - 1 .. Len(s)
      BY <1>1
    <3> QED BY <3>1, SubSeqProperties
  <2> QED BY <1>1, <2>1
<1>3. /\ b \in Seq(S) /\ Len(b) = Len(s) - n
      /\ \A i \in 1 .. Len(s) - n : b[i] = s[n + i]
  <2>1. /\ b \in Seq(S)
        /\ Len(b) = IF n + 1 <= Len(s) THEN Len(s) - (n + 1) + 1 ELSE 0
        /\ \A i \in 1 .. Len(s) - (n + 1) + 1 : b[i] = s[(n + 1) + i - 1]
    <3>1. n + 1 \in 1 .. Len(s) + 1 /\ Len(s) \in (n + 1) - 1 .. Len(s)
      BY <1>1
    <3> QED BY <3>1, SubSeqProperties
  <2> QED BY <1>1, <2>1
<1>4. RemoveAt(s, n) = a \o b
  BY DEF RemoveAt
<1> HIDE DEF a, b
<1>5. /\ a \o b \in Seq(S) /\ Len(a \o b) = Len(a) + Len(b)
      /\ \A i \in 1 .. Len(a) + Len(b) :
            (a \o b)[i] = IF i <= Len(a) THEN a[i] ELSE b[i - Len(a)]
  BY <1>2, <1>3, ConcatProperties
<1> DEFINE t == RemoveAt(s, n)
<1>6. t \in Seq(S) /\ Len(t) = Len(s) - 1
  BY <1>1, <1>2, <1>3, <1>4, <1>5
<1>7. ASSUME NEW i \in 1 .. Len(t) PROVE t[i] = IF i < n THEN s[i] ELSE s[i + 1]
  <2>0. t = a \o b
    BY <1>4
  <2> HIDE DEF t
  <2>1. i \in 1 .. Len(a) + Len(b)
    BY <1>1, <1>2, <1>3, <1>6
  <2>2. t[i] = IF i <= Len(a) THEN a[i] ELSE b[i - Len(a)]
    BY <1>5, <2>0, <2>1
  <2>3. CASE i < n
    BY <1>1, <1>2, <2>1, <2>2, <2>3
  <2>4. CASE ~(i < n)
    <3>1. i - (n - 1) \in 1 .. Len(s) - n /\ n + (i - (n - 1)) = i + 1
      <4>1. i \in Int /\ n \in Int /\ Len(s) \in Int /\ n <= i /\ i <= (n - 1) + (Len(s) - n)
        BY <1>1, <1>2, <1>3, <2>1, <2>4
      <4> QED BY ONLY <4>1
    <3>2. b[i - (n - 1)] = s[i + 1]
      BY <1>3, <3>1
    <3> QED BY <1>1, <1>2, <2>1, <2>2, <2>4, <3>2
  <2> QED BY <2>3, <2>4
<1> HIDE DEF t
<1> QED BY <1>6, <1>7 DEF t

\* The two ways a position survives.
LEMMA SeqOthers ==
    ASSUME NEW S, NEW s \in Seq(S), NEW n \in DOMAIN s
    PROVE  /\ \A i \in DOMAIN RemoveAt(s, n) : \E j \in DOMAIN s : RemoveAt(s, n)[i] = s[j]
           /\ \A j \in DOMAIN s : j # n => \E i \in DOMAIN RemoveAt(s, n) : RemoveAt(s, n)[i] = s[j]
<1> DEFINE t == RemoveAt(s, n)
<1>1. /\ t \in Seq(S) /\ Len(t) = Len(s) - 1
      /\ \A i \in 1 .. Len(t) : t[i] = IF i < n THEN s[i] ELSE s[i + 1]
  BY SeqRemoved
<1> HIDE DEF t
<1>2. DOMAIN t = 1 .. Len(s) - 1 /\ DOMAIN s = 1 .. Len(s) /\ Len(s) \in Nat
  BY <1>1
<1>3. \A i \in DOMAIN t : \E j \in DOMAIN s : t[i] = s[j]
  <2> SUFFICES ASSUME NEW i \in DOMAIN t PROVE \E j \in DOMAIN s : t[i] = s[j]
    OBVIOUS
  <2>1. CASE i < n
    BY <1>1, <1>2, <2>1
  <2>2. CASE ~(i < n)
    <3>1. i + 1 \in DOMAIN s /\ t[i] = s[i + 1]
      BY <1>1, <1>2, <2>2
    <3> QED BY <3>1
  <2> QED BY <2>1, <2>2
<1>4. \A j \in DOMAIN s : j # n => \E i \in DOMAIN t : t[i] = s[j]
  <2> SUFFICES ASSUME NEW j \in DOMAIN s, j # n PROVE \E i \in DOMAIN t : t[i] = s[j]
    OBVIOUS
  <2>1. CASE j < n
    <3>1. j \in DOMAIN t /\ t[j] = s[j]
      BY <1>1, <1>2, <2>1
    <3> QED BY <3>1
  <2>2. CASE ~(j < n)
    <3>1. j - 1 \in DOMAIN t /\ t[j - 1] = s[(j - 1) + 1] /\ (j - 1) + 1 = j
      BY <1>1, <1>2, <2>2
    <3> QED BY <3>1
  <2> QED BY <2>1, <2>2
<1> QED BY <1>3, <1>4 DEF t

LEMMA SeqTail ==
    ASSUME NEW S, NEW s \in Seq(S), s # <<>>
    PROVE  /\ Tail(s) \in Seq(S) /\ Len(Tail(s)) = Len(s) - 1 /\ Len(s) \in Nat \ {0}
           /\ \A i \in 1 .. Len(s) - 1 : Tail(s)[i] = s[i + 1]
           /\ Head(s) = s[1] /\ s[1] \in S
<1>1. Len(s) \in Nat /\ Len(s) # 0
  BY EmptySeq
<1>2. 1 \in DOMAIN s
  BY <1>1
<1> QED BY <1>1, <1>2, HeadTailProperties

LEMMA SeqAppend ==
    ASSUME NEW S, NEW s \in Seq(S), NEW e \in S
    PROVE  /\ Append(s, e) \in Seq(S) /\ Len(Append(s, e)) = Len(s) + 1 /\ Len(s) \in Nat
           /\ \A i \in 1 .. Len(s) : Append(s, e)[i] = s[i]
           /\ Append(s, e)[Len(s) + 1] = e
  BY AppendProperties

LEMMA SeqConcat ==
    ASSUME NEW S, NEW s \in Seq(S), NEW t \in Seq(S)
    PROVE  /\ s \o t \in Seq(S) /\ Len(s \o t) = Len(s) + Len(t)
           /\ Len(s) \in Nat /\ Len(t) \in Nat
           /\ \A i \in 1 .. Len(s) + Len(t) :
                 (s \o t)[i] = IF i <= Len(s) THEN s[i] ELSE t[i - Len(s)]
  BY ConcatProperties

-----------------------------------------------------------------------------
(***************************************************************************)
(* Replayed, without the fold: the base is the last event, a proposal      *)
(* stays if no event was as new.  The fold's recursive function is that    *)
(* closed form, because the closed form satisfies its definition, and      *)
(* nothing else does: of two that did, look at the shortest prefix where   *)
(* they differ.                                                            *)
(***************************************************************************)
LEMMA LeastOf ==
    ASSUME NEW S, IsFiniteSet(S), NEW B, B \subseteq SUBSET S, B # {}
    PROVE  \E T \in B : \A U \in B : U \subseteq T => U = T
<1>1. IsWellFoundedOn(StrictSubsetOrdering(S), FiniteSubsetsOf(S))
  BY FS_StrictSubsetOrderingWellFounded
<1>2. B \subseteq FiniteSubsetsOf(S)
  BY FS_Subset DEF FiniteSubsetsOf
<1>3. \E T \in B : \A U \in B : ~ (<<U, T>> \in StrictSubsetOrdering(S))
  BY <1>1, <1>2, WFMin
<1> PICK T \in B : \A U \in B : ~ (<<U, T>> \in StrictSubsetOrdering(S))
  BY <1>3
<1> QED BY DEF StrictSubsetOrdering

LEMMA MaxIn ==
    ASSUME NEW S, IsFiniteSet(S), S \subseteq Int, S # {}
    PROVE  Max(S) \in S /\ \A y \in S : y <= Max(S)
<1> DEFINE B == {T \in SUBSET S : T # {} /\ \A x \in T, y \in S : x <= y => y \in T}
<1>1. S \in B
  OBVIOUS
<1>2. PICK T \in B : \A U \in B : U \subseteq T => U = T
  <2>1. B \subseteq SUBSET S
    OBVIOUS
  <2>2. B # {}
    BY <1>1
  <2>3. IsFiniteSet(S)
    OBVIOUS
  <2> HIDE DEF B
  <2> QED BY ONLY <2>1, <2>2, <2>3, LeastOf
<1>3. PICK x \in T : TRUE
  BY <1>2
<1>4. \A y \in S : y <= x
  <2> SUFFICES ASSUME NEW y \in S, y > x PROVE FALSE
    BY <1>2, <1>3
  <2> DEFINE U == {z \in S : z >= y}
  <2>1. x \in S /\ x \in Int /\ y \in Int
    BY <1>2, <1>3
  <2>2. \A a \in T, z \in S : a <= z => z \in T
    BY <1>2
  <2>3. U \subseteq T
    <3> SUFFICES ASSUME NEW z \in U PROVE z \in T
      OBVIOUS
    <3>1. z \in S /\ z \in Int
      OBVIOUS
    <3> QED BY <1>3, <2>1, <2>2, <3>1
  <2>4. U # {} /\ x \notin U
    BY <2>1
  <2>5. \A a \in U, z \in S : a <= z => z \in U
    BY <2>1
  <2>6. U \in B
    BY <2>4, <2>5
  <2> QED BY <1>2, <1>3, <2>3, <2>4, <2>6
<1>5. \E z \in S : \A y \in S : z >= y
  BY <1>2, <1>3, <1>4
<1> QED BY <1>5 DEF Max

LEMMA LocalFields ==
    ASSUME NEW a \in Locals
    PROVE  /\ a.base \in Values /\ a.proposal \in Values \cup {None}
           /\ a = [base |-> a.base, proposal |-> a.proposal]
           /\ \A v \in Values : [a EXCEPT !.base = v] = [base |-> v, proposal |-> a.proposal]
  BY DEF Locals

\* g is what iter of MapThenFoldSet is for FoldLeft(Upserted, a, events).
Iterates(g, a, events) ==
    g = [s \in SUBSET DOMAIN events |->
            IF s = {} THEN a ELSE Upserted(g[s \ {Max(s)}], events[Max(s)])]

LEMMA ReplayedIsChosen ==
    ASSUME NEW a, NEW events
    PROVE  Replayed(a, events) = (CHOOSE g : Iterates(g, a, events))[DOMAIN events]
  BY DEF Replayed, FoldLeft, MapThenFoldSet, Iterates

\* a after the events at the positions s.
After(a, events, s) ==
    IF s = {} THEN a
    ELSE [base |-> events[Max(s)],
          proposal |-> IF a.proposal = None \/ \E n \in s : a.proposal.at <= events[n].at
                       THEN None ELSE a.proposal]

LEMMA AfterOneMore ==
    ASSUME NEW a \in Locals, NEW events \in Seq(Values),
           NEW s \in SUBSET DOMAIN events, s # {}
    PROVE  After(a, events, s) = Upserted(After(a, events, s \ {Max(s)}), events[Max(s)])
<1> DEFINE m == Max(s)
           r == s \ {m}
           v == events[m]
<1>1. IsFiniteSet(s) /\ s \subseteq Int
  <2>1. DOMAIN events = 1 .. Len(events) /\ Len(events) \in Nat
    OBVIOUS
  <2>2. IsFiniteSet(1 .. Len(events))
    BY <2>1, FS_Interval
  <2> QED BY <2>1, <2>2, FS_Subset
<1>2. m \in s
  BY <1>1, MaxIn
<1>3. v \in Values /\ \A n \in s : events[n] \in Values
  BY <1>2
<1> HIDE DEF m
<1>4. After(a, events, s) = [base |-> v, proposal |-> IF a.proposal = None \/ \E n \in s : a.proposal.at <= events[n].at
                                                     THEN None ELSE a.proposal]
  BY DEF After, m
<1> DEFINE b == After(a, events, r)
<1>5. /\ b.proposal = IF a.proposal = None \/ \E n \in r : a.proposal.at <= events[n].at
                      THEN None ELSE a.proposal
  <2>1. CASE r = {}
    BY <2>1 DEF After
  <2>2. CASE r # {}
    BY <2>2 DEF After
  <2> QED BY <2>1, <2>2
<1>6. b = [base |-> b.base, proposal |-> b.proposal]
  <2>1. CASE r = {}
    <3>1. b = a
      BY <2>1 DEF After
    <3> HIDE DEF b
    <3> QED BY <3>1, LocalFields
  <2>2. CASE r # {}
    BY <2>2 DEF After
  <2> QED BY <2>1, <2>2
<1>7. (\E n \in s : a.proposal.at <= events[n].at) <=>
        (\E n \in r : a.proposal.at <= events[n].at) \/ a.proposal.at <= v.at
  BY <1>2
<1> HIDE DEF b, r, v
<1>8. Upserted(b, v) = IF b.proposal = None \/ b.proposal.at <= v.at
                       THEN [base |-> v, proposal |-> None]
                       ELSE [base |-> v, proposal |-> b.proposal]
  <2>1. [b EXCEPT !.base = v] = [base |-> v, proposal |-> b.proposal]
    BY <1>6
  <2> QED BY <2>1 DEF Upserted, Reconciled, Base
<1>9. After(a, events, s) = Upserted(b, v)
  BY <1>4, <1>5, <1>7, <1>8
<1> QED BY <1>9 DEF b, r, v, m

LEMMA ReplayedIsAfter ==
    ASSUME NEW a \in Locals, NEW events \in Seq(Values)
    PROVE  Replayed(a, events) = After(a, events, DOMAIN events)
<1> DEFINE D == DOMAIN events
           k == [s \in SUBSET D |-> After(a, events, s)]
<1>1. D = 1 .. Len(events) /\ Len(events) \in Nat
  OBVIOUS
<1>2. IsFiniteSet(D)
  BY <1>1, FS_Interval
<1>3. \A s \in SUBSET D : s # {} => Max(s) \in s
  <2> SUFFICES ASSUME NEW s \in SUBSET D, s # {} PROVE Max(s) \in s
    OBVIOUS
  <2>1. IsFiniteSet(s) /\ s \subseteq Int
    BY <1>1, <1>2, FS_Subset
  <2> QED BY <2>1, MaxIn
<1>4. Iterates(k, a, events)
  <2>1. ASSUME NEW s \in SUBSET D
        PROVE  After(a, events, s) = IF s = {} THEN a ELSE Upserted(k[s \ {Max(s)}], events[Max(s)])
    <3>1. CASE s = {}
      BY <3>1 DEF After
    <3>2. CASE s # {}
      <4>1. k[s \ {Max(s)}] = After(a, events, s \ {Max(s)})
        OBVIOUS
      <4>2. After(a, events, s) = Upserted(After(a, events, s \ {Max(s)}), events[Max(s)])
        BY <3>2, AfterOneMore
      <4> HIDE DEF k
      <4> QED BY <3>2, <4>1, <4>2
    <3> QED BY <3>1, <3>2
  <2>2. k = [s \in SUBSET D |-> IF s = {} THEN a ELSE Upserted(k[s \ {Max(s)}], events[Max(s)])]
    BY <2>1
  <2> HIDE DEF k
  <2> QED BY <2>2 DEF Iterates
<1> HIDE DEF k
<1>5. ASSUME NEW g, Iterates(g, a, events) PROVE g[D] = k[D]
  <2> DEFINE Bad == {s \in SUBSET D : g[s] # k[s]}
  <2>1. SUFFICES ASSUME Bad # {} PROVE FALSE
    OBVIOUS
  <2>2. PICK s \in Bad : \A u \in Bad : u \subseteq s => u = s
    <3> Bad \subseteq SUBSET D
      OBVIOUS
    <3> HIDE DEF Bad
    <3> QED BY <1>2, <2>1, LeastOf
  <2>3. s # {}
    BY <1>4, <1>5 DEF Iterates
  <2>4. g[s \ {Max(s)}] = k[s \ {Max(s)}]
    BY <1>3, <2>2, <2>3
  <2> QED BY <1>4, <1>5, <2>2, <2>3, <2>4 DEF Iterates
<1>6. PICK g : g = (CHOOSE h : Iterates(h, a, events)) /\ Iterates(g, a, events)
  BY <1>4
<1>7. Replayed(a, events) = g[D]
  BY <1>6, ReplayedIsChosen
<1> QED BY <1>5, <1>6, <1>7 DEF k

\* What a replay leaves of a record.
LEMMA ReplayedGives ==
    ASSUME NEW a \in Locals, NEW events \in Seq(Values)
    PROVE  LET r == Replayed(a, events)
           IN /\ r \in Locals
              /\ r.base = IF events = <<>> THEN a.base ELSE events[Len(events)]
              /\ \/ r.proposal = a.proposal
                 \/ /\ r.proposal = None
                    /\ \E n \in DOMAIN events : a.proposal.at <= events[n].at
<1> DEFINE D == DOMAIN events
           r == Replayed(a, events)
<1>1. D = 1 .. Len(events) /\ Len(events) \in Nat
  OBVIOUS
<1>2. r = After(a, events, D)
  BY ReplayedIsAfter
<1> HIDE DEF r
<1>3. CASE events = <<>>
  <2>1. D = {}
    BY <1>3
  <2>2. r = a
    BY <1>2, <2>1 DEF After
  <2> QED BY <1>3, <2>2 DEF r
<1>4. CASE events # <<>>
  <2>1. Len(events) # 0
    BY <1>4, EmptySeq
  <2>2. D # {} /\ Len(events) \in D /\ IsFiniteSet(D) /\ D \subseteq Int
    <3>1. IsFiniteSet(1 .. Len(events))
      BY <1>1, FS_Interval
    <3>2. IsFiniteSet(D)
      BY ONLY <1>1, <3>1
    <3>3. Len(events) \in 1 .. Len(events) /\ 1 .. Len(events) \subseteq Int
      BY <1>1, <2>1
    <3> HIDE DEF D
    <3> QED BY <1>1, <3>2, <3>3
  <2>3. Max(D) = Len(events)
    <3>1. Max(D) \in D /\ \A y \in D : y <= Max(D)
      BY <2>2, MaxIn
    <3> HIDE DEF D
    <3> QED BY <1>1, <2>2, <3>1
  <2>4. r = [base |-> events[Len(events)],
             proposal |-> IF a.proposal = None \/ \E n \in D : a.proposal.at <= events[n].at
                          THEN None ELSE a.proposal]
    BY <1>2, <2>2, <2>3 DEF After
  <2>5. events[Len(events)] \in Values
    BY <2>2
  <2> QED BY <1>4, <2>4, <2>5 DEF r, Locals
<1> QED BY <1>3, <1>4

-----------------------------------------------------------------------------
(***************************************************************************)
(* What the operators of the model give.                                   *)
(***************************************************************************)
\* p has been beaten by what the server has had.
Beaten(p) == p.at <= top.at \/ (kind = "read" /\ p.seq <= top.seq)

LEMMA ValueFields ==
    ASSUME NEW v \in Values PROVE v.at \in Nat /\ v.seq \in Nat
  BY DEF Values

LEMMA ReconciledGives ==
    ASSUME NEW a \in Locals, NEW v \in Values
    PROVE  /\ Reconciled(a, v) \in Locals
           /\ Reconciled(a, v).base = v
           /\ Reconciled(a, v).proposal =
                IF a.proposal = None \/ a.proposal.at <= v.at THEN None ELSE a.proposal
<1>1. CASE a.proposal = None \/ a.proposal.at <= v.at
  <2>1. Reconciled(a, v) = [base |-> v, proposal |-> None]
    BY <1>1 DEF Reconciled, Base
  <2> QED BY <1>1, <2>1 DEF Locals
<1>2. CASE ~(a.proposal = None \/ a.proposal.at <= v.at)
  <2>1. Reconciled(a, v) = [base |-> v, proposal |-> a.proposal]
    BY <1>2, LocalFields DEF Reconciled
  <2> QED BY <1>2, <2>1, LocalFields DEF Locals
<1> QED BY <1>1, <1>2

LEMMA AcknowledgedGives ==
    ASSUME NEW a \in Locals, NEW v \in Values, NEW merge \in Merges
    PROVE  /\ Acknowledged(a, v, merge) \in Locals
           /\ Acknowledged(a, v, merge).base = v
           /\ Acknowledged(a, v, merge).proposal =
                IF a.proposal = None \/ Settles(merge, v, a.proposal) THEN None ELSE a.proposal
<1>0. a.proposal # None => a.proposal.at \in Nat /\ a.proposal.seq \in Nat
  BY LocalFields, ValueFields
<1>1. v.at \in Nat /\ v.seq \in Nat
  BY ValueFields
<1>2. CASE kind = "read"
  <2>1. CASE a.proposal = None \/ Settles(merge, v, a.proposal)
    <3>1. Acknowledged(a, v, merge) = [base |-> v, proposal |-> None]
      BY <1>0, <1>1, <1>2, <2>1 DEF Acknowledged, ReconciledRead, Base, Settles
    <3> QED BY <2>1, <3>1 DEF Locals
  <2>2. CASE ~(a.proposal = None \/ Settles(merge, v, a.proposal))
    <3>1. Acknowledged(a, v, merge) = [a EXCEPT !.base = v]
      BY <1>0, <1>1, <1>2, <2>2 DEF Acknowledged, ReconciledRead, Base, Settles
    <3>2. Acknowledged(a, v, merge) = [base |-> v, proposal |-> a.proposal]
      BY <3>1, LocalFields
    <3> QED BY <2>2, <3>2, LocalFields DEF Locals
  <2> QED BY <2>1, <2>2
<1>3. CASE kind # "read"
  <2>1. a.proposal # None => (Settles(merge, v, a.proposal) <=> a.proposal.at <= v.at)
    BY <1>0, <1>1, <1>3 DEF Settles
  <2>2. Acknowledged(a, v, merge) = Reconciled(a, v)
    BY <1>3 DEF Acknowledged
  <2> QED BY <2>1, <2>2, ReconciledGives
<1> QED BY <1>2, <1>3

LEMMA ResolvedType == ASSUME NEW a \in Locals, Resolved(a) = a.proposal PROVE a.proposal \in Values
<1>1. a.base \in Values /\ a.proposal \in Values \cup {None}
  BY LocalFields
<1> QED BY <1>1 DEF Resolved

\* A record that has been reconciled has no proposal, or one that shows.
LEMMA ResolvedReconciled ==
    ASSUME NEW a \in Locals, NEW v \in Values, Resolved(Reconciled(a, v)) # Reconciled(a, v).proposal
    PROVE  Reconciled(a, v).proposal = None
<1> DEFINE r == Reconciled(a, v)
<1>1. r.base = v /\ r.proposal = IF a.proposal = None \/ a.proposal.at <= v.at THEN None ELSE a.proposal
  BY ReconciledGives
<1>2. a.proposal # None => a.proposal.at \in Nat
  BY LocalFields, ValueFields
<1>3. v.at \in Nat
  BY ValueFields
<1>4. Resolved(r) # r.proposal
  OBVIOUS
<1> HIDE DEF r
<1>5. r.proposal = None
  BY <1>1, <1>2, <1>3, <1>4 DEF Resolved
<1> QED BY <1>5 DEF r

LEMMA Asks_ ==
    ASSUME NEW op \in AskOps, NEW v \in Values, NEW merge \in Merges
    PROVE  /\ Asking(op, v, merge) \in Asks
           /\ Answer(op, v, merge) \in Frames
           /\ Event(v) \in Frames
  BY DEF Asking, Asks, Answer, Event, Frames

LEMMA UndecidedType == Undecided \in Values
  BY DEF Undecided, Values

\* The fields of what a queue holds.
LEMMA QueueFields ==
    ASSUME IntentTypes, NEW d \in Devices
    PROVE  /\ asked[d] \in Seq(Asks) /\ down[d] \in Seq(Frames) /\ parked[d] \in Seq(Values)
           /\ local[d] \in Locals /\ phase[d] \in Stages /\ last[d] \in Values \cup {None}
           /\ \A n \in DOMAIN asked[d] : asked[d][n] \in Asks
           /\ \A n \in DOMAIN done : done[n] \in Ends
           /\ \A n \in DOMAIN down[d] : down[d][n] \in Frames
           /\ \A n \in DOMAIN parked[d] : parked[d][n] \in Values
  BY DEF IntentTypes

LEMMA FrameFields ==
    ASSUME NEW m \in Frames
    PROVE  /\ m.v \in Values
           /\ m.kind \in {"event", "answer"}
           /\ m.kind = "answer" => m.op \in AskOps /\ m.merge \in Merges
  BY DEF Frames

LEMMA EndFields ==
    ASSUME NEW j \in Ends
    PROVE  /\ j.to \in Devices /\ j.live \in BOOLEAN /\ j.op \in AskOps /\ j.merge \in Merges
           /\ j.v \in Values /\ j.told \in BOOLEAN
  BY DEF Ends

LEMMA AskFields ==
    ASSUME NEW r \in Asks
    PROVE  /\ r.live \in BOOLEAN /\ r.op \in AskOps /\ r.merge \in Merges /\ r.v \in Values
           /\ [r EXCEPT !.live = FALSE] \in Asks
           /\ [r EXCEPT !.live = FALSE].live = FALSE
  BY DEF Asks

\* A frame that arrives is the first of its queue.
LEMMA ArrivesFirst ==
    ASSUME IntentTypes, NEW d \in Devices, Arrives(d)
    PROVE  /\ down[d] # <<>> /\ Len(down[d]) \in Nat \ {0} /\ 1 \in DOMAIN down[d]
           /\ Head(down[d]) = down[d][1] /\ down[d][1] \in Frames
           /\ down' \in [Devices -> Seq(Frames)]
           /\ \A e \in Devices : e # d => down'[e] = down[e]
           /\ Len(down'[d]) = Len(down[d]) - 1
           /\ \A i \in 1 .. Len(down[d]) - 1 : down'[d][i] = down[d][i + 1]
<1>1. down[d] # <<>> /\ down' = [down EXCEPT ![d] = Tail(@)]
  BY DEF Arrives
<1>2. down \in [Devices -> Seq(Frames)] /\ down[d] \in Seq(Frames)
  BY DEF IntentTypes
<1>3. /\ Tail(down[d]) \in Seq(Frames) /\ Len(Tail(down[d])) = Len(down[d]) - 1 /\ Len(down[d]) \in Nat \ {0}
      /\ \A i \in 1 .. Len(down[d]) - 1 : Tail(down[d])[i] = down[d][i + 1]
      /\ Head(down[d]) = down[d][1] /\ down[d][1] \in Frames
  BY <1>1, <1>2, SeqTail
<1>4. down'[d] = Tail(down[d])
  BY <1>1, <1>2
<1> QED BY <1>1, <1>2, <1>3, <1>4

-----------------------------------------------------------------------------
(***************************************************************************)
(* What the actions do, with the types of what they leave.                 *)
(***************************************************************************)
LEMMA SeqExtra ==
    ASSUME NEW s \in Seq(Frames), NEW a \in Seq(Frames), NEW b \in Seq(Frames)
    PROVE  /\ s \o a \o b \in Seq(Frames)
           /\ Len(s) \in Nat
           /\ Len(s \o a \o b) = Len(s) + Len(a) + Len(b)
           /\ \A i \in 1 .. Len(s) : (s \o a \o b)[i] = s[i]
           /\ Len(a) = 1 => (s \o a \o b)[Len(s) + 1] = a[1]
           /\ Len(b) = 1 => (s \o a \o b)[Len(s) + Len(a) + 1] = b[1]
<1>1. /\ Len(s) \in Nat /\ Len(a) \in Nat /\ Len(b) \in Nat
      /\ s \o a \in Seq(Frames) /\ Len(s \o a) = Len(s) + Len(a)
      /\ \A i \in 1 .. Len(s) + Len(a) : (s \o a)[i] = IF i <= Len(s) THEN s[i] ELSE a[i - Len(s)]
  BY SeqConcat
<1> DEFINE u == s \o a
           t == u \o b
<1>2. /\ t \in Seq(Frames) /\ Len(t) = Len(u) + Len(b)
      /\ \A i \in 1 .. Len(u) + Len(b) : t[i] = IF i <= Len(u) THEN u[i] ELSE b[i - Len(u)]
  BY <1>1, SeqConcat
<1> HIDE DEF u, t
<1>3. /\ Len(u) = Len(s) + Len(a)
      /\ \A i \in 1 .. Len(s) + Len(a) : u[i] = IF i <= Len(s) THEN s[i] ELSE a[i - Len(s)]
  BY <1>1 DEF u
<1>4. \A i \in 1 .. Len(s) : t[i] = s[i]
  BY <1>1, <1>2, <1>3
<1>5. Len(a) = 1 => t[Len(s) + 1] = a[1]
  BY <1>1, <1>2, <1>3
<1>6. Len(b) = 1 => t[Len(s) + Len(a) + 1] = b[1]
  BY <1>1, <1>2, <1>3
<1> QED BY <1>1, <1>2, <1>3, <1>4, <1>5, <1>6 DEF t, u

\* A job's end says what the row is; the row is at least what was asked for.
LEMMA ServeGives ==
    ASSUME IntentTypes, NEW d \in Devices, NEW n \in DOMAIN asked[d], Serve(d, n)
    PROVE  /\ row' \in Values /\ top' \in [at : Nat, seq : Nat]
           /\ top'.at >= top.at /\ top'.seq >= top.seq /\ row'.at <= top'.at /\ row'.seq <= top'.seq
           /\ asked' \in [Devices -> Seq(Asks)]
           /\ asked'[d] = RemoveAt(asked[d], n) /\ \A e \in Devices : e # d => asked'[e] = asked[e]
           /\ \E j \in Ends : /\ done' = Append(done, j)
                              /\ j.to = d /\ j.live = asked[d][n].live /\ j.op = asked[d][n].op
                              /\ j.merge = asked[d][n].merge
                              /\ j.v = row' /\ (~j.told => row' = row)
                              /\ j.op # "list" => Settles(j.merge, row', asked[d][n].v)
           /\ UNCHANGED <<kind, device, online, down, counters>>
<1> DEFINE r == asked[d][n]
           taken == r.op # "list" /\ Taken(r.v, r.merge)
           now == IF taken THEN r.v ELSE row
           j == [to |-> d, live |-> r.live, op |-> r.op, merge |-> r.merge, v |-> now,
                 told |-> r.op # "list" /\ (taken \/ kind = "flag")]
<1>1. asked[d] \in Seq(Asks) /\ r \in Asks /\ row \in Values /\ top \in [at : Nat, seq : Nat]
  BY DEF IntentTypes
<1>2. r.v \in Values /\ r.live \in BOOLEAN /\ r.op \in AskOps /\ r.merge \in Merges
  BY <1>1, AskFields
<1>3. /\ row' = now /\ done' = Append(done, j)
      /\ top' = [at |-> Larger(top.at, now.at), seq |-> Larger(top.seq, now.seq)]
      /\ asked' = [asked EXCEPT ![d] = RemoveAt(@, n)]
      /\ UNCHANGED <<kind, device, online, down, counters>>
  BY DEF Serve
<1>4. now \in Values /\ now.at \in Nat /\ now.seq \in Nat
  BY <1>1, <1>2, ValueFields
<1>5. j \in Ends
  <2>1. (r.op # "list" /\ (taken \/ kind = "flag")) \in BOOLEAN
    OBVIOUS
  <2> HIDE DEF now, taken, r
  <2> QED BY <1>2, <1>4, <2>1 DEF Ends
<1>6. r.op # "list" => Settles(r.merge, now, r.v)
  <2>1. row.at \in Nat /\ row.seq \in Nat /\ r.v.at \in Nat /\ r.v.seq \in Nat
    BY <1>1, <1>2, ValueFields
  <2> HIDE DEF r
  <2> QED BY <2>1 DEF Settles, Taken, Further
<1>7. RemoveAt(asked[d], n) \in Seq(Asks)
  BY <1>1, SeqRemoved
<1>8. asked \in [Devices -> Seq(Asks)]
  BY DEF IntentTypes
<1>9. /\ top' \in [at : Nat, seq : Nat] /\ top'.at >= top.at /\ top'.seq >= top.seq
      /\ now.at <= top'.at /\ now.seq <= top'.seq
  <2>0. top.at \in Nat /\ top.seq \in Nat
    BY <1>1
  <2> HIDE DEF now
  <2> QED BY <1>3, <1>4, <2>0 DEF Larger
<1>10. ~j.told => now = row
  OBVIOUS
<1>11. j.to = d /\ j.live = r.live /\ j.op = r.op /\ j.merge = r.merge /\ j.v = now
  OBVIOUS
<1> HIDE DEF j, now, taken
<1>12. \E i \in Ends : /\ done' = Append(done, i)
                       /\ i.to = d /\ i.live = r.live /\ i.op = r.op /\ i.merge = r.merge
                       /\ i.v = row' /\ (~i.told => row' = row)
                       /\ i.op # "list" => Settles(i.merge, row', r.v)
  BY <1>3, <1>5, <1>6, <1>10, <1>11
<1> QED BY <1>3, <1>4, <1>7, <1>8, <1>9, <1>12

\* The end j makes of the frames s for d the frames t: its event, then its answer.
Delivers(j, d, s, t) ==
    /\ Len(s) \in Nat
    /\ Len(t) = Len(s) + (IF j.told /\ d \in online THEN 1 ELSE 0)
                       + (IF j.live /\ j.to = d THEN 1 ELSE 0)
    /\ \A i \in 1 .. Len(s) : t[i] = s[i]
    /\ j.told /\ d \in online => t[Len(s) + 1] = Event(j.v)
    /\ j.live /\ j.to = d => t[Len(t)] = Answer(j.op, j.v, j.merge)

\* A frame of an end was there before, is its event, or is its answer, which comes last.
LEMMA DeliveredIs ==
    ASSUME NEW j \in Ends, NEW d \in Devices, NEW s \in Seq(Frames), NEW t \in Seq(Frames),
           Delivers(j, d, s, t), NEW i \in DOMAIN t
    PROVE  \/ i \in DOMAIN s /\ t[i] = s[i]
           \/ j.told /\ d \in online /\ i = Len(s) + 1 /\ t[i] = Event(j.v)
           \/ /\ j.live /\ j.to = d /\ t[i] = Answer(j.op, j.v, j.merge)
              /\ IF j.told /\ d \in online THEN i = Len(s) + 2 ELSE i = Len(s) + 1
<1> DEFINE p == j.told /\ d \in online
           q == j.live /\ j.to = d
<1>1. /\ Len(s) \in Nat
      /\ Len(t) = Len(s) + (IF p THEN 1 ELSE 0) + (IF q THEN 1 ELSE 0)
      /\ \A k \in 1 .. Len(s) : t[k] = s[k]
      /\ p => t[Len(s) + 1] = Event(j.v)
      /\ q => t[Len(t)] = Answer(j.op, j.v, j.merge)
  BY DEF Delivers
<1>2. i \in 1 .. Len(t) /\ DOMAIN s = 1 .. Len(s) /\ Len(t) \in Nat /\ Len(s) \in Nat
  OBVIOUS
<1> HIDE DEF p, q
<1>4. CASE i <= Len(s)
  <2>1. i \in 1 .. Len(s)
    BY <1>1, <1>2, <1>4
  <2> QED BY <1>1, <1>2, <2>1
<1>5. CASE ~(i <= Len(s))
  <2>0. i \in Int /\ i <= Len(t) /\ i >= Len(s) + 1
    BY <1>2, <1>5
  <2>1. CASE p /\ q
    <3>1. Len(t) = Len(s) + 2
      BY <1>1, <2>1
    <3>2. i = Len(s) + 1 \/ i = Len(t)
      BY <1>2, <2>0, <3>1
    <3> QED BY <1>1, <2>1, <3>1, <3>2 DEF p, q
  <2>2. CASE p /\ ~q
    <3>1. Len(t) = Len(s) + 1
      BY <1>1, <2>2
    <3>2. i = Len(s) + 1
      BY <1>2, <2>0, <3>1
    <3> QED BY <1>1, <2>2, <3>2 DEF p
  <2>3. CASE ~p /\ q
    <3>1. Len(t) = Len(s) + 1
      BY <1>1, <2>3
    <3>2. i = Len(s) + 1 /\ i = Len(t)
      BY <1>2, <2>0, <3>1
    <3> QED BY <1>1, <2>3, <3>2 DEF p, q
  <2>4. CASE ~p /\ ~q
    <3>1. Len(t) = Len(s)
      BY <1>1, <2>4
    <3> QED BY <1>2, <2>0, <3>1
  <2> QED BY <2>1, <2>2, <2>3, <2>4
<1> QED BY <1>4, <1>5

LEMMA DeliveredAre ==
    ASSUME NEW j \in Ends, NEW d \in Devices, NEW s \in Seq(Frames), NEW t \in Seq(Frames),
           Delivers(j, d, s, t), NEW i \in DOMAIN t
    PROVE  (i \in DOMAIN s /\ t[i] = s[i]) \/ t[i].v = j.v
<1>1. Event(j.v).v = j.v /\ Answer(j.op, j.v, j.merge).v = j.v
  BY DEF Event, Answer
<1> QED BY <1>1, DeliveredIs

LEMMA DeliveredAnswers ==
    ASSUME NEW j \in Ends, NEW d \in Devices, NEW s \in Seq(Frames), NEW t \in Seq(Frames),
           Delivers(j, d, s, t), NEW i \in DOMAIN t, t[i].kind = "answer"
    PROVE  \/ i \in DOMAIN s /\ t[i] = s[i]
           \/ /\ j.to = d /\ j.live
              /\ t[i].op = j.op /\ t[i].merge = j.merge /\ t[i].v = j.v
<1>1. Event(j.v).kind = "event"
  BY DEF Event
<1>2. /\ Answer(j.op, j.v, j.merge).op = j.op /\ Answer(j.op, j.v, j.merge).merge = j.merge
      /\ Answer(j.op, j.v, j.merge).v = j.v
  BY DEF Answer
<1> QED BY <1>1, <1>2, DeliveredIs

LEMMA PublishGives ==
    ASSUME IntentTypes, NEW n \in DOMAIN done, Publish(n)
    PROVE  /\ done[n] \in Ends /\ done' = RemoveAt(done, n) /\ done' \in Seq(Ends)
           /\ n = 1 \/ "overtaking" \in Admits
           /\ down' \in [Devices -> Seq(Frames)]
           /\ \A d \in Devices : Delivers(done[n], d, down[d], down'[d])
           /\ UNCHANGED <<kind, row, asked, device, online, top, counters>>
<1> DEFINE j == done[n]
           a(d) == IF j.told /\ d \in online THEN <<Event(j.v)>> ELSE <<>>
           b(d) == IF j.live /\ j.to = d THEN <<Answer(j.op, j.v, j.merge)>> ELSE <<>>
<1>1. done \in Seq(Ends) /\ j \in Ends /\ down \in [Devices -> Seq(Frames)]
  BY DEF IntentTypes
<1>2. /\ down' = [d \in Devices |-> down[d] \o a(d) \o b(d)] /\ done' = RemoveAt(done, n)
      /\ (n = 1 \/ "overtaking" \in Admits)
      /\ UNCHANGED <<kind, row, asked, device, online, top, counters>>
  BY DEF Publish
<1>3. Event(j.v) \in Frames /\ Answer(j.op, j.v, j.merge) \in Frames
  BY <1>1, EndFields, Asks_
<1>4. RemoveAt(done, n) \in Seq(Ends)
  BY <1>1, SeqRemoved
<1> HIDE DEF j
<1>5. ASSUME NEW d \in Devices
      PROVE  down'[d] \in Seq(Frames) /\ Delivers(j, d, down[d], down'[d])
  <2> DEFINE A == a(d)
             B == b(d)
  <2>1. A \in Seq(Frames) /\ Len(A) = (IF j.told /\ d \in online THEN 1 ELSE 0)
        /\ (j.told /\ d \in online => A[1] = Event(j.v))
    BY <1>3
  <2>2. B \in Seq(Frames) /\ Len(B) = (IF j.live /\ j.to = d THEN 1 ELSE 0)
        /\ (j.live /\ j.to = d => B[1] = Answer(j.op, j.v, j.merge))
    BY <1>3
  <2>3. down'[d] = down[d] \o A \o B /\ down[d] \in Seq(Frames)
    BY <1>1, <1>2
  <2> HIDE DEF A, B
  <2> DEFINE t == down[d] \o A \o B
  <2>4. /\ t \in Seq(Frames)
        /\ Len(down[d]) \in Nat
        /\ Len(t) = Len(down[d]) + Len(A) + Len(B)
        /\ \A i \in 1 .. Len(down[d]) : t[i] = down[d][i]
        /\ Len(A) = 1 => t[Len(down[d]) + 1] = A[1]
        /\ Len(B) = 1 => t[Len(down[d]) + Len(A) + 1] = B[1]
    BY <2>1, <2>2, <2>3, SeqExtra
  <2>5. down'[d] = t
    BY <2>3
  <2> HIDE DEF t
  <2>6. j.live /\ j.to = d => Len(B) = 1 /\ Len(t) = Len(down[d]) + Len(A) + 1
    BY <2>2, <2>4
  <2> QED BY <2>1, <2>2, <2>4, <2>5, <2>6 DEF Delivers
<1>6. down' \in [Devices -> Seq(Frames)]
  BY <1>2, <1>5
<1> HIDE DEF a, b
<1> QED BY <1>1, <1>2, <1>4, <1>5, <1>6 DEF j

LEMMA DisconnectGives ==
    ASSUME IntentTypes, NEW d \in Devices, Disconnect(d)
    PROVE  /\ asked' \in [Devices -> Seq(Asks)]
           /\ \A n \in DOMAIN asked'[d] : ~asked'[d][n].live
           /\ \A e \in Devices : e # d => asked'[e] = asked[e]
           /\ done' \in Seq(Ends) /\ Len(done') = Len(done)
           /\ \A n \in DOMAIN done : /\ done'[n].to = done[n].to /\ done'[n].op = done[n].op
                                     /\ done'[n].merge = done[n].merge /\ done'[n].v = done[n].v
                                     /\ done'[n].told = done[n].told
                                     /\ done'[n].live <=> done[n].live /\ done[n].to # d
           /\ Replayed(local[d], parked[d]) \in Locals
           /\ local' \in [Devices -> Locals] /\ local'[d] = Replayed(local[d], parked[d])
           /\ parked' \in [Devices -> Seq(Values)] /\ parked'[d] = <<>>
           /\ down' \in [Devices -> Seq(Frames)] /\ down'[d] = <<>>
           /\ phase' \in [Devices -> Stages] /\ phase'[d] = "idle"
           /\ \A e \in Devices : e # d => /\ local'[e] = local[e] /\ parked'[e] = parked[e]
                                          /\ down'[e] = down[e] /\ phase'[e] = phase[e]
           /\ online' = online \ {d}
           /\ UNCHANGED <<kind, row, last, top>>
<1>1. PICK reach \in 0 .. Len(asked[d]) :
         asked' = [asked EXCEPT ![d] = [n \in 1 .. reach |-> [asked[d][n] EXCEPT !.live = FALSE]]]
  BY DEF Disconnect
<1>2. asked \in [Devices -> Seq(Asks)] /\ asked[d] \in Seq(Asks) /\ reach \in Nat
      /\ \A n \in 1 .. reach : asked[d][n] \in Asks
  <2>1. asked \in [Devices -> Seq(Asks)] /\ asked[d] \in Seq(Asks)
    BY DEF IntentTypes
  <2>2. Len(asked[d]) \in Nat /\ \A n \in 1 .. Len(asked[d]) : asked[d][n] \in Asks
    BY <2>1
  <2>3. reach \in Nat /\ \A n \in 1 .. reach : n \in 1 .. Len(asked[d])
    BY <2>2
  <2> QED BY <2>1, <2>2, <2>3
<1> DEFINE a == [n \in 1 .. reach |-> [asked[d][n] EXCEPT !.live = FALSE]]
<1>3. a \in Seq(Asks) /\ \A n \in DOMAIN a : ~a[n].live
  <2>1. \A n \in 1 .. reach : a[n] \in Asks /\ a[n].live = FALSE
    BY <1>2, AskFields
  <2>2. a \in [1 .. reach -> Asks] /\ DOMAIN a = 1 .. reach
    BY <2>1
  <2> HIDE DEF a
  <2>3. a \in Seq(Asks)
    BY <1>2, <2>2
  <2> QED BY <2>1, <2>2, <2>3
<1>4. asked' = [asked EXCEPT ![d] = a]
  BY <1>1
<1> HIDE DEF a
<1>5. /\ asked' \in [Devices -> Seq(Asks)]
      /\ \A n \in DOMAIN asked'[d] : ~asked'[d][n].live
      /\ \A e \in Devices : e # d => asked'[e] = asked[e]
  BY <1>2, <1>3, <1>4
<1> DEFINE f == [n \in DOMAIN done |-> IF done[n].to = d THEN [done[n] EXCEPT !.live = FALSE] ELSE done[n]]
<1>6. done \in Seq(Ends) /\ DOMAIN done = 1 .. Len(done) /\ Len(done) \in Nat
      /\ \A n \in DOMAIN done : done[n] \in Ends
  BY DEF IntentTypes
<1>7. \A n \in DOMAIN done : /\ f[n] \in Ends
                             /\ f[n].to = done[n].to /\ f[n].op = done[n].op
                             /\ f[n].merge = done[n].merge /\ f[n].v = done[n].v
                             /\ f[n].told = done[n].told
                             /\ f[n].live <=> done[n].live /\ done[n].to # d
  BY <1>6 DEF Ends
<1>8. f \in Seq(Ends) /\ Len(f) = Len(done)
  <2>1. f \in [1 .. Len(done) -> Ends]
    BY <1>6, <1>7
  <2> HIDE DEF f
  <2> QED BY <1>6, <2>1
<1>9. done' = f
  BY DEF Disconnect
<1> HIDE DEF f
<1>10. local \in [Devices -> Locals] /\ local[d] \in Locals
       /\ parked \in [Devices -> Seq(Values)] /\ parked[d] \in Seq(Values)
       /\ down \in [Devices -> Seq(Frames)] /\ phase \in [Devices -> Stages]
  BY DEF IntentTypes
<1>11. Replayed(local[d], parked[d]) \in Locals
  BY <1>10, ReplayedGives
<1>12. /\ local' = [local EXCEPT ![d] = Replayed(local[d], parked[d])]
       /\ parked' = [parked EXCEPT ![d] = <<>>] /\ down' = [down EXCEPT ![d] = <<>>]
       /\ phase' = [phase EXCEPT ![d] = "idle"]
       /\ online' = online \ {d}
       /\ UNCHANGED <<kind, row, last, top>>
  BY DEF Disconnect
<1>13. <<>> \in Seq(Values) /\ <<>> \in Seq(Frames) /\ "idle" \in Stages
  BY DEF Stages
<1>14. /\ local' \in [Devices -> Locals] /\ local'[d] = Replayed(local[d], parked[d])
       /\ parked' \in [Devices -> Seq(Values)] /\ parked'[d] = <<>>
       /\ down' \in [Devices -> Seq(Frames)] /\ down'[d] = <<>>
       /\ phase' \in [Devices -> Stages] /\ phase'[d] = "idle"
       /\ \A e \in Devices : e # d => /\ local'[e] = local[e] /\ parked'[e] = parked[e]
                                      /\ down'[e] = down[e] /\ phase'[e] = phase[e]
  BY <1>10, <1>11, <1>12, <1>13
<1> QED BY <1>5, <1>7, <1>8, <1>9, <1>11, <1>12, <1>14

\* Only d's own part of the state changes.
Elsewhere(d) == \A e \in Devices : e # d =>
    /\ local'[e] = local[e] /\ parked'[e] = parked[e] /\ phase'[e] = phase[e]
    /\ asked'[e] = asked[e] /\ down'[e] = down[e] /\ last'[e] = last[e]

\* A device applies the frame m and the server knows nothing of it.
OnDevice(d) ==
    /\ asked' \in [Devices -> Seq(Asks)] /\ local' \in [Devices -> Locals]
    /\ parked' \in [Devices -> Seq(Values)] /\ phase' \in [Devices -> Stages]
    /\ Elsewhere(d)
    /\ UNCHANGED <<kind, row, done, top>>

LEMMA WriteGives ==
    ASSUME IntentTypes, NEW d \in Devices, NEW at \in 1 .. MaxStamp, NEW seq \in 0 .. MaxSeq,
           Write(d, at, seq)
    PROVE  /\ OnDevice(d)
           /\ \E v \in Values : /\ local'[d] = [base |-> local[d].base, proposal |-> v]
                                /\ last' \in [Devices -> Values \cup {None}] /\ last'[d] = v
                                /\ asked'[d] = IF d \in online
                                               THEN Append(asked[d], Asking("write", v, "override"))
                                               ELSE asked[d]
           /\ UNCHANGED <<online, down, phase, parked>>
<1> DEFINE v == [by |-> d, at |-> at, seq |-> seq]
<1>1. at \in Nat /\ seq \in Nat
  BY IntentsAssumption
<1>2. v \in Values
  BY <1>1 DEF Values
<1>3. /\ local' = [local EXCEPT ![d] = Proposed(@, v)]
      /\ last' = [last EXCEPT ![d] = v]
      /\ asked' = IF d \in online
                  THEN [asked EXCEPT ![d] = Append(@, Asking("write", v, "override"))]
                  ELSE asked
      /\ UNCHANGED <<kind, row, done, online, down, phase, parked, top>>
  BY DEF Write
<1>4. /\ local \in [Devices -> Locals] /\ asked \in [Devices -> Seq(Asks)] /\ asked[d] \in Seq(Asks)
      /\ last \in [Devices -> Values \cup {None}] /\ parked \in [Devices -> Seq(Values)]
      /\ phase \in [Devices -> Stages] /\ local[d] \in Locals
  BY DEF IntentTypes
<1> HIDE DEF v
<1>5. Proposed(local[d], v) = [base |-> local[d].base, proposal |-> v] /\ Proposed(local[d], v) \in Locals
  BY <1>2, <1>4, LocalFields DEF Proposed, Locals
<1>6. Asking("write", v, "override") \in Asks
  BY <1>2, Asks_ DEF AskOps, Merges
<1>7. Append(asked[d], Asking("write", v, "override")) \in Seq(Asks)
  BY <1>4, <1>6, SeqAppend
<1> QED BY <1>2, <1>3, <1>4, <1>5, <1>7 DEF OnDevice, Elsewhere

LEMMA ConnectGives ==
    ASSUME IntentTypes, NEW d \in Devices, Connect(d)
    PROVE  /\ OnDevice(d)
           /\ d \notin online /\ online' = online \cup {d}
           /\ phase'[d] = "refreshing-access"
           /\ asked'[d] = Append(asked[d], Asking("list", Undecided, "override"))
           /\ Asking("list", Undecided, "override") \in Asks
           /\ UNCHANGED <<local, parked, last, down>>
<1>1. /\ local \in [Devices -> Locals] /\ asked \in [Devices -> Seq(Asks)] /\ asked[d] \in Seq(Asks)
      /\ parked \in [Devices -> Seq(Values)] /\ phase \in [Devices -> Stages]
  BY DEF IntentTypes
<1>2. Asking("list", Undecided, "override") \in Asks
  BY UndecidedType, Asks_ DEF AskOps, Merges
<1>3. Append(asked[d], Asking("list", Undecided, "override")) \in Seq(Asks)
  BY <1>1, <1>2, SeqAppend
<1>4. "refreshing-access" \in Stages
  BY DEF Stages
<1> QED BY <1>1, <1>2, <1>3, <1>4 DEF Connect, OnDevice, Elsewhere

LEMMA ReceiveEventGives ==
    ASSUME IntentTypes, NEW d \in Devices, ReceiveEvent(d)
    PROVE  /\ OnDevice(d) /\ Arrives(d) /\ down[d][1] \in Frames /\ down[d][1].kind = "event"
           /\ \/ /\ phase[d] = "idle" /\ local'[d] = Reconciled(local[d], down[d][1].v)
                 /\ parked'[d] = parked[d]
              \/ /\ phase[d] # "idle" /\ parked'[d] = Append(parked[d], down[d][1].v)
                 /\ local'[d] = local[d]
           /\ UNCHANGED <<asked, online, phase, last>>
<1>1. /\ local \in [Devices -> Locals] /\ asked \in [Devices -> Seq(Asks)] /\ local[d] \in Locals
      /\ parked \in [Devices -> Seq(Values)] /\ phase \in [Devices -> Stages] /\ parked[d] \in Seq(Values)
  BY DEF IntentTypes
<1>2. Arrives(d)
  BY DEF ReceiveEvent
<1>3. Head(down[d]) = down[d][1] /\ down[d][1] \in Frames
  BY <1>2, ArrivesFirst
<1> DEFINE v == down[d][1].v
<1>4. v \in Values
  BY <1>3, FrameFields
<1>5. Reconciled(local[d], v) \in Locals /\ Append(parked[d], v) \in Seq(Values)
  BY <1>1, <1>4, ReconciledGives, SeqAppend
<1>6. /\ down[d][1].kind = "event"
      /\ \/ /\ phase[d] = "idle" /\ local' = [local EXCEPT ![d] = Reconciled(@, v)] /\ parked' = parked
         \/ /\ phase[d] # "idle" /\ parked' = [parked EXCEPT ![d] = Append(@, v)] /\ local' = local
      /\ UNCHANGED <<kind, row, asked, done, online, phase, last, top>>
  BY <1>3 DEF ReceiveEvent, Upserted
<1>7. \A e \in Devices : e # d => down'[e] = down[e]
  BY <1>2, ArrivesFirst
<1> HIDE DEF v
<1>8. local' \in [Devices -> Locals] /\ parked' \in [Devices -> Seq(Values)]
  BY <1>1, <1>5, <1>6
<1>9. \A e \in Devices : e # d => local'[e] = local[e] /\ parked'[e] = parked[e]
  BY <1>1, <1>6
<1>10. OnDevice(d)
  BY <1>1, <1>6, <1>7, <1>8, <1>9 DEF OnDevice, Elsewhere
<1>11. \/ /\ phase[d] = "idle" /\ local'[d] = Reconciled(local[d], v)
          /\ parked'[d] = parked[d]
       \/ /\ phase[d] # "idle" /\ parked'[d] = Append(parked[d], v)
          /\ local'[d] = local[d]
  BY <1>1, <1>6
<1> QED BY <1>2, <1>3, <1>6, <1>10, <1>11 DEF v

LEMMA ReceiveWrittenGives ==
    ASSUME IntentTypes, NEW d \in Devices, ReceiveWritten(d)
    PROVE  /\ OnDevice(d) /\ Arrives(d) /\ down[d][1] \in Frames
           /\ down[d][1].kind = "answer" /\ down[d][1].op = "write"
           /\ local'[d] = Acknowledged(local[d], down[d][1].v, down[d][1].merge)
           /\ UNCHANGED <<asked, online, phase, parked, last>>
<1>1. /\ local \in [Devices -> Locals] /\ asked \in [Devices -> Seq(Asks)] /\ local[d] \in Locals
      /\ parked \in [Devices -> Seq(Values)] /\ phase \in [Devices -> Stages]
  BY DEF IntentTypes
<1>2. Arrives(d)
  BY DEF ReceiveWritten
<1>3. Head(down[d]) = down[d][1] /\ down[d][1] \in Frames
  BY <1>2, ArrivesFirst
<1>4. /\ down[d][1].kind = "answer" /\ down[d][1].op = "write"
      /\ local' = [local EXCEPT ![d] = Acknowledged(@, down[d][1].v, down[d][1].merge)]
      /\ UNCHANGED <<kind, row, asked, done, online, phase, parked, last, top>>
  BY <1>3 DEF ReceiveWritten
<1>5. Acknowledged(local[d], down[d][1].v, down[d][1].merge) \in Locals
  BY <1>1, <1>3, <1>4, FrameFields, AcknowledgedGives
<1>6. \A e \in Devices : e # d => down'[e] = down[e]
  BY <1>2, ArrivesFirst
<1> QED BY <1>1, <1>2, <1>3, <1>4, <1>5, <1>6 DEF OnDevice, Elsewhere

LEMMA ReceiveListGives ==
    ASSUME IntentTypes, NEW d \in Devices, ReceiveList(d)
    PROVE  /\ OnDevice(d) /\ Arrives(d) /\ down[d][1] \in Frames
           /\ down[d][1].kind = "answer" /\ down[d][1].op = "list"
           /\ LET a == Reconciled(local[d], down[d][1].v)
                  r == Asking("flush", a.proposal, "furthest")
              IN \/ /\ a.proposal \in Values /\ r \in Asks
                    /\ local'[d] = a /\ phase'[d] = "flushing-proposals"
                    /\ asked'[d] = Append(asked[d], r) /\ parked' = parked
                 \/ /\ a.proposal = None
                    /\ local'[d] = Replayed(a, parked[d]) /\ phase'[d] = "idle"
                    /\ parked'[d] = <<>> /\ asked' = asked
           /\ UNCHANGED <<online, last>>
<1>1. /\ local \in [Devices -> Locals] /\ asked \in [Devices -> Seq(Asks)] /\ local[d] \in Locals
      /\ parked \in [Devices -> Seq(Values)] /\ phase \in [Devices -> Stages]
      /\ asked[d] \in Seq(Asks) /\ parked[d] \in Seq(Values)
  BY DEF IntentTypes
<1>2. Arrives(d)
  BY DEF ReceiveList
<1>3. /\ Head(down[d]) = down[d][1] /\ down[d][1] \in Frames
      /\ \A e \in Devices : e # d => down'[e] = down[e]
  BY <1>2, ArrivesFirst
<1> DEFINE v == down[d][1].v
           a == Reconciled(local[d], v)
           r == Asking("flush", a.proposal, "furthest")
           k == Replayed(a, parked[d])
<1>4. v \in Values
  BY <1>3, FrameFields
<1>5. a \in Locals
  BY <1>1, <1>4, ReconciledGives
<1>6. k \in Locals
  BY <1>1, <1>5, ReplayedGives
<1>7. /\ down[d][1].kind = "answer" /\ down[d][1].op = "list"
      /\ \/ /\ Resolved(a) = a.proposal
            /\ local' = [local EXCEPT ![d] = a]
            /\ phase' = [phase EXCEPT ![d] = "flushing-proposals"]
            /\ asked' = [asked EXCEPT ![d] = Append(@, r)]
            /\ parked' = parked
         \/ /\ Resolved(a) # a.proposal
            /\ local' = [local EXCEPT ![d] = k]
            /\ parked' = [parked EXCEPT ![d] = <<>>]
            /\ phase' = [phase EXCEPT ![d] = "idle"]
            /\ asked' = asked
      /\ UNCHANGED <<kind, row, done, online, last, top>>
  BY <1>3 DEF ReceiveList, Upserted, Replays
<1>8. "idle" \in Stages /\ "flushing-proposals" \in Stages /\ <<>> \in Seq(Values)
  BY DEF Stages
<1>9. CASE Resolved(a) = a.proposal
  <2>1. a.proposal \in Values
    BY <1>5, <1>9, ResolvedType
  <2>2. r \in Asks
    BY <2>1, Asks_ DEF AskOps, Merges
  <2> HIDE DEF a, r, k, v
  <2>3. Append(asked[d], r) \in Seq(Asks)
    BY <1>1, <2>2, SeqAppend
  <2>4. OnDevice(d)
    <3>1. /\ local' = [local EXCEPT ![d] = a]
          /\ phase' = [phase EXCEPT ![d] = "flushing-proposals"]
          /\ asked' = [asked EXCEPT ![d] = Append(asked[d], r)]
          /\ UNCHANGED <<kind, row, done, parked, last, top>>
      BY <1>7, <1>9
    <3> QED BY <1>1, <1>3, <1>5, <1>8, <2>3, <3>1 DEF OnDevice, Elsewhere
  <2>5. local'[d] = a /\ phase'[d] = "flushing-proposals" /\ asked'[d] = Append(asked[d], r) /\ parked' = parked
    BY <1>1, <1>7, <1>9
  <2> QED BY <1>2, <1>3, <1>7, <2>1, <2>2, <2>4, <2>5 DEF a, v, r
<1>10. CASE Resolved(a) # a.proposal
  <2>1. a.proposal = None
    BY <1>1, <1>4, <1>10, ResolvedReconciled
  <2> HIDE DEF a, r, k, v
  <2>2. OnDevice(d)
    <3>1. /\ local' = [local EXCEPT ![d] = k]
          /\ phase' = [phase EXCEPT ![d] = "idle"]
          /\ parked' = [parked EXCEPT ![d] = <<>>]
          /\ UNCHANGED <<kind, row, done, asked, last, top>>
      BY <1>7, <1>10
    <3> QED BY <1>1, <1>3, <1>6, <1>8, <3>1 DEF OnDevice, Elsewhere
  <2>3. local'[d] = k /\ phase'[d] = "idle" /\ parked'[d] = <<>> /\ asked' = asked
    BY <1>1, <1>7, <1>10
  <2> QED BY <1>2, <1>3, <1>7, <2>1, <2>2, <2>3 DEF a, v, k
<1> QED BY <1>9, <1>10

LEMMA ReceiveFlushedGives ==
    ASSUME IntentTypes, NEW d \in Devices, ReceiveFlushed(d)
    PROVE  /\ OnDevice(d) /\ Arrives(d) /\ down[d][1] \in Frames
           /\ down[d][1].kind = "answer" /\ down[d][1].op = "flush"
           /\ LET a == Acknowledged(local[d], down[d][1].v, down[d][1].merge)
              IN a \in Locals /\ local'[d] = Replayed(a, parked[d])
           /\ phase'[d] = "idle" /\ parked'[d] = <<>>
           /\ UNCHANGED <<asked, online, last>>
<1>1. /\ local \in [Devices -> Locals] /\ asked \in [Devices -> Seq(Asks)] /\ local[d] \in Locals
      /\ parked \in [Devices -> Seq(Values)] /\ phase \in [Devices -> Stages] /\ parked[d] \in Seq(Values)
  BY DEF IntentTypes
<1>2. Arrives(d)
  BY DEF ReceiveFlushed
<1>3. /\ Head(down[d]) = down[d][1] /\ down[d][1] \in Frames
      /\ \A e \in Devices : e # d => down'[e] = down[e]
  BY <1>2, ArrivesFirst
<1> DEFINE a == Acknowledged(local[d], down[d][1].v, down[d][1].merge)
           k == Replayed(a, parked[d])
<1>4. /\ down[d][1].kind = "answer" /\ down[d][1].op = "flush"
      /\ local' = [local EXCEPT ![d] = k]
      /\ parked' = [parked EXCEPT ![d] = <<>>]
      /\ phase' = [phase EXCEPT ![d] = "idle"]
      /\ UNCHANGED <<kind, row, asked, done, online, last, top>>
  BY <1>3 DEF ReceiveFlushed, Replays
<1>5. a \in Locals
  BY <1>1, <1>3, <1>4, FrameFields, AcknowledgedGives
<1>6. k \in Locals
  BY <1>1, <1>5, ReplayedGives
<1>7. "idle" \in Stages /\ <<>> \in Seq(Values)
  BY DEF Stages
<1> HIDE DEF k
<1>8. local'[d] = k /\ phase'[d] = "idle" /\ parked'[d] = <<>>
  BY <1>1, <1>4
<1>9. OnDevice(d)
  BY <1>1, <1>3, <1>4, <1>6, <1>7 DEF OnDevice, Elsewhere
<1> HIDE DEF a
<1> QED BY <1>2, <1>3, <1>4, <1>5, <1>8, <1>9 DEF k, a

LEMMA IntentTypesKept ==
    ASSUME IntentTypes, [IntentNext]_intentVars PROVE IntentTypes'
<1>1. CASE UNCHANGED intentVars
  BY <1>1 DEF IntentTypes, intentVars, device, counters
<1>2. ASSUME NEW d \in Devices, NEW at \in 1 .. MaxStamp, NEW seq \in 0 .. MaxSeq, Write(d, at, seq)
      PROVE  IntentTypes'
  <2>1. last' \in [Devices -> Values \cup {None}] /\ OnDevice(d) /\ UNCHANGED <<online, down, phase, parked>>
    BY <1>2, WriteGives
  <2> QED BY <2>1 DEF OnDevice, IntentTypes
<1>3. ASSUME NEW d \in Devices, Disconnect(d) PROVE IntentTypes'
  <2>1. /\ asked' \in [Devices -> Seq(Asks)] /\ done' \in Seq(Ends) /\ local' \in [Devices -> Locals]
        /\ parked' \in [Devices -> Seq(Values)] /\ down' \in [Devices -> Seq(Frames)]
        /\ phase' \in [Devices -> Stages] /\ online' = online \ {d}
        /\ UNCHANGED <<kind, row, last, top>>
    BY <1>3, DisconnectGives
  <2> QED BY <2>1 DEF IntentTypes
<1>4. ASSUME NEW d \in Devices, Connect(d) PROVE IntentTypes'
  <2>1. OnDevice(d) /\ online' = online \cup {d} /\ UNCHANGED <<last, down>>
    BY <1>4, ConnectGives
  <2> QED BY <2>1 DEF OnDevice, IntentTypes
<1>5. ASSUME NEW d \in Devices, Receive(d) PROVE IntentTypes'
  <2>1. OnDevice(d) /\ Arrives(d) /\ UNCHANGED <<online, last>>
    BY <1>5, ReceiveEventGives, ReceiveWrittenGives, ReceiveListGives, ReceiveFlushedGives DEF Receive
  <2>2. down' \in [Devices -> Seq(Frames)]
    BY <2>1, ArrivesFirst
  <2> QED BY <2>1, <2>2 DEF OnDevice, IntentTypes
<1>6. ASSUME NEW d \in Devices, NEW n \in DOMAIN asked[d], Serve(d, n) PROVE IntentTypes'
  <2>1. /\ row' \in Values /\ top' \in [at : Nat, seq : Nat] /\ asked' \in [Devices -> Seq(Asks)]
        /\ \E j \in Ends : done' = Append(done, j)
        /\ UNCHANGED <<kind, local, phase, parked, last, online, down>>
    BY <1>6, ServeGives DEF device
  <2>2. done \in Seq(Ends)
    BY DEF IntentTypes
  <2>3. done' \in Seq(Ends)
    BY <2>1, <2>2, SeqAppend
  <2> QED BY <2>1, <2>3 DEF IntentTypes
<1>7. ASSUME NEW n \in DOMAIN done, Publish(n) PROVE IntentTypes'
  <2>1. /\ done' \in Seq(Ends) /\ down' \in [Devices -> Seq(Frames)]
        /\ UNCHANGED <<kind, row, asked, local, phase, parked, last, online, top>>
    BY <1>7, PublishGives DEF device
  <2> QED BY <2>1 DEF IntentTypes
<1> QED BY <1>1, <1>2, <1>3, <1>4, <1>5, <1>6, <1>7 DEF IntentNext

LEMMA IntentTypesInit == IntentInit => IntentTypes
<1> SUFFICES ASSUME IntentInit PROVE IntentTypes
  OBVIOUS
<1>1. Undecided \in Values
  BY UndecidedType
<1>2. [base |-> Undecided, proposal |-> None] \in Locals
  BY <1>1 DEF Locals
<1>3. <<>> \in Seq(Asks) /\ <<>> \in Seq(Ends) /\ <<>> \in Seq(Frames) /\ <<>> \in Seq(Values)
  OBVIOUS
<1> HIDE DEF Undecided
<1> QED BY <1>1, <1>2, <1>3 DEF IntentInit, IntentTypes, Stages

-----------------------------------------------------------------------------
(***************************************************************************)
(* NoIntentLost.  A device gives a decision up only for a value that is as *)
(* new or as far, and every such value has been the server's row: what is  *)
(* under way has been witnessed by the history top.                        *)
(***************************************************************************)
LEMMA ReachedLater ==
    ASSUME top \in [at : Nat, seq : Nat], top' \in [at : Nat, seq : Nat],
           top'.at >= top.at, top'.seq >= top.seq, NEW v \in Values, Reached(v)
    PROVE  v.at <= top'.at /\ v.seq <= top'.seq
<1>1. v.at \in Nat /\ v.seq \in Nat
  BY ValueFields
<1>2. top.at \in Nat /\ top.seq \in Nat /\ top'.at \in Nat /\ top'.seq \in Nat
  OBVIOUS
<1> QED BY <1>1, <1>2 DEF Reached

\* Giving a proposal up for a value that the server has had.
LEMMA GivenUp ==
    ASSUME IntentTypes, NEW p \in Values, NEW v \in Values, Reached(v), NEW merge \in Merges,
           p.at <= v.at \/ Settles(merge, v, p)
    PROVE  Beaten(p)
<1>1. p.at \in Nat /\ p.seq \in Nat /\ v.at \in Nat /\ v.seq \in Nat
  BY ValueFields
<1>2. top.at \in Nat /\ top.seq \in Nat
  BY DEF IntentTypes
<1> QED BY <1>1, <1>2 DEF Reached, Settles, Beaten

LEMMA NoIntentLostKept ==
    ASSUME IntentTypes, IntentTypes', NoIntentLost, kind' = kind,
           top'.at >= top.at, top'.seq >= top.seq,
           \A d \in Devices : /\ last'[d] = last[d]
                              /\ local'[d].proposal = local[d].proposal \/ Beaten(local[d].proposal)
    PROVE  NoIntentLost'
<1> SUFFICES ASSUME NEW d \in Devices, last[d] # None
             PROVE  \/ local'[d].proposal = last[d] \/ top'.at >= last[d].at
                    \/ (kind = "read" /\ top'.seq >= last[d].seq)
  BY DEF NoIntentLost
<1>1. last[d] \in Values
  BY DEF IntentTypes
<1>2. last[d].at \in Nat /\ last[d].seq \in Nat
  BY <1>1, ValueFields
<1>3. top.at \in Nat /\ top.seq \in Nat /\ top'.at \in Nat /\ top'.seq \in Nat
  BY DEF IntentTypes
<1>4. local[d].proposal = last[d] \/ top.at >= last[d].at \/ (kind = "read" /\ top.seq >= last[d].seq)
  BY DEF NoIntentLost
<1>5. local'[d].proposal = local[d].proposal \/ Beaten(local[d].proposal)
  OBVIOUS
<1>6. CASE local[d].proposal = last[d]
  <2>1. CASE local'[d].proposal = local[d].proposal
    BY <1>6, <2>1
  <2>2. CASE Beaten(local[d].proposal)
    BY <1>2, <1>3, <1>6, <2>2 DEF Beaten
  <2> QED BY <1>5, <2>1, <2>2
<1>7. CASE local[d].proposal # last[d]
  BY <1>2, <1>3, <1>4, <1>7
<1> QED BY <1>6, <1>7

\* What a replay of parked events gives up.
LEMMA ReplayGivesUp ==
    ASSUME IntentTypes, Witnessed, NEW d \in Devices, NEW a \in Locals
    PROVE  LET r == Replayed(a, parked[d])
           IN r.proposal = a.proposal \/ (r.proposal = None /\ Beaten(a.proposal))
<1> DEFINE r == Replayed(a, parked[d])
<1>1. parked[d] \in Seq(Values)
  BY DEF IntentTypes
<1>2. \/ r.proposal = a.proposal
      \/ /\ r.proposal = None
         /\ \E n \in DOMAIN parked[d] : a.proposal.at <= parked[d][n].at
  BY <1>1, ReplayedGives
<1> HIDE DEF r
<1>3. CASE r.proposal = a.proposal
  BY <1>3 DEF r
<1>4. CASE r.proposal # a.proposal
  <2>1. PICK n \in DOMAIN parked[d] : a.proposal.at <= parked[d][n].at
    BY <1>2, <1>4
  <2>2. parked[d][n] \in Values /\ Reached(parked[d][n])
    BY <1>1 DEF Witnessed
  <2>3. a.proposal \in Values
    <3>1. a.proposal \in Values \cup {None}
      BY LocalFields
    <3>2. a.proposal # None
      BY <1>2, <1>4
    <3> QED BY <3>1, <3>2
  <2>4. "override" \in Merges
    BY DEF Merges
  <2>5. Beaten(a.proposal)
    BY <2>1, <2>2, <2>3, <2>4, GivenUp
  <2> QED BY <1>2, <1>4, <2>5 DEF r
<1> QED BY <1>3, <1>4

\* What a device gives up when a frame arrives.
LEMMA ReceiveGivesUp ==
    ASSUME IntentTypes, Witnessed, NEW d \in Devices, Receive(d)
    PROVE  local'[d].proposal = local[d].proposal \/ Beaten(local[d].proposal)
<1> DEFINE p == local[d].proposal
           m == down[d][1]
<1>1. local[d] \in Locals /\ p \in Values \cup {None}
  BY LocalFields DEF IntentTypes
<1>2. Arrives(d)
  BY DEF Receive, ReceiveEvent, ReceiveWritten, ReceiveList, ReceiveFlushed
<1>3. m \in Frames /\ m.v \in Values /\ Reached(m.v)
  BY <1>2, ArrivesFirst, FrameFields DEF Witnessed
<1>4. ASSUME NEW merge \in Merges, p # None, p.at <= m.v.at \/ Settles(merge, m.v, p) PROVE Beaten(p)
  BY <1>1, <1>3, <1>4, GivenUp
<1>5. "override" \in Merges
  BY DEF Merges
<1> HIDE DEF m
<1>6. LET a == Reconciled(local[d], m.v)
      IN a \in Locals /\ (a.proposal = p \/ Beaten(p))
  <2>1. /\ Reconciled(local[d], m.v) \in Locals
        /\ Reconciled(local[d], m.v).proposal = IF p = None \/ p.at <= m.v.at THEN None ELSE p
    BY <1>1, <1>3, ReconciledGives
  <2> QED BY <1>4, <1>5, <2>1
<1>7. ASSUME m.kind = "answer"
      PROVE  LET a == Acknowledged(local[d], m.v, m.merge)
             IN a \in Locals /\ (a.proposal = p \/ Beaten(p))
  <2>0. m.merge \in Merges
    BY <1>3, <1>7, FrameFields
  <2>1. /\ Acknowledged(local[d], m.v, m.merge) \in Locals
        /\ Acknowledged(local[d], m.v, m.merge).proposal
             = IF p = None \/ Settles(m.merge, m.v, p) THEN None ELSE p
    BY <1>1, <1>3, <2>0, AcknowledgedGives
  <2> QED BY <1>4, <2>0, <2>1
<1>8. ASSUME NEW a \in Locals, a.proposal = p \/ Beaten(p)
      PROVE  Replayed(a, parked[d]).proposal = p \/ Beaten(p)
  <2>1. Replayed(a, parked[d]).proposal = a.proposal \/ Beaten(a.proposal)
    BY ReplayGivesUp
  <2>2. CASE a.proposal = p
    BY <2>1, <2>2
  <2> QED BY <1>8, <2>2
<1>9. CASE ReceiveEvent(d)
  <2>1. local'[d] = Reconciled(local[d], m.v) \/ local'[d] = local[d]
    BY <1>9, ReceiveEventGives DEF m
  <2> QED BY <1>6, <2>1
<1>10. CASE ReceiveWritten(d)
  <2>1. m.kind = "answer" /\ local'[d] = Acknowledged(local[d], m.v, m.merge)
    BY <1>10, ReceiveWrittenGives DEF m
  <2> QED BY <1>7, <2>1
<1>11. CASE ReceiveList(d)
  <2> DEFINE a == Reconciled(local[d], m.v)
  <2>1. local'[d] = a \/ local'[d] = Replayed(a, parked[d])
    BY <1>11, ReceiveListGives DEF m
  <2>2. a \in Locals /\ (a.proposal = p \/ Beaten(p))
    BY <1>6
  <2> HIDE DEF a, p
  <2> QED BY <1>8, <2>1, <2>2 DEF p
<1>12. CASE ReceiveFlushed(d)
  <2> DEFINE a == Acknowledged(local[d], m.v, m.merge)
  <2>1. m.kind = "answer" /\ local'[d] = Replayed(a, parked[d])
    BY <1>12, ReceiveFlushedGives DEF m
  <2>2. a \in Locals /\ (a.proposal = p \/ Beaten(p))
    BY <1>7, <2>1
  <2> HIDE DEF a, p
  <2> QED BY <1>8, <2>1, <2>2 DEF p
<1> QED BY <1>9, <1>10, <1>11, <1>12 DEF Receive

\* What a device holds was under way to it.
LEMMA WitnessedOnDevice ==
    ASSUME IntentTypes, Witnessed, NEW d \in Devices, UNCHANGED <<row, done, top>>,
           \A e \in Devices : e # d => down'[e] = down[e] /\ parked'[e] = parked[e],
           \A n \in DOMAIN down'[d] : \E i \in DOMAIN down[d] : down'[d][n] = down[d][i],
           \A n \in DOMAIN parked'[d] : \/ \E i \in DOMAIN parked[d] : parked'[d][n] = parked[d][i]
                                        \/ \E i \in DOMAIN down[d] : parked'[d][n] = down[d][i].v
    PROVE  Witnessed'
<1>1. Reached(row)'
  BY DEF Witnessed, Reached
<1>2. \A n \in DOMAIN done' : Reached(done[n].v)'
  BY DEF Witnessed, Reached
<1>3. ASSUME NEW e \in Devices, NEW n \in DOMAIN down'[e] PROVE Reached(down[e][n].v)'
  <2>1. PICK i \in DOMAIN down[e] : down'[e][n] = down[e][i]
    BY <1>3
  <2> QED BY <2>1 DEF Witnessed, Reached
<1>4. ASSUME NEW e \in Devices, NEW n \in DOMAIN parked'[e] PROVE Reached(parked[e][n])'
  <2>1. \/ \E i \in DOMAIN parked[e] : parked'[e][n] = parked[e][i]
        \/ \E i \in DOMAIN down[e] : parked'[e][n] = down[e][i].v
    BY <1>4
  <2> QED BY <2>1 DEF Witnessed, Reached
<1> QED BY <1>1, <1>2, <1>3, <1>4 DEF Witnessed

LEMMA WitnessedReceive ==
    ASSUME IntentTypes, Witnessed, NEW d \in Devices, Receive(d) PROVE Witnessed'
<1>1. Arrives(d) /\ OnDevice(d)
  BY ReceiveEventGives, ReceiveWrittenGives, ReceiveListGives, ReceiveFlushedGives DEF Receive
<1>2. UNCHANGED <<row, done, top>> /\ \A e \in Devices : e # d => down'[e] = down[e] /\ parked'[e] = parked[e]
  BY <1>1 DEF OnDevice, Elsewhere
<1>3. /\ 1 \in DOMAIN down[d] /\ down[d] \in Seq(Frames)
      /\ \A n \in DOMAIN down'[d] : \E i \in DOMAIN down[d] : down'[d][n] = down[d][i]
  <2>1. /\ down' \in [Devices -> Seq(Frames)] /\ Len(down'[d]) = Len(down[d]) - 1
        /\ \A i \in 1 .. Len(down[d]) - 1 : down'[d][i] = down[d][i + 1]
        /\ Len(down[d]) \in Nat \ {0} /\ 1 \in DOMAIN down[d]
    BY <1>1, ArrivesFirst
  <2>2. down[d] \in Seq(Frames) /\ down'[d] \in Seq(Frames)
    BY <2>1 DEF IntentTypes
  <2>3. ASSUME NEW n \in DOMAIN down'[d] PROVE \E i \in DOMAIN down[d] : down'[d][n] = down[d][i]
    <3>1. n \in 1 .. Len(down[d]) - 1 /\ n + 1 \in DOMAIN down[d]
      BY <2>1, <2>2
    <3> QED BY <2>1, <3>1
  <2> QED BY <2>1, <2>2, <2>3
<1>4. parked[d] \in Seq(Values) /\ down[d][1].v \in Values
  BY <1>3, FrameFields DEF IntentTypes
<1>5. parked'[d] = parked[d] \/ parked'[d] = Append(parked[d], down[d][1].v) \/ parked'[d] = <<>>
  BY ReceiveEventGives, ReceiveWrittenGives, ReceiveListGives, ReceiveFlushedGives DEF Receive
<1>6. ASSUME NEW n \in DOMAIN parked'[d]
      PROVE  \/ \E i \in DOMAIN parked[d] : parked'[d][n] = parked[d][i]
             \/ \E i \in DOMAIN down[d] : parked'[d][n] = down[d][i].v
  <2>1. CASE parked'[d] = parked[d]
    BY <2>1
  <2>2. CASE parked'[d] = <<>>
    BY <2>2
  <2>3. CASE parked'[d] = Append(parked[d], down[d][1].v)
    <3> DEFINE t == Append(parked[d], down[d][1].v)
    <3>1. /\ t \in Seq(Values) /\ Len(t) = Len(parked[d]) + 1 /\ Len(parked[d]) \in Nat
          /\ \A i \in 1 .. Len(parked[d]) : t[i] = parked[d][i]
          /\ t[Len(parked[d]) + 1] = down[d][1].v
      BY <1>4, SeqAppend
    <3>2. parked'[d] = t
      BY <2>3
    <3> HIDE DEF t
    <3>3. n \in 1 .. Len(parked[d]) \/ n = Len(parked[d]) + 1
      BY <3>1, <3>2
    <3> QED BY <1>3, <1>4, <3>1, <3>2, <3>3
  <2> QED BY <1>5, <2>1, <2>2, <2>3
<1> QED BY <1>2, <1>3, <1>6, WitnessedOnDevice

LEMMA WitnessedKept ==
    ASSUME IntentTypes, IntentTypes', Witnessed, [IntentNext]_intentVars PROVE Witnessed'
<1>1. CASE UNCHANGED intentVars
  BY <1>1 DEF Witnessed, Reached, intentVars, device, counters
<1>2. ASSUME NEW d \in Devices, NEW at \in 1 .. MaxStamp, NEW seq \in 0 .. MaxSeq, Write(d, at, seq)
      PROVE  Witnessed'
  <2>1. UNCHANGED <<row, done, down, parked, top>>
    BY <1>2 DEF Write
  <2> QED BY <2>1 DEF Witnessed, Reached
<1>3. ASSUME NEW d \in Devices, Disconnect(d) PROVE Witnessed'
  <2>1. /\ done' \in Seq(Ends) /\ Len(done') = Len(done)
        /\ \A n \in DOMAIN done : done'[n].v = done[n].v
        /\ parked'[d] = <<>> /\ down'[d] = <<>>
        /\ \A e \in Devices : e # d => parked'[e] = parked[e] /\ down'[e] = down[e]
        /\ UNCHANGED <<row, top>>
    BY <1>3, DisconnectGives
  <2>2. done \in Seq(Ends)
    BY DEF IntentTypes
  <2>3. \A n \in DOMAIN done' : Reached(done[n].v)'
    BY <2>1, <2>2 DEF Witnessed, Reached
  <2>4. ASSUME NEW e \in Devices
        PROVE  /\ \A n \in DOMAIN down'[e] : Reached(down[e][n].v)'
               /\ \A n \in DOMAIN parked'[e] : Reached(parked[e][n])'
    BY <2>1 DEF Witnessed, Reached
  <2>5. Reached(row)'
    BY <2>1 DEF Witnessed, Reached
  <2> QED BY <2>3, <2>4, <2>5 DEF Witnessed
<1>4. ASSUME NEW d \in Devices, Connect(d) PROVE Witnessed'
  <2>1. UNCHANGED <<row, done, down, parked, top>>
    BY <1>4 DEF Connect, counters
  <2> QED BY <2>1 DEF Witnessed, Reached
<1>5. ASSUME NEW d \in Devices, Receive(d) PROVE Witnessed'
  BY <1>5, WitnessedReceive
<1>6. ASSUME NEW d \in Devices, NEW n \in DOMAIN asked[d], Serve(d, n) PROVE Witnessed'
  <2>1. /\ row' \in Values /\ top' \in [at : Nat, seq : Nat]
        /\ top'.at >= top.at /\ top'.seq >= top.seq /\ row'.at <= top'.at /\ row'.seq <= top'.seq
        /\ \E j \in Ends : done' = Append(done, j) /\ j.v = row'
        /\ UNCHANGED <<parked, down>>
    BY <1>6, ServeGives DEF device
  <2>2. PICK j \in Ends : done' = Append(done, j) /\ j.v = row'
    BY <2>1
  <2>3. done \in Seq(Ends) /\ top \in [at : Nat, seq : Nat]
    BY DEF IntentTypes
  <2>4. \A v \in Values : Reached(v) => v.at <= top'.at /\ v.seq <= top'.seq
    BY <2>1, <2>3, ReachedLater
  <2>5. ASSUME NEW i \in DOMAIN done' PROVE Reached(done[i].v)'
    <3>1. /\ Append(done, j) \in Seq(Ends) /\ Len(Append(done, j)) = Len(done) + 1 /\ Len(done) \in Nat
          /\ \A k \in 1 .. Len(done) : Append(done, j)[k] = done[k]
          /\ Append(done, j)[Len(done) + 1] = j
      BY <2>3, SeqAppend
    <3>2. CASE i = Len(done) + 1
      BY <2>1, <2>2, <3>1, <3>2 DEF Reached
    <3>3. CASE i # Len(done) + 1
      <4>1. i \in 1 .. Len(done) /\ done'[i] = done[i]
        BY <2>2, <3>1, <3>3
      <4>2. done[i] \in Ends /\ Reached(done[i].v)
        BY <2>3, <4>1 DEF Witnessed
      <4>3. done[i].v \in Values
        BY <4>2, EndFields
      <4> QED BY <2>4, <4>1, <4>2, <4>3 DEF Reached
    <3> QED BY <3>2, <3>3
  <2>6. ASSUME NEW e \in Devices, NEW i \in DOMAIN down'[e] PROVE Reached(down[e][i].v)'
    <3>1. down[e][i] \in Frames /\ Reached(down[e][i].v) /\ down'[e][i] = down[e][i]
      BY <2>1 DEF IntentTypes, Witnessed
    <3>2. down[e][i].v \in Values
      BY <3>1, FrameFields
    <3> QED BY <2>4, <3>1, <3>2 DEF Reached
  <2>7. ASSUME NEW e \in Devices, NEW i \in DOMAIN parked'[e] PROVE Reached(parked[e][i])'
    <3>1. parked[e][i] \in Values /\ Reached(parked[e][i]) /\ parked'[e][i] = parked[e][i]
      BY <2>1 DEF IntentTypes, Witnessed
    <3> QED BY <2>4, <3>1 DEF Reached
  <2>8. Reached(row)'
    BY <2>1 DEF Reached
  <2> QED BY <2>5, <2>6, <2>7, <2>8 DEF Witnessed
<1>7. ASSUME NEW n \in DOMAIN done, Publish(n) PROVE Witnessed'
  <2>1. /\ done' = RemoveAt(done, n) /\ down' \in [Devices -> Seq(Frames)] /\ done[n] \in Ends
        /\ UNCHANGED <<row, parked, top>>
        /\ \A e \in Devices : Delivers(done[n], e, down[e], down'[e])
    BY <1>7, PublishGives DEF device
  <2>2. done \in Seq(Ends)
    BY DEF IntentTypes
  <2>3. ASSUME NEW i \in DOMAIN done' PROVE Reached(done[i].v)'
    <3>1. PICK k \in DOMAIN done : done'[i] = done[k]
      BY <2>1, <2>2, SeqOthers
    <3> QED BY <2>1, <3>1 DEF Witnessed, Reached
  <2>4. ASSUME NEW e \in Devices, NEW i \in DOMAIN down'[e] PROVE Reached(down[e][i].v)'
    <3>1. (i \in DOMAIN down[e] /\ down'[e][i] = down[e][i]) \/ down'[e][i].v = done[n].v
      <4>1. done[n] \in Ends /\ down[e] \in Seq(Frames) /\ down'[e] \in Seq(Frames)
        BY <2>1 DEF IntentTypes
      <4>2. Delivers(done[n], e, down[e], down'[e]) /\ i \in DOMAIN down'[e]
        BY <2>1, <2>4
      <4> QED BY ONLY <4>1, <4>2, DeliveredAre
    <3> QED BY <2>1, <3>1 DEF Witnessed, Reached
  <2>5. Reached(row)' /\ \A e \in Devices : \A i \in DOMAIN parked'[e] : Reached(parked[e][i])'
    BY <2>1 DEF Witnessed, Reached
  <2> QED BY <2>3, <2>4, <2>5 DEF Witnessed
<1> QED BY <1>1, <1>2, <1>3, <1>4, <1>5, <1>6, <1>7 DEF IntentNext

LEMMA NoIntentLostStep ==
    ASSUME IntentTypes, IntentTypes', Witnessed, NoIntentLost, [IntentNext]_intentVars
    PROVE  NoIntentLost'
<1>0. top.at \in Nat /\ top.seq \in Nat
  BY DEF IntentTypes
<1>1. CASE UNCHANGED intentVars
  BY <1>1 DEF NoIntentLost, intentVars, device, counters
<1>2. ASSUME NEW d \in Devices, NEW at \in 1 .. MaxStamp, NEW seq \in 0 .. MaxSeq, Write(d, at, seq)
      PROVE  NoIntentLost'
  <2>1. PICK v \in Values : /\ local'[d] = [base |-> local[d].base, proposal |-> v]
                            /\ last' \in [Devices -> Values \cup {None}] /\ last'[d] = v
    BY <1>2, WriteGives
  <2>2. UNCHANGED <<kind, top>> /\ \A e \in Devices : e # d => last'[e] = last[e] /\ local'[e] = local[e]
    BY <1>2, WriteGives DEF OnDevice, Elsewhere
  <2> QED BY <2>1, <2>2 DEF NoIntentLost
<1>3. ASSUME NEW d \in Devices, Disconnect(d) PROVE NoIntentLost'
  <2>1. /\ local'[d] = Replayed(local[d], parked[d])
        /\ \A e \in Devices : e # d => local'[e] = local[e]
        /\ UNCHANGED <<kind, last, top>>
    BY <1>3, DisconnectGives
  <2>2. local'[d].proposal = local[d].proposal \/ Beaten(local[d].proposal)
    <3>1. local[d] \in Locals
      BY DEF IntentTypes
    <3> QED BY <2>1, <3>1, ReplayGivesUp
  <2> QED BY <1>0, <2>1, <2>2, NoIntentLostKept
<1>4. ASSUME NEW d \in Devices, Connect(d) PROVE NoIntentLost'
  <2>1. UNCHANGED <<kind, local, last, top>>
    BY <1>4 DEF Connect
  <2> QED BY <2>1 DEF NoIntentLost
<1>5. ASSUME NEW d \in Devices, Receive(d) PROVE NoIntentLost'
  <2>1. local'[d].proposal = local[d].proposal \/ Beaten(local[d].proposal)
    BY <1>5, ReceiveGivesUp
  <2>2. UNCHANGED <<kind, top, last>> /\ \A e \in Devices : e # d => local'[e] = local[e]
    BY <1>5, ReceiveEventGives, ReceiveWrittenGives, ReceiveListGives, ReceiveFlushedGives
       DEF Receive, OnDevice, Elsewhere
  <2> QED BY <1>0, <2>1, <2>2, NoIntentLostKept
<1>6. ASSUME NEW d \in Devices, NEW n \in DOMAIN asked[d], Serve(d, n) PROVE NoIntentLost'
  <2>1. top'.at >= top.at /\ top'.seq >= top.seq /\ UNCHANGED <<kind, local, last>>
    BY <1>6, ServeGives DEF device
  <2> QED BY <2>1, NoIntentLostKept
<1>7. ASSUME NEW n \in DOMAIN done, Publish(n) PROVE NoIntentLost'
  <2>1. UNCHANGED <<kind, local, last, top>>
    BY <1>7 DEF Publish, device
  <2> QED BY <2>1 DEF NoIntentLost
<1> QED BY <1>1, <1>2, <1>3, <1>4, <1>5, <1>6, <1>7 DEF IntentNext

\* No decision of a user is lost on its way, whatever is lost or overtakes what: the newest
\* decision of a device is pending there until the server has had it or what beats it.
THEOREM NoIntentLostHolds == IntentSpec => []NoIntentLost
<1> DEFINE I == IntentTypes /\ Witnessed /\ NoIntentLost
<1>1. IntentInit => I
  <2> SUFFICES ASSUME IntentInit PROVE Witnessed /\ NoIntentLost
    BY IntentTypesInit
  <2>1. Reached(Undecided)
    BY DEF IntentInit, Reached, Undecided
  <2>2. \A d \in Devices : last[d] = None /\ down[d] = <<>> /\ parked[d] = <<>>
    BY DEF IntentInit
  <2>3. row = Undecided /\ done = <<>>
    BY DEF IntentInit
  <2> QED BY <2>1, <2>2, <2>3 DEF Witnessed, NoIntentLost
<1>2. I /\ [IntentNext]_intentVars => I'
  BY IntentTypesKept, WitnessedKept, NoIntentLostStep
<1> QED BY <1>1, <1>2, PTL DEF IntentSpec

-----------------------------------------------------------------------------
(***************************************************************************)
(* Converged, first half: the base.  The jobs' ends reach the coordinator  *)
(* in the order of their commits, so what is parked, on its way and about  *)
(* to be told is, for every connected device, the history of the row from  *)
(* some point on, and its last value is the row.                           *)
(***************************************************************************)
\* The first end leaves the queue.
LEMMA PublishFirst ==
    ASSUME IntentTypes, "overtaking" \notin Admits, NEW n \in DOMAIN done, Publish(n)
    PROVE  /\ n = 1 /\ done # <<>> /\ Len(done) \in Nat \ {0} /\ done[1] \in Ends
           /\ done' \in Seq(Ends) /\ Len(done') = Len(done) - 1
           /\ \A i \in 1 .. Len(done) - 1 : done'[i] = done[i + 1]
           /\ down' \in [Devices -> Seq(Frames)]
           /\ \A d \in Devices : Delivers(done[1], d, down[d], down'[d])
           /\ UNCHANGED <<kind, row, asked, local, phase, parked, last, online, top>>
<1>1. /\ done[n] \in Ends /\ done' = RemoveAt(done, n) /\ done' \in Seq(Ends)
      /\ n = 1 \/ "overtaking" \in Admits
      /\ down' \in [Devices -> Seq(Frames)]
      /\ \A d \in Devices : Delivers(done[n], d, down[d], down'[d])
      /\ UNCHANGED <<kind, row, asked, local, phase, parked, last, online, top>>
  BY PublishGives DEF device
<1>2. n = 1
  BY <1>1
<1>3. done \in Seq(Ends) /\ Len(done) \in Nat /\ n \in 1 .. Len(done)
  BY DEF IntentTypes
<1> DEFINE t == RemoveAt(done, n)
<1>4. /\ t \in Seq(Ends) /\ Len(t) = Len(done) - 1
      /\ \A i \in 1 .. Len(t) : t[i] = IF i < n THEN done[i] ELSE done[i + 1]
  BY <1>3, SeqRemoved
<1>5. done' = t
  BY <1>1
<1> HIDE DEF t
<1>6. \A i \in 1 .. Len(done) - 1 : done'[i] = done[i + 1]
  BY <1>2, <1>3, <1>4, <1>5
<1>7. done # <<>> /\ Len(done) \in Nat \ {0}
  BY <1>3
<1> QED BY <1>1, <1>2, <1>4, <1>5, <1>6, <1>7

LEMMA CommitsKept ==
    ASSUME IntentTypes, "overtaking" \notin Admits, CommitsInOrder, [IntentNext]_intentVars
    PROVE  CommitsInOrder'
<1>0. done \in Seq(Ends) /\ Len(done) \in Nat
  BY DEF IntentTypes
<1>1. CASE UNCHANGED <<row, done>>
  BY <1>1 DEF CommitsInOrder
<1>2. ASSUME NEW d \in Devices, Disconnect(d) PROVE CommitsInOrder'
  <2>1. /\ done' \in Seq(Ends) /\ Len(done') = Len(done)
        /\ \A n \in DOMAIN done : done'[n].v = done[n].v /\ done'[n].told = done[n].told
        /\ row' = row
    BY <1>2, DisconnectGives
  <2>2. DOMAIN done = 1 .. Len(done)
    BY <1>0
  <2>3. done' # <<>> => done'[Len(done')].v = row'
    <3>1. ASSUME done' # <<>> PROVE done # <<>> /\ Len(done) \in DOMAIN done
      BY <1>0, <2>1, <3>1
    <3> QED BY <2>1, <3>1 DEF CommitsInOrder
  <2>4. \A n \in 2 .. Len(done') : ~done'[n].told => done'[n].v = done'[n - 1].v
    <3> SUFFICES ASSUME NEW n \in 2 .. Len(done), ~done'[n].told PROVE done'[n].v = done'[n - 1].v
      BY <2>1
    <3>1. n \in DOMAIN done /\ n - 1 \in DOMAIN done
      BY <1>0
    <3> QED BY <2>1, <3>1 DEF CommitsInOrder
  <2> QED BY <2>3, <2>4 DEF CommitsInOrder
<1>3. ASSUME NEW d \in Devices, NEW n \in DOMAIN asked[d], Serve(d, n) PROVE CommitsInOrder'
  <2>1. PICK j \in Ends : done' = Append(done, j) /\ j.v = row' /\ (~j.told => row' = row)
    BY <1>3, ServeGives
  <2>2. /\ done' \in Seq(Ends) /\ Len(done') = Len(done) + 1
        /\ \A i \in 1 .. Len(done) : done'[i] = done[i]
        /\ done'[Len(done) + 1] = j
    BY <1>0, <2>1, SeqAppend
  <2>3. done'[Len(done')].v = row'
    BY <2>1, <2>2
  <2>4. ASSUME NEW i \in 2 .. Len(done'), ~done'[i].told PROVE done'[i].v = done'[i - 1].v
    <3>1. CASE i <= Len(done)
      <4>1. i \in 2 .. Len(done) /\ i \in 1 .. Len(done) /\ i - 1 \in 1 .. Len(done)
        BY <1>0, <3>1
      <4> QED BY <2>2, <2>4, <4>1 DEF CommitsInOrder
    <3>2. CASE i > Len(done)
      <4>1. i = Len(done) + 1 /\ i - 1 = Len(done) /\ Len(done) \in 1 .. Len(done) /\ done # <<>>
        BY <1>0, <2>2, <3>2
      <4> QED BY <2>1, <2>2, <2>4, <4>1 DEF CommitsInOrder
    <3> QED BY <1>0, <2>2, <3>1, <3>2
  <2> QED BY <2>3, <2>4 DEF CommitsInOrder
<1>4. ASSUME NEW n \in DOMAIN done, Publish(n) PROVE CommitsInOrder'
  <2>1. /\ done' \in Seq(Ends) /\ Len(done') = Len(done) - 1 /\ Len(done) \in Nat \ {0}
        /\ \A i \in 1 .. Len(done) - 1 : done'[i] = done[i + 1]
        /\ row' = row /\ done # <<>>
    BY <1>4, PublishFirst
  <2>2. ASSUME done' # <<>> PROVE done'[Len(done')].v = row'
    <3>1. Len(done) - 1 \in 1 .. Len(done) - 1
      BY <2>1, <2>2
    <3>2. done'[Len(done')] = done[Len(done)]
      BY <2>1, <3>1
    <3> QED BY <2>1, <3>2 DEF CommitsInOrder
  <2>3. ASSUME NEW i \in 2 .. Len(done'), ~done'[i].told PROVE done'[i].v = done'[i - 1].v
    <3>1. i \in 1 .. Len(done) - 1 /\ i - 1 \in 1 .. Len(done) - 1 /\ i + 1 \in 2 .. Len(done)
          /\ (i - 1) + 1 = i /\ (i + 1) - 1 = i
      BY <2>1, <2>3
    <3>2. done'[i] = done[i + 1] /\ done'[i - 1] = done[i]
      BY <2>1, <3>1
    <3> QED BY <2>3, <3>1, <3>2 DEF CommitsInOrder
  <2> QED BY <2>2, <2>3 DEF CommitsInOrder
<1>5. ASSUME NEW d \in Devices, Connect(d) \/ Receive(d) PROVE UNCHANGED <<row, done>>
  BY <1>5 DEF Connect, Receive, ReceiveEvent, ReceiveWritten, ReceiveList, ReceiveFlushed, counters
<1>6. ASSUME NEW d \in Devices, NEW at \in 1 .. MaxStamp, NEW seq \in 0 .. MaxSeq, Write(d, at, seq)
      PROVE  UNCHANGED <<row, done>>
  BY <1>6 DEF Write
<1>7. CASE UNCHANGED intentVars
  BY <1>1, <1>7 DEF intentVars
<1> QED BY <1>1, <1>2, <1>3, <1>4, <1>5, <1>6, <1>7 DEF IntentNext

\* Settled and ListFirst are about the live part of the queues of one device.
SettledAt(d) ==
    /\ phase[d] = "idle" => parked[d] = <<>>
    /\ d \notin online => /\ down[d] = <<>> /\ phase[d] = "idle"
                          /\ \A n \in DOMAIN asked[d] : ~asked[d][n].live
                          /\ \A n \in DOMAIN done : done[n].to = d => ~done[n].live

ListFirstAt(d) == phase[d] = "refreshing-access" =>
    /\ \A n \in DOMAIN asked[d] : asked[d][n].live => asked[d][n].op # "flush"
    /\ \A n \in DOMAIN done : done[n].to = d /\ done[n].live => done[n].op # "flush"
    /\ \A n \in DOMAIN down[d] : down[d][n].kind = "answer" => down[d][n].op # "flush"

\* What is at d afterwards was there before.
NothingNew(d) ==
    /\ \A n \in DOMAIN asked'[d] : \E i \in DOMAIN asked[d] : asked'[d][n] = asked[d][i]
    /\ \A n \in DOMAIN done' : done'[n].to = d /\ done'[n].live =>
          \E i \in DOMAIN done : done[i].to = d /\ done[i].live /\ done'[n].op = done[i].op
    /\ \A n \in DOMAIN down'[d] : \E i \in DOMAIN down[d] : down'[d][n] = down[d][i]

LEMMA NothingNewSettles ==
    ASSUME NEW d \in Devices, SettledAt(d), ListFirstAt(d), NothingNew(d),
           phase'[d] = phase[d], parked'[d] = parked[d], d \in online <=> d \in online',
           down[d] = <<>> => down'[d] = <<>>
    PROVE  SettledAt(d)' /\ ListFirstAt(d)'
<1>1. SettledAt(d)'
  BY DEF SettledAt, NothingNew
<1>2. ListFirstAt(d)'
  <2> SUFFICES ASSUME phase[d] = "refreshing-access"
               PROVE  /\ \A n \in DOMAIN asked'[d] : asked'[d][n].live => asked'[d][n].op # "flush"
                      /\ \A n \in DOMAIN done' : done'[n].to = d /\ done'[n].live => done'[n].op # "flush"
                      /\ \A n \in DOMAIN down'[d] : down'[d][n].kind = "answer" => down'[d][n].op # "flush"
    BY DEF ListFirstAt
  <2> QED BY DEF ListFirstAt, NothingNew
<1> QED BY <1>1, <1>2

\* A device is connected when a frame arrives.
LEMMA ArrivesOnline ==
    ASSUME NEW d \in Devices, SettledAt(d), Arrives(d) PROVE d \in online
  BY DEF SettledAt, Arrives

LEMMA TailShorter ==
    ASSUME IntentTypes, NEW d \in Devices, Arrives(d)
    PROVE  \A n \in DOMAIN down'[d] : \E i \in DOMAIN down[d] : down'[d][n] = down[d][i]
<1>1. /\ down' \in [Devices -> Seq(Frames)] /\ Len(down'[d]) = Len(down[d]) - 1
      /\ \A i \in 1 .. Len(down[d]) - 1 : down'[d][i] = down[d][i + 1]
      /\ Len(down[d]) \in Nat \ {0}
  BY ArrivesFirst
<1>2. down[d] \in Seq(Frames) /\ down'[d] \in Seq(Frames)
  BY <1>1 DEF IntentTypes
<1> SUFFICES ASSUME NEW n \in DOMAIN down'[d] PROVE \E i \in DOMAIN down[d] : down'[d][n] = down[d][i]
  OBVIOUS
<1>3. n \in 1 .. Len(down[d]) - 1 /\ n + 1 \in DOMAIN down[d]
  BY <1>1, <1>2
<1> QED BY <1>1, <1>3

LEMMA SettledKept ==
    ASSUME IntentTypes, IntentTypes', Settled, ListFirst, [IntentNext]_intentVars
    PROVE  Settled' /\ ListFirst'
<1> SUFFICES ASSUME NEW e \in Devices PROVE SettledAt(e)' /\ ListFirstAt(e)'
  BY DEF Settled, ListFirst, SettledAt, ListFirstAt
<1>0. SettledAt(e) /\ ListFirstAt(e) /\ \A d \in Devices : SettledAt(d) /\ ListFirstAt(d)
  BY DEF Settled, ListFirst, SettledAt, ListFirstAt
<1>00. done \in Seq(Ends) /\ \A d \in Devices : /\ asked[d] \in Seq(Asks) /\ down[d] \in Seq(Frames)
                                                /\ parked[d] \in Seq(Values)
  BY DEF IntentTypes
<1>1. CASE UNCHANGED intentVars
  BY <1>0, <1>1 DEF SettledAt, ListFirstAt, intentVars, device, counters
<1>2. ASSUME NEW d \in Devices, NEW at \in 1 .. MaxStamp, NEW seq \in 0 .. MaxSeq, Write(d, at, seq)
      PROVE  SettledAt(e)' /\ ListFirstAt(e)'
  <2>1. UNCHANGED <<done, online, down, phase, parked>>
    BY <1>2 DEF Write
  <2>2. CASE asked'[e] = asked[e]
    <3>1. NothingNew(e)
      BY <2>1, <2>2 DEF NothingNew
    <3> QED BY <1>0, <2>1, <3>1, NothingNewSettles
  <2>3. CASE asked'[e] # asked[e]
    <3>1. e = d /\ d \in online
      BY <1>2, <2>3, WriteGives DEF OnDevice, Elsewhere
    <3>2. PICK v \in Values : asked'[d] = Append(asked[d], Asking("write", v, "override"))
      BY <1>2, <3>1, WriteGives
    <3>3. Asking("write", v, "override") \in Asks /\ Asking("write", v, "override").op # "flush"
      BY Asks_ DEF AskOps, Merges, Asking
    <3>4. /\ asked'[d] \in Seq(Asks) /\ Len(asked'[d]) = Len(asked[d]) + 1 /\ Len(asked[d]) \in Nat
          /\ \A i \in 1 .. Len(asked[d]) : asked'[d][i] = asked[d][i]
          /\ asked'[d][Len(asked[d]) + 1] = Asking("write", v, "override")
      BY <1>00, <3>2, <3>3, SeqAppend
    <3>5. SettledAt(d)'
      BY <1>0, <2>1, <3>1 DEF SettledAt
    <3>6. ASSUME phase[d] = "refreshing-access", NEW n \in DOMAIN asked'[d], asked'[d][n].live
          PROVE  asked'[d][n].op # "flush"
      <4>1. CASE n = Len(asked[d]) + 1
        BY <3>3, <3>4, <4>1
      <4>2. CASE n # Len(asked[d]) + 1
        <5>0. DOMAIN asked'[d] = 1 .. Len(asked[d]) + 1 /\ DOMAIN asked[d] = 1 .. Len(asked[d])
          BY <1>00, <3>4
        <5>1. n \in DOMAIN asked[d] /\ asked'[d][n] = asked[d][n]
          BY <3>4, <4>2, <5>0
        <5> QED BY <1>0, <3>6, <5>1 DEF ListFirstAt
      <4> QED BY <4>1, <4>2
    <3>7. ListFirstAt(d)'
      BY <1>0, <2>1, <3>6 DEF ListFirstAt
    <3> QED BY <3>1, <3>5, <3>7
  <2> QED BY <2>2, <2>3
<1>3. ASSUME NEW d \in Devices, Disconnect(d) PROVE SettledAt(e)' /\ ListFirstAt(e)'
  <2>1. /\ \A n \in DOMAIN asked'[d] : ~asked'[d][n].live
        /\ done' \in Seq(Ends) /\ Len(done') = Len(done)
        /\ \A n \in DOMAIN done : /\ done'[n].to = done[n].to /\ done'[n].op = done[n].op
                                  /\ done'[n].live <=> done[n].live /\ done[n].to # d
        /\ parked'[d] = <<>> /\ down'[d] = <<>> /\ phase'[d] = "idle"
        /\ \A i \in Devices : i # d => /\ parked'[i] = parked[i] /\ down'[i] = down[i]
                                       /\ phase'[i] = phase[i] /\ asked'[i] = asked[i]
        /\ online' = online \ {d}
    BY <1>3, DisconnectGives
  <2>2. DOMAIN done' = DOMAIN done
    BY <1>00, <2>1
  <2>3. CASE e = d
    BY <2>1, <2>2, <2>3 DEF SettledAt, ListFirstAt
  <2>4. CASE e # d
    <3>1. NothingNew(e)
      BY <2>1, <2>2, <2>4 DEF NothingNew
    <3> QED BY <1>0, <2>1, <2>4, <3>1, NothingNewSettles
  <2> QED BY <2>3, <2>4
<1>4. ASSUME NEW d \in Devices, Connect(d) PROVE SettledAt(e)' /\ ListFirstAt(e)'
  <2>1. /\ d \notin online /\ online' = online \cup {d}
        /\ phase'[d] = "refreshing-access" /\ Elsewhere(d)
        /\ asked'[d] = Append(asked[d], Asking("list", Undecided, "override"))
        /\ Asking("list", Undecided, "override") \in Asks
        /\ UNCHANGED <<done, parked, down>>
    BY <1>4, ConnectGives DEF OnDevice
  <2>2. CASE e = d
    <3>1. Asking("list", Undecided, "override").op # "flush"
      BY DEF Asking
    <3>2. /\ asked'[d] \in Seq(Asks) /\ Len(asked'[d]) = Len(asked[d]) + 1 /\ Len(asked[d]) \in Nat
          /\ \A i \in 1 .. Len(asked[d]) : asked'[d][i] = asked[d][i]
          /\ asked'[d][Len(asked[d]) + 1] = Asking("list", Undecided, "override")
      BY <1>00, <2>1, SeqAppend
    <3>3. ASSUME NEW n \in DOMAIN asked'[d], asked'[d][n].live PROVE asked'[d][n].op # "flush"
      <4>1. CASE n = Len(asked[d]) + 1
        BY <3>1, <3>2, <4>1
      <4>2. CASE n # Len(asked[d]) + 1
        <5>0. DOMAIN asked'[d] = 1 .. Len(asked[d]) + 1 /\ DOMAIN asked[d] = 1 .. Len(asked[d])
          BY <1>00, <3>2
        <5>1. n \in DOMAIN asked[d] /\ asked'[d][n] = asked[d][n]
          BY <3>2, <4>2, <5>0
        <5> QED BY <1>0, <2>1, <3>3, <5>1 DEF SettledAt
      <4> QED BY <4>1, <4>2
    <3>4. ListFirstAt(d)'
      BY <1>0, <2>1, <3>3 DEF ListFirstAt, SettledAt
    <3>5. SettledAt(d)'
      BY <2>1 DEF SettledAt
    <3> QED BY <2>2, <3>4, <3>5
  <2>3. CASE e # d
    <3>1. NothingNew(e)
      BY <2>1, <2>3 DEF NothingNew, Elsewhere
    <3> QED BY <1>0, <2>1, <2>3, <3>1, NothingNewSettles DEF Elsewhere
  <2> QED BY <2>2, <2>3
<1>5. ASSUME NEW d \in Devices, Receive(d) PROVE SettledAt(e)' /\ ListFirstAt(e)'
  <2>1. Elsewhere(d) /\ Arrives(d) /\ UNCHANGED <<done, online>>
    BY <1>5, ReceiveEventGives, ReceiveWrittenGives, ReceiveListGives, ReceiveFlushedGives
       DEF Receive, OnDevice
  <2>2. CASE e # d
    <3>1. NothingNew(e)
      BY <2>1, <2>2 DEF NothingNew, Elsewhere
    <3> QED BY <1>0, <2>1, <2>2, <3>1, NothingNewSettles DEF Elsewhere
  <2>3. CASE e = d
    <3>0. d \in online'
      BY <1>0, <2>1, ArrivesOnline
    <3>1. CASE phase'[d] = phase[d] /\ asked'[d] = asked[d]
               /\ (phase[d] = "idle" => parked'[d] = parked[d])
      <4>1. SettledAt(d)'
        BY <1>0, <3>0, <3>1 DEF SettledAt
      <4>2. NothingNew(d)
        BY <2>1, <3>1, TailShorter DEF NothingNew
      <4>3. ListFirstAt(d)'
        <5>1. ASSUME phase[d] = "refreshing-access"
              PROVE  /\ \A n \in DOMAIN asked'[d] : asked'[d][n].live => asked'[d][n].op # "flush"
                     /\ \A n \in DOMAIN done' : done'[n].to = d /\ done'[n].live => done'[n].op # "flush"
                     /\ \A n \in DOMAIN down'[d] : down'[d][n].kind = "answer" => down'[d][n].op # "flush"
          BY <1>0, <4>2, <5>1 DEF ListFirstAt, NothingNew
        <5> QED BY <3>1, <5>1 DEF ListFirstAt
      <4> QED BY <2>3, <4>1, <4>3
    <3>2. CASE phase'[d] # "refreshing-access" /\ (phase'[d] = "idle" => parked'[d] = <<>>)
      BY <2>3, <3>0, <3>2 DEF SettledAt, ListFirstAt
    <3>3. CASE ReceiveEvent(d)
      BY <3>1, <3>3, ReceiveEventGives
    <3>4. CASE ReceiveWritten(d)
      BY <3>1, <3>4, ReceiveWrittenGives
    <3>5. CASE ReceiveList(d)
      BY <3>2, <3>5, ReceiveListGives
    <3>6. CASE ReceiveFlushed(d)
      BY <3>2, <3>6, ReceiveFlushedGives
    <3> QED BY <1>5, <3>3, <3>4, <3>5, <3>6 DEF Receive
  <2> QED BY <2>2, <2>3
<1>6. ASSUME NEW d \in Devices, NEW n \in DOMAIN asked[d], Serve(d, n)
      PROVE  SettledAt(e)' /\ ListFirstAt(e)'
  <2>1. /\ asked'[d] = RemoveAt(asked[d], n) /\ \A i \in Devices : i # d => asked'[i] = asked[i]
        /\ \E j \in Ends : /\ done' = Append(done, j)
                           /\ j.to = d /\ j.live = asked[d][n].live /\ j.op = asked[d][n].op
        /\ UNCHANGED <<phase, parked, online, down>>
    BY <1>6, ServeGives DEF device
  <2>2. PICK j \in Ends : done' = Append(done, j) /\ j.to = d /\ j.live = asked[d][n].live /\ j.op = asked[d][n].op
    BY <2>1
  <2>3. /\ done' \in Seq(Ends) /\ Len(done') = Len(done) + 1 /\ Len(done) \in Nat
        /\ \A i \in 1 .. Len(done) : done'[i] = done[i]
        /\ done'[Len(done) + 1] = j
    BY <1>00, <2>2, SeqAppend
  <2>4. \A i \in DOMAIN asked'[e] : \E k \in DOMAIN asked[e] : asked'[e][i] = asked[e][k]
    <3>1. CASE e = d
      BY <1>00, <1>6, <2>1, <3>1, SeqOthers
    <3>2. CASE e # d
      BY <2>1, <3>2
    <3> QED BY <3>1, <3>2
  <2>5. ASSUME NEW i \in DOMAIN done', done'[i].to = e, done'[i].live
        PROVE  \/ \E k \in DOMAIN done : done[k].to = e /\ done[k].live /\ done'[i].op = done[k].op
               \/ \E k \in DOMAIN asked[e] : asked[e][k].live /\ done'[i].op = asked[e][k].op
    <3>1. CASE i = Len(done) + 1
      BY <1>6, <2>2, <2>3, <2>5, <3>1
    <3>2. CASE i # Len(done) + 1
      <4>1. i \in DOMAIN done /\ done'[i] = done[i]
        BY <1>00, <2>3, <3>2
      <4> QED BY <2>5, <4>1
    <3> QED BY <3>1, <3>2
  <2>6. SettledAt(e)'
    BY <1>0, <2>1, <2>4, <2>5 DEF SettledAt
  <2>7. ListFirstAt(e)'
    BY <1>0, <2>1, <2>4, <2>5 DEF ListFirstAt
  <2> QED BY <2>6, <2>7
<1>7. ASSUME NEW n \in DOMAIN done, Publish(n) PROVE SettledAt(e)' /\ ListFirstAt(e)'
  <2>1. /\ done[n] \in Ends /\ done' = RemoveAt(done, n)
        /\ down' \in [Devices -> Seq(Frames)]
        /\ Delivers(done[n], e, down[e], down'[e])
        /\ UNCHANGED <<asked, phase, parked, online>>
    BY <1>7, PublishGives DEF device
  <2>2. \A i \in DOMAIN done' : \E k \in DOMAIN done : done'[i] = done[k]
    BY <1>00, <1>7, <2>1, SeqOthers
  <2>3. down'[e] \in Seq(Frames) /\ down[e] \in Seq(Frames)
    BY <1>00, <2>1
  <2>4. ASSUME e \notin online PROVE down'[e] = <<>>
    <3>1. down[e] = <<>> /\ ~(done[n].live /\ done[n].to = e)
      BY <1>0, <1>7, <2>4 DEF SettledAt
    <3>2. Len(down'[e]) = 0
      BY <2>1, <2>4, <3>1 DEF Delivers
    <3> QED BY <2>3, <3>2
  <2>5. ASSUME NEW i \in DOMAIN down'[e], down'[e][i].kind = "answer"
        PROVE  \/ \E k \in DOMAIN down[e] : down'[e][i] = down[e][k]
               \/ done[n].to = e /\ done[n].live /\ down'[e][i].op = done[n].op
    BY <2>1, <2>3, <2>5, DeliveredAnswers
  <2>6. SettledAt(e)'
    BY <1>0, <2>1, <2>2, <2>4 DEF SettledAt
  <2>7. ListFirstAt(e)'
    BY <1>0, <1>7, <2>1, <2>2, <2>5 DEF ListFirstAt
  <2> QED BY <2>6, <2>7
<1> QED BY <1>1, <1>2, <1>3, <1>4, <1>5, <1>6, <1>7 DEF IntentNext

\* The two statements about the values on their way to d.
FollowsAt(d) ==
    /\ Heard(d) /\ done = <<>> => Tip(d) = row
    /\ Heard(d) /\ done # <<>> /\ ~done[1].told => Tip(d) = done[1].v

RepeatsAt(d) ==
    /\ down[d] # <<>> /\ down[d][1].kind = "answer" /\ Begun(d) => down[d][1].v = Before(d)
    /\ \A n \in 2 .. Len(down[d]) :
          down[d][n].kind = "answer" => down[d][n].v = down[d][n - 1].v

\* Nothing about d's values changes.
LEMMA SameStream ==
    ASSUME NEW d \in Devices, FollowsAt(d), RepeatsAt(d),
           parked'[d] = parked[d], phase'[d] = phase[d], down'[d] = down[d],
           local'[d].base = local[d].base, row' = row,
           done' = <<>> <=> done = <<>>,
           done # <<>> => done'[1].told = done[1].told /\ done'[1].v = done[1].v
    PROVE  FollowsAt(d)' /\ RepeatsAt(d)'
<1>1. /\ Before(d)' = Before(d) /\ Tip(d)' = Tip(d)
      /\ Begun(d)' = Begun(d) /\ Heard(d)' = Heard(d)
  BY DEF Before, Tip, Begun, Heard
<1>2. RepeatsAt(d)'
  BY <1>1 DEF RepeatsAt
<1>3. FollowsAt(d)'
  BY <1>1 DEF FollowsAt
<1> QED BY <1>2, <1>3

\* After a frame has been applied its value is the last one d knows of.
LEMMA ReceiveTells ==
    ASSUME IntentTypes, NEW d \in Devices, RepeatsAt(d), SettledAt(d), Receive(d), Begun(d)'
    PROVE  Before(d)' = down[d][1].v
<1> DEFINE v == down[d][1].v
<1>1. local[d] \in Locals /\ parked[d] \in Seq(Values) /\ Arrives(d)
  BY DEF IntentTypes, Receive, ReceiveEvent, ReceiveWritten, ReceiveList, ReceiveFlushed
<1>2. v \in Values /\ down[d] # <<>> /\ down[d][1] \in Frames
  BY <1>1, ArrivesFirst, FrameFields
<1>3. down[d][1].kind = "answer" /\ parked[d] # <<>> => v = parked[d][Len(parked[d])]
  BY <1>2 DEF RepeatsAt, Begun, Before
<1>4. \A a \in Locals : a.base = v /\ down[d][1].kind = "answer" => Replayed(a, parked[d]).base = v
  <2> SUFFICES ASSUME NEW a \in Locals, a.base = v, down[d][1].kind = "answer"
               PROVE  Replayed(a, parked[d]).base = v
    OBVIOUS
  <2>1. Replayed(a, parked[d]).base = IF parked[d] = <<>> THEN a.base ELSE parked[d][Len(parked[d])]
    BY <1>1, ReplayedGives
  <2> QED BY <1>3, <2>1
<1>5. Reconciled(local[d], v) \in Locals /\ Reconciled(local[d], v).base = v
  BY <1>1, <1>2, ReconciledGives
<1>6. down[d][1].kind = "answer" =>
        LET a == Acknowledged(local[d], v, down[d][1].merge) IN a \in Locals /\ a.base = v
  BY <1>1, <1>2, FrameFields, AcknowledgedGives
<1> HIDE DEF v
<1>7. CASE ReceiveEvent(d)
  <2>1. CASE phase[d] = "idle" /\ local'[d] = Reconciled(local[d], v) /\ parked'[d] = parked[d]
    <3>1. parked'[d] = <<>>
      BY <2>1 DEF SettledAt
    <3> QED BY <1>5, <2>1, <3>1 DEF Before, v
  <2>2. CASE parked'[d] = Append(parked[d], v)
    <3>1. /\ Append(parked[d], v) # <<>>
          /\ Append(parked[d], v)[Len(Append(parked[d], v))] = v
      BY <1>1, <1>2, AppendProperties
    <3> QED BY <2>2, <3>1 DEF Before, v
  <2> QED BY <1>7, <2>1, <2>2, ReceiveEventGives DEF v
<1>8. CASE ReceiveWritten(d)
  <2>1. /\ down[d][1].kind = "answer" /\ parked'[d] = parked[d]
        /\ local'[d] = Acknowledged(local[d], v, down[d][1].merge)
    BY <1>8, ReceiveWrittenGives DEF v
  <2>2. local'[d].base = v
    BY <1>6, <2>1
  <2> QED BY <1>3, <2>1, <2>2 DEF Before, v
<1>9. CASE ReceiveList(d)
  <2> DEFINE a == Reconciled(local[d], v)
  <2>1. /\ down[d][1].kind = "answer"
        /\ \/ local'[d] = a /\ parked'[d] = parked[d]
           \/ local'[d] = Replayed(a, parked[d]) /\ parked'[d] = <<>>
    BY <1>9, ReceiveListGives DEF v
  <2>2. a \in Locals /\ a.base = v
    BY <1>5
  <2> HIDE DEF a
  <2>3. CASE local'[d] = a /\ parked'[d] = parked[d]
    BY <1>3, <2>1, <2>2, <2>3 DEF Before, v
  <2>4. CASE local'[d] = Replayed(a, parked[d]) /\ parked'[d] = <<>>
    BY <1>4, <2>1, <2>2, <2>4 DEF Before, v
  <2> QED BY <2>1, <2>3, <2>4
<1>10. CASE ReceiveFlushed(d)
  <2> DEFINE a == Acknowledged(local[d], v, down[d][1].merge)
  <2>1. /\ down[d][1].kind = "answer"
        /\ local'[d] = Replayed(a, parked[d]) /\ parked'[d] = <<>>
    BY <1>10, ReceiveFlushedGives DEF v
  <2>2. a \in Locals /\ a.base = v
    BY <1>6, <2>1
  <2> HIDE DEF a
  <2> QED BY <1>4, <2>1, <2>2 DEF Before, v
<1> QED BY <1>7, <1>8, <1>9, <1>10 DEF Receive

LEMMA ReceiveStream ==
    ASSUME IntentTypes, NEW d \in Devices, FollowsAt(d), RepeatsAt(d), SettledAt(d), Receive(d)
    PROVE  FollowsAt(d)' /\ RepeatsAt(d)'
<1> DEFINE s == down[d]
           t == down'[d]
           L == Len(s)
<1>0. Arrives(d)
  BY DEF Receive, ReceiveEvent, ReceiveWritten, ReceiveList, ReceiveFlushed
<1>1. /\ s # <<>> /\ L \in Nat \ {0} /\ s \in Seq(Frames) /\ t \in Seq(Frames) /\ Len(t) = L - 1
      /\ \A i \in 1 .. L - 1 : t[i] = s[i + 1]
  BY <1>0, ArrivesFirst DEF IntentTypes
<1>2. UNCHANGED <<row, done>>
  BY ReceiveEventGives, ReceiveWrittenGives, ReceiveListGives, ReceiveFlushedGives DEF Receive, OnDevice
<1>3. Begun(d)' => Before(d)' = s[1].v
  BY ReceiveTells
<1>4. Tip(d) = s[L].v /\ Heard(d)
  BY <1>1 DEF Tip, Heard
<1>5. Heard(d)' => Tip(d)' = Tip(d)
  <2>1. CASE L = 1
    <3>1. t = <<>>
      BY <1>1, <2>1
    <3>2. Tip(d)' = Before(d)'
      BY <3>1 DEF Tip
    <3>3. Heard(d)' => Begun(d)'
      BY <3>1 DEF Heard
    <3> QED BY <1>3, <1>4, <2>1, <3>2, <3>3
  <2>2. CASE L # 1
    <3>0. L - 1 \in 1 .. L - 1 /\ (L - 1) + 1 = L /\ Len(t) # 0
      <4> HIDE DEF L
      <4> QED BY <1>1, <2>2
    <3>1. t # <<>> /\ L - 1 \in 1 .. L - 1 /\ (L - 1) + 1 = L
      <4> HIDE DEF L, t
      <4> QED BY <1>1, <3>0
    <3>2. t[Len(t)] = s[L]
      BY <1>1, <3>1
    <3>3. Tip(d)' = t[Len(t)].v
      BY <3>1 DEF Tip
    <3> QED BY <1>4, <3>2, <3>3
  <2> QED BY <2>1, <2>2
<1>6. FollowsAt(d)'
  BY <1>2, <1>4, <1>5 DEF FollowsAt
<1> HIDE DEF s, t, L
<1>7. \A n \in 2 .. L : s[n].kind = "answer" => s[n].v = s[n - 1].v
  BY DEF RepeatsAt, s, L
<1>8. ASSUME t # <<>>, t[1].kind = "answer", Begun(d)' PROVE t[1].v = Before(d)'
  <2>1. 1 \in 1 .. L - 1 /\ 2 \in 2 .. L
    <3>1. Len(t) # 0
      BY <1>1, <1>8
    <3> QED BY <1>1, <3>1
  <2>2. t[1] = s[2]
    BY <1>1, <2>1
  <2>3. s[2].v = s[1].v
    BY <1>7, <1>8, <2>1, <2>2
  <2> QED BY <1>3, <1>8, <2>2, <2>3
<1>9. ASSUME NEW n \in 2 .. Len(t), t[n].kind = "answer" PROVE t[n].v = t[n - 1].v
  <2>1. n \in 1 .. L - 1 /\ n - 1 \in 1 .. L - 1 /\ n + 1 \in 2 .. L /\ (n - 1) + 1 = n /\ (n + 1) - 1 = n
    BY <1>1, <1>9
  <2>2. t[n] = s[n + 1] /\ t[n - 1] = s[n]
    BY <1>1, <2>1
  <2> QED BY <1>7, <1>9, <2>1, <2>2
<1>10. RepeatsAt(d)'
  BY <1>8, <1>9 DEF RepeatsAt, t
<1> QED BY <1>6, <1>10

LEMMA ServeStream ==
    ASSUME IntentTypes, NEW d \in Devices, NEW n \in DOMAIN asked[d], Serve(d, n),
           NEW e \in Devices, FollowsAt(e), RepeatsAt(e)
    PROVE  FollowsAt(e)' /\ RepeatsAt(e)'
<1>1. PICK j \in Ends : done' = Append(done, j) /\ j.v = row' /\ (~j.told => row' = row)
  BY ServeGives
<1>2. UNCHANGED <<local, phase, parked, down>>
  BY ServeGives DEF device
<1>3. done \in Seq(Ends)
  BY DEF IntentTypes
<1>4. /\ done' \in Seq(Ends) /\ Len(done') = Len(done) + 1 /\ Len(done) \in Nat
      /\ \A i \in 1 .. Len(done) : done'[i] = done[i]
      /\ done'[Len(done) + 1] = j
  BY <1>1, <1>3, SeqAppend
<1>5. /\ Before(e)' = Before(e) /\ Tip(e)' = Tip(e)
      /\ Begun(e)' = Begun(e) /\ Heard(e)' = Heard(e)
  BY <1>2 DEF Before, Tip, Begun, Heard
<1>6. RepeatsAt(e)'
  BY <1>2, <1>5 DEF RepeatsAt
<1>7. done' # <<>>
  BY <1>4
<1>8. CASE done = <<>>
  <2>1. Len(done) = 0
    BY <1>8
  <2>2. done'[1] = j
    BY <1>4, <2>1
  <2> QED BY <1>1, <1>5, <1>6, <1>7, <1>8, <2>2 DEF FollowsAt
<1>9. CASE done # <<>>
  <2>1. 1 \in 1 .. Len(done)
    BY <1>3, <1>4, <1>9
  <2>2. done'[1] = done[1]
    BY <1>4, <2>1
  <2> QED BY <1>5, <1>6, <1>7, <1>9, <2>2 DEF FollowsAt
<1> QED BY <1>8, <1>9

LEMMA PublishStream ==
    ASSUME IntentTypes, "overtaking" \notin Admits, CommitsInOrder, NEW n \in DOMAIN done, Publish(n),
           NEW d \in online, FollowsAt(d), RepeatsAt(d)
    PROVE  FollowsAt(d)' /\ RepeatsAt(d)'
<1> DEFINE j == done[1]
           s == down[d]
           t == down'[d]
           L == Len(s)
<1>0. d \in Devices /\ done \in Seq(Ends) /\ s \in Seq(Frames)
  BY DEF IntentTypes
<1>1. /\ done # <<>> /\ Len(done) \in Nat \ {0} /\ j \in Ends
      /\ done' \in Seq(Ends) /\ Len(done') = Len(done) - 1
      /\ \A i \in 1 .. Len(done) - 1 : done'[i] = done[i + 1]
      /\ t \in Seq(Frames)
      /\ Delivers(j, d, s, t)
      /\ UNCHANGED <<row, local, phase, parked>>
  BY <1>0, PublishFirst
<1>2. /\ Before(d)' = Before(d) /\ Begun(d)' = Begun(d)
  BY <1>1 DEF Before, Begun
<1>3. /\ done' = <<>> => row' = j.v
      /\ done' # <<>> /\ ~done'[1].told => done'[1].v = j.v
  <2>1. ASSUME done' = <<>> PROVE row' = j.v
    <3>1. Len(done) = 1
      BY <1>1, <2>1
    <3> QED BY <1>1, <3>1 DEF CommitsInOrder
  <2>2. ASSUME done' # <<>>, ~done'[1].told PROVE done'[1].v = j.v
    <3>0. Len(done') # 0
      BY <1>1, <2>2
    <3>1. 1 \in 1 .. Len(done) - 1 /\ 2 \in 2 .. Len(done)
      BY <1>1, <3>0
    <3>2. done'[1] = done[2]
      BY <1>1, <3>1
    <3>3. ~done[2].told => done[2].v = done[2 - 1].v
      BY <3>1 DEF CommitsInOrder
    <3> QED BY <2>2, <3>2, <3>3
  <2> QED BY <2>1, <2>2
<1> DEFINE answered == j.live /\ j.to = d
<1>4. /\ L \in Nat /\ Len(t) \in Nat
      /\ Len(t) = L + (IF j.told THEN 1 ELSE 0) + (IF answered THEN 1 ELSE 0)
      /\ \A i \in 1 .. L : t[i] = s[i]
      /\ j.told => t[L + 1] = Event(j.v)
      /\ answered => t[Len(t)] = Answer(j.op, j.v, j.merge)
  <2>1. L \in Nat /\ Len(t) \in Nat
    BY <1>0, <1>1
  <2> HIDE DEF j, t, s
  <2>2. /\ Len(t) = L + (IF j.told /\ d \in online THEN 1 ELSE 0) + (IF answered THEN 1 ELSE 0)
        /\ \A i \in 1 .. L : t[i] = s[i]
        /\ j.told /\ d \in online => t[L + 1] = Event(j.v)
        /\ answered => t[Len(t)] = Answer(j.op, j.v, j.merge)
    BY <1>1 DEF Delivers
  <2>3. (IF j.told /\ d \in online THEN 1 ELSE 0) = (IF j.told THEN 1 ELSE 0)
    OBVIOUS
  <2> QED BY <2>1, <2>2, <2>3
<1>5. Event(j.v).v = j.v /\ Answer(j.op, j.v, j.merge).v = j.v /\ Event(j.v).kind = "event"
  BY DEF Event, Answer
<1>6. Heard(d) /\ ~j.told => Tip(d) = j.v
  BY <1>1 DEF FollowsAt
<1>7. s = <<>> <=> L = 0
  BY <1>0
<1>8. t = <<>> <=> Len(t) = 0
  BY <1>1
<1> HIDE DEF answered, j, s, t, L
<1>9. Heard(d)' => Tip(d)' = j.v
  <2>1. CASE ~j.told /\ ~answered
    <3>1. Len(t) = L
      BY <1>4, <2>1
    <3>2. (t = <<>> <=> s = <<>>) /\ (s # <<>> => t[Len(t)] = s[L])
      BY <1>4, <1>7, <1>8, <3>1
    <3>3. Tip(d)' = Tip(d) /\ Heard(d)' = Heard(d)
      BY <1>2, <3>2 DEF Tip, Heard, s, t, L
    <3> QED BY <1>6, <2>1, <3>3
  <2>2. CASE answered
    <3>1. t # <<>> /\ t[Len(t)].v = j.v
      <4>1. Len(t) # 0
        <5>1. CASE j.told
          BY <1>4, <2>2, <5>1
        <5>2. CASE ~j.told
          BY <1>4, <2>2, <5>2
        <5> QED BY <5>1, <5>2
      <4> QED BY <1>4, <1>5, <1>8, <2>2, <4>1
    <3> QED BY <3>1 DEF Tip, t
  <2>3. CASE j.told /\ ~answered
    <3>1. Len(t) = L + 1
      BY <1>4, <2>3
    <3>2. t # <<>> /\ t[Len(t)].v = j.v
      BY <1>4, <1>5, <1>8, <2>3, <3>1
    <3> QED BY <3>2 DEF Tip, t
  <2> QED BY <2>1, <2>2, <2>3
<1>10. FollowsAt(d)'
  BY <1>3, <1>9 DEF FollowsAt
<1>11. ASSUME NEW i \in 1 .. Len(t), t[i].kind = "answer"
       PROVE  \/ i \in 1 .. L /\ t[i] = s[i]
              \/ ~j.told /\ i = L + 1 /\ t[i].v = j.v
              \/ j.told /\ i = L + 2 /\ t[i].v = j.v /\ t[i - 1].v = j.v
  <2>1. i \in DOMAIN t /\ DOMAIN s = 1 .. L
    BY <1>0, <1>1, <1>11 DEF s, t, L
  <2>2. \/ i \in DOMAIN s /\ t[i] = s[i]
        \/ j.told /\ d \in online /\ i = Len(s) + 1 /\ t[i] = Event(j.v)
        \/ /\ j.live /\ j.to = d /\ t[i] = Answer(j.op, j.v, j.merge)
           /\ IF j.told /\ d \in online THEN i = Len(s) + 2 ELSE i = Len(s) + 1
    BY <1>0, <1>1, <2>1, DeliveredIs
  <2>3. CASE i \in DOMAIN s /\ t[i] = s[i]
    BY <2>1, <2>3
  <2>4. CASE i = Len(s) + 1 /\ t[i] = Event(j.v)
    BY <1>5, <1>11, <2>4
  <2>5. CASE t[i] = Answer(j.op, j.v, j.merge) /\ j.told /\ i = L + 2
    <3>1. i - 1 = L + 1
      BY <1>4, <2>5
    <3> QED BY <1>4, <1>5, <2>5, <3>1
  <2>6. CASE t[i] = Answer(j.op, j.v, j.merge) /\ ~j.told /\ i = L + 1
    BY <1>5, <2>6
  <2> QED BY <1>0, <2>2, <2>3, <2>4, <2>5, <2>6 DEF L
<1>12. ASSUME t # <<>>, t[1].kind = "answer", Begun(d)' PROVE t[1].v = Before(d)'
  <2>0. 1 \in 1 .. Len(t)
    BY <1>4, <1>8, <1>12
  <2>1. CASE L = 0
    <3>1. ~j.told /\ t[1].v = j.v
      BY <1>4, <1>11, <1>12, <2>0, <2>1
    <3>2. Heard(d) /\ Tip(d) = Before(d)
      BY <1>2, <1>7, <1>12, <2>1 DEF Heard, Tip, s
    <3> QED BY <1>2, <1>6, <3>1, <3>2
  <2>2. CASE L # 0
    <3>1. 1 \in 1 .. L /\ s # <<>>
      BY <1>4, <1>7, <2>2
    <3>2. t[1] = s[1]
      BY <1>4, <3>1
    <3> QED BY <1>2, <1>12, <3>1, <3>2 DEF RepeatsAt, s
  <2> QED BY <2>1, <2>2
<1>13. ASSUME NEW i \in 2 .. Len(t), t[i].kind = "answer" PROVE t[i].v = t[i - 1].v
  <2>0. i \in 1 .. Len(t) /\ i \in Int /\ i >= 2
    BY <1>4
  <2>1. CASE i \in 1 .. L /\ t[i] = s[i]
    <3>1. i \in 2 .. L /\ i - 1 \in 1 .. L
      BY <1>4, <2>0, <2>1
    <3>2. t[i - 1] = s[i - 1]
      BY <1>4, <3>1
    <3>3. s[i].kind = "answer" => s[i].v = s[i - 1].v
      BY <3>1 DEF RepeatsAt, s, L
    <3> QED BY <1>13, <2>1, <3>2, <3>3
  <2>2. CASE ~j.told /\ i = L + 1 /\ t[i].v = j.v
    <3>1. L \in 1 .. L /\ i - 1 = L /\ s # <<>>
      BY <1>4, <1>7, <2>0, <2>2
    <3>2. t[i - 1] = s[L]
      BY <1>4, <3>1
    <3>3. Heard(d) /\ Tip(d) = s[L].v
      BY <3>1 DEF Heard, Tip, s, L
    <3> QED BY <1>6, <2>2, <3>2, <3>3
  <2>3. CASE t[i].v = j.v /\ t[i - 1].v = j.v
    BY <2>3
  <2> QED BY <1>11, <1>13, <2>0, <2>1, <2>2, <2>3
<1>14. RepeatsAt(d)'
  BY <1>12, <1>13 DEF RepeatsAt, t
<1> QED BY <1>10, <1>14

LEMMA StreamKept ==
    ASSUME IntentTypes, "overtaking" \notin Admits, CommitsInOrder, FollowsOn, AnswersRepeat, Settled,
           [IntentNext]_intentVars
    PROVE  FollowsOn' /\ AnswersRepeat'
<1> SUFFICES ASSUME NEW e \in online' PROVE FollowsAt(e)' /\ RepeatsAt(e)'
  BY DEF FollowsOn, AnswersRepeat, FollowsAt, RepeatsAt
<1>0. /\ online \subseteq Devices
      /\ \A d \in online : FollowsAt(d) /\ RepeatsAt(d)
      /\ \A d \in Devices : SettledAt(d)
  BY DEF IntentTypes, FollowsOn, AnswersRepeat, Settled, FollowsAt, RepeatsAt, SettledAt
<1>1. CASE UNCHANGED intentVars
  <2>1. UNCHANGED <<row, done, local, online, down, phase, parked>>
    BY <1>1 DEF intentVars, device, counters
  <2> QED BY <1>0, <2>1, SameStream
<1>2. ASSUME NEW d \in Devices, NEW at \in 1 .. MaxStamp, NEW seq \in 0 .. MaxSeq, Write(d, at, seq)
      PROVE  FollowsAt(e)' /\ RepeatsAt(e)'
  <2>1. UNCHANGED <<row, done, online, down, phase, parked>>
    BY <1>2 DEF Write
  <2>2. local'[e].base = local[e].base
    <3>1. CASE e = d
      <4>1. PICK v \in Values : local'[d] = [base |-> local[d].base, proposal |-> v]
        BY <1>2, WriteGives
      <4> QED BY <3>1, <4>1
    <3>2. CASE e # d
      BY <1>0, <1>2, <2>1, <3>2, WriteGives DEF OnDevice, Elsewhere
    <3> QED BY <3>1, <3>2
  <2> QED BY <1>0, <2>1, <2>2, SameStream
<1>3. ASSUME NEW d \in Devices, Disconnect(d) PROVE FollowsAt(e)' /\ RepeatsAt(e)'
  <2>1. /\ done' \in Seq(Ends) /\ Len(done') = Len(done)
        /\ \A n \in DOMAIN done : done'[n].told = done[n].told /\ done'[n].v = done[n].v
        /\ \A i \in Devices : i # d => /\ local'[i] = local[i] /\ parked'[i] = parked[i]
                                       /\ down'[i] = down[i] /\ phase'[i] = phase[i]
        /\ online' = online \ {d} /\ row' = row
    BY <1>3, DisconnectGives
  <2>2. done \in Seq(Ends)
    BY DEF IntentTypes
  <2>3. (done' = <<>> <=> done = <<>>) /\ (done # <<>> => 1 \in DOMAIN done)
    BY <2>1, <2>2
  <2>4. e \in online /\ e # d /\ e \in Devices
    BY <1>0, <2>1
  <2> QED BY <1>0, <2>1, <2>3, <2>4, SameStream
<1>4. ASSUME NEW d \in Devices, Connect(d) PROVE FollowsAt(e)' /\ RepeatsAt(e)'
  <2>1. /\ d \notin online /\ online' = online \cup {d} /\ phase'[d] = "refreshing-access" /\ Elsewhere(d)
        /\ UNCHANGED <<row, done, local, parked, down>>
    BY <1>4, ConnectGives DEF OnDevice
  <2>2. CASE e = d
    <3>1. down[d] = <<>> /\ parked[d] = <<>>
      BY <1>0, <2>1 DEF SettledAt
    <3>2. ~Heard(d)' /\ ~Begun(d)' /\ Len(down'[d]) = 0 /\ down'[d] = <<>>
      BY <2>1, <3>1 DEF Heard, Begun
    <3> QED BY <2>2, <3>2 DEF FollowsAt, RepeatsAt
  <2>3. CASE e # d
    BY <1>0, <2>1, <2>3, SameStream DEF Elsewhere
  <2> QED BY <2>2, <2>3
<1>5. ASSUME NEW d \in Devices, Receive(d) PROVE FollowsAt(e)' /\ RepeatsAt(e)'
  <2>1. Elsewhere(d) /\ Arrives(d) /\ UNCHANGED <<row, done, online>>
    BY <1>5, ReceiveEventGives, ReceiveWrittenGives, ReceiveListGives, ReceiveFlushedGives
       DEF Receive, OnDevice
  <2>2. CASE e = d
    BY <1>0, <1>5, <2>1, <2>2, ReceiveStream
  <2>3. CASE e # d
    BY <1>0, <2>1, <2>3, SameStream DEF Elsewhere
  <2> QED BY <2>2, <2>3
<1>6. ASSUME NEW d \in Devices, NEW n \in DOMAIN asked[d], Serve(d, n) PROVE FollowsAt(e)' /\ RepeatsAt(e)'
  <2>1. online' = online
    BY <1>6, ServeGives
  <2> QED BY <1>0, <1>6, <2>1, ServeStream
<1>7. ASSUME NEW n \in DOMAIN done, Publish(n) PROVE FollowsAt(e)' /\ RepeatsAt(e)'
  <2>1. online' = online
    BY <1>7, PublishGives
  <2> QED BY <1>0, <1>7, <2>1, PublishStream
<1> QED BY <1>1, <1>2, <1>3, <1>4, <1>5, <1>6, <1>7 DEF IntentNext


-----------------------------------------------------------------------------
(***************************************************************************)
(* Converged, second half: the proposal.  On a connected device that is    *)
(* not waiting for its list, what the user has decided is on its way: as a *)
(* request, as the end of a job that settles it, or as that job's answer.  *)
(***************************************************************************)
CarriedAt(d) == local[d].proposal # None /\ phase[d] # "refreshing-access" => Carries(d)

\* p is on its way from d, in one of the three places.
InAsked(d, p) == \E n \in DOMAIN asked[d] :
    asked[d][n].live /\ asked[d][n].op # "list" /\ asked[d][n].v = p
InDone(d, p) == \E n \in DOMAIN done :
    /\ done[n].to = d /\ done[n].live /\ done[n].op # "list"
    /\ Settles(done[n].merge, done[n].v, p)
InDown(d, p) == \E n \in DOMAIN down[d] :
    /\ down[d][n].kind = "answer" /\ down[d][n].op # "list"
    /\ Settles(down[d][n].merge, down[d][n].v, p)

LEMMA CarriesIn ==
    ASSUME NEW d \in Devices
    PROVE  /\ Carries(d) <=> \/ InAsked(d, local[d].proposal) \/ InDone(d, local[d].proposal)
                             \/ InDown(d, local[d].proposal)
           /\ Carries(d)' <=> \/ InAsked(d, local[d].proposal)' \/ InDone(d, local[d].proposal)'
                              \/ InDown(d, local[d].proposal)'
  BY DEF Carries, InAsked, InDone, InDown

\* A carrier that is still there still carries.
LEMMA CarriersStay ==
    ASSUME NEW d \in Devices, CarriedAt(d), kind' = kind,
           local'[d].proposal = local[d].proposal, phase'[d] = phase[d] \/ phase[d] # "refreshing-access",
           \A n \in DOMAIN asked[d] : \E i \in DOMAIN asked'[d] : asked'[d][i] = asked[d][n],
           \A n \in DOMAIN done : done[n].to = d => \E i \in DOMAIN done' :
              /\ done'[i].to = d /\ done'[i].live = done[n].live /\ done'[i].op = done[n].op
              /\ done'[i].merge = done[n].merge /\ done'[i].v = done[n].v,
           \A n \in DOMAIN down[d] : \E i \in DOMAIN down'[d] : down'[d][i] = down[d][n]
    PROVE  CarriedAt(d)'
<1> SUFFICES ASSUME local'[d].proposal # None, phase'[d] # "refreshing-access" PROVE Carries(d)'
  BY DEF CarriedAt
<1>1. Carries(d)
  BY DEF CarriedAt
<1> DEFINE p == local[d].proposal
<1>2. CASE InAsked(d, p)
  <2>1. PICK n \in DOMAIN asked[d] : asked[d][n].live /\ asked[d][n].op # "list" /\ asked[d][n].v = p
    BY <1>2 DEF InAsked
  <2>2. PICK i \in DOMAIN asked'[d] : asked'[d][i] = asked[d][n]
    OBVIOUS
  <2> QED BY <2>1, <2>2 DEF Carries
<1>3. CASE InDone(d, p)
  <2>1. PICK n \in DOMAIN done : /\ done[n].to = d /\ done[n].live /\ done[n].op # "list"
                                 /\ Settles(done[n].merge, done[n].v, p)
    BY <1>3 DEF InDone
  <2>2. PICK i \in DOMAIN done' : /\ done'[i].to = d /\ done'[i].live = done[n].live
                                  /\ done'[i].op = done[n].op
                                  /\ done'[i].merge = done[n].merge /\ done'[i].v = done[n].v
    BY <2>1
  <2> QED BY <2>1, <2>2 DEF Carries, Settles
<1>4. CASE InDown(d, p)
  <2>1. PICK n \in DOMAIN down[d] : /\ down[d][n].kind = "answer" /\ down[d][n].op # "list"
                                    /\ Settles(down[d][n].merge, down[d][n].v, p)
    BY <1>4 DEF InDown
  <2>2. PICK i \in DOMAIN down'[d] : down'[d][i] = down[d][n]
    OBVIOUS
  <2> QED BY <2>1, <2>2 DEF Carries, Settles
<1> QED BY <1>1, <1>2, <1>3, <1>4, CarriesIn

\* A record without a proposal has none after a replay.
LEMMA ReplayProposes ==
    ASSUME NEW a \in Locals, NEW events \in Seq(Values)
    PROVE  Replayed(a, events).proposal = a.proposal \/ Replayed(a, events).proposal = None
  BY ReplayedGives

\* A frame settles what it carries, or it was not the carrier.
LEMMA ReceiveCarried ==
    ASSUME IntentTypes, IntentTypes', NEW d \in Devices, CarriedAt(d), ListFirstAt(d), Receive(d)
    PROVE  CarriedAt(d)'
<1>0. /\ local[d] \in Locals /\ parked[d] \in Seq(Values) /\ down[d] \in Seq(Frames)
      /\ asked[d] \in Seq(Asks)
  BY DEF IntentTypes
<1>1. Arrives(d) /\ UNCHANGED <<kind, done>>
  BY ReceiveEventGives, ReceiveWrittenGives, ReceiveListGives, ReceiveFlushedGives DEF Receive, OnDevice
<1> DEFINE m == down[d][1]
<1>2. /\ down' \in [Devices -> Seq(Frames)] /\ Len(down'[d]) = Len(down[d]) - 1
      /\ \A i \in 1 .. Len(down[d]) - 1 : down'[d][i] = down[d][i + 1]
      /\ Len(down[d]) \in Nat \ {0} /\ 1 \in DOMAIN down[d] /\ m \in Frames
  BY <1>1, ArrivesFirst
<1>3. m.v \in Values /\ (m.kind = "answer" => m.op \in AskOps /\ m.merge \in Merges)
  BY <1>2, FrameFields
<1>4. \A n \in DOMAIN down[d] : n # 1 => \E i \in DOMAIN down'[d] : down'[d][i] = down[d][n]
  <2> SUFFICES ASSUME NEW n \in DOMAIN down[d], n # 1
               PROVE  \E i \in DOMAIN down'[d] : down'[d][i] = down[d][n]
    OBVIOUS
  <2>0. DOMAIN down'[d] = 1 .. Len(down[d]) - 1 /\ DOMAIN down[d] = 1 .. Len(down[d])
    BY <1>0, <1>2
  <2>1. n - 1 \in 1 .. Len(down[d]) - 1 /\ (n - 1) + 1 = n
    BY <1>2, <2>0
  <2>2. n - 1 \in DOMAIN down'[d] /\ down'[d][n - 1] = down[d][n]
    BY <1>2, <2>0, <2>1
  <2> QED BY <2>2
\* What is left when the proposal stays and m does not settle it.
<1>5. ASSUME asked'[d] = asked[d], local'[d].proposal = local[d].proposal, phase[d] # "refreshing-access",
             ~(/\ m.kind = "answer" /\ m.op # "list" /\ local[d].proposal # None
               /\ Settles(m.merge, m.v, local[d].proposal))
      PROVE  CarriedAt(d)'
  <2> SUFFICES ASSUME local'[d].proposal # None PROVE Carries(d)'
    BY DEF CarriedAt
  <2>1. Carries(d)
    BY <1>5 DEF CarriedAt
  <2> DEFINE p == local[d].proposal
  <2>2. CASE InAsked(d, p) \/ InDone(d, p)
    BY <1>1, <1>5, <2>2 DEF Carries, InAsked, InDone, Settles
  <2>3. CASE InDown(d, p)
    <3>1. PICK n \in DOMAIN down[d] : /\ down[d][n].kind = "answer" /\ down[d][n].op # "list"
                                      /\ Settles(down[d][n].merge, down[d][n].v, p)
      BY <2>3 DEF InDown
    <3>2. n # 1
      BY <1>5, <3>1
    <3>3. PICK i \in DOMAIN down'[d] : down'[d][i] = down[d][n]
      BY <1>4, <3>2
    <3> QED BY <1>1, <1>5, <3>1, <3>3 DEF Carries, Settles
  <2> QED BY <2>1, <2>2, <2>3, CarriesIn
<1>6. ASSUME local'[d].proposal = None PROVE CarriedAt(d)'
  BY <1>6 DEF CarriedAt
<1>7. CASE ReceiveEvent(d)
  <2>1. /\ m.kind = "event" /\ asked'[d] = asked[d] /\ phase'[d] = phase[d]
        /\ local'[d] = Reconciled(local[d], m.v) \/ local'[d] = local[d]
    BY <1>7, ReceiveEventGives
  <2>2. local'[d].proposal = local[d].proposal \/ local'[d].proposal = None
    BY <1>0, <1>3, <2>1, ReconciledGives
  <2>3. CASE phase[d] = "refreshing-access"
    BY <2>1, <2>3 DEF CarriedAt
  <2> QED BY <1>5, <1>6, <2>1, <2>2, <2>3
<1>8. CASE ReceiveWritten(d)
  <2>1. /\ m.kind = "answer" /\ m.op = "write" /\ asked'[d] = asked[d] /\ phase'[d] = phase[d]
        /\ local'[d] = Acknowledged(local[d], m.v, m.merge)
    BY <1>8, ReceiveWrittenGives
  <2>2. local'[d].proposal =
          IF local[d].proposal = None \/ Settles(m.merge, m.v, local[d].proposal)
          THEN None ELSE local[d].proposal
    BY <1>0, <1>3, <2>1, AcknowledgedGives
  <2>3. CASE phase[d] = "refreshing-access"
    BY <2>1, <2>3 DEF CarriedAt
  <2>4. CASE local[d].proposal = None \/ Settles(m.merge, m.v, local[d].proposal)
    BY <1>6, <2>2, <2>4
  <2>5. CASE ~(local[d].proposal = None \/ Settles(m.merge, m.v, local[d].proposal))
    BY <1>5, <2>1, <2>2, <2>3, <2>5
  <2> QED BY <2>4, <2>5
<1>9. CASE ReceiveList(d)
  <2> DEFINE a == Reconciled(local[d], m.v)
             r == Asking("flush", a.proposal, "furthest")
  <2>1. \/ /\ a.proposal \in Values /\ r \in Asks
           /\ local'[d] = a /\ asked'[d] = Append(asked[d], r)
        \/ /\ a.proposal = None /\ local'[d] = Replayed(a, parked[d])
    BY <1>9, ReceiveListGives
  <2>2. CASE /\ r \in Asks /\ local'[d] = a /\ asked'[d] = Append(asked[d], r)
    <3>1. r.live /\ r.op # "list" /\ r.v = a.proposal
      BY DEF Asking
    <3> HIDE DEF r
    <3>2. Len(asked[d]) + 1 \in DOMAIN asked'[d] /\ asked'[d][Len(asked[d]) + 1] = r
      BY <1>0, <2>2, SeqAppend
    <3> QED BY <2>2, <3>1, <3>2 DEF CarriedAt, Carries
  <2>3. CASE a.proposal = None /\ local'[d] = Replayed(a, parked[d])
    <3>1. a \in Locals
      BY <1>0, <1>3, ReconciledGives
    <3> HIDE DEF a
    <3>2. local'[d].proposal = None
      BY <1>0, <2>3, <3>1, ReplayProposes
    <3> QED BY <1>6, <3>2
  <2> QED BY <2>1, <2>2, <2>3
<1>10. CASE ReceiveFlushed(d)
  <2> DEFINE a == Acknowledged(local[d], m.v, m.merge)
  <2>1. /\ m.kind = "answer" /\ m.op = "flush" /\ asked'[d] = asked[d]
        /\ a \in Locals /\ local'[d] = Replayed(a, parked[d])
    BY <1>10, ReceiveFlushedGives
  <2>2. a.proposal = IF local[d].proposal = None \/ Settles(m.merge, m.v, local[d].proposal)
                     THEN None ELSE local[d].proposal
    BY <1>0, <1>3, <2>1, AcknowledgedGives
  <2> HIDE DEF a
  <2>3. local'[d].proposal = a.proposal \/ local'[d].proposal = None
    BY <1>0, <2>1, ReplayProposes
  <2>4. phase[d] # "refreshing-access"
    BY <1>2, <2>1 DEF ListFirstAt
  <2>5. CASE local[d].proposal = None \/ Settles(m.merge, m.v, local[d].proposal)
    BY <1>6, <2>2, <2>3, <2>5
  <2>6. CASE ~(local[d].proposal = None \/ Settles(m.merge, m.v, local[d].proposal))
    BY <1>5, <1>6, <2>1, <2>2, <2>3, <2>4, <2>6
  <2> QED BY <2>5, <2>6
<1> QED BY <1>7, <1>8, <1>9, <1>10 DEF Receive

LEMMA ServeCarried ==
    ASSUME IntentTypes, NEW d \in Devices, NEW n \in DOMAIN asked[d], Serve(d, n),
           NEW e \in Devices, CarriedAt(e)
    PROVE  CarriedAt(e)'
<1>0. asked[d] \in Seq(Asks) /\ done \in Seq(Ends)
  BY DEF IntentTypes
<1>1. /\ asked'[d] = RemoveAt(asked[d], n) /\ \A i \in Devices : i # d => asked'[i] = asked[i]
      /\ UNCHANGED <<kind, local, phase, down>>
  BY ServeGives DEF device
<1>2. PICK j \in Ends : /\ done' = Append(done, j)
                        /\ j.to = d /\ j.live = asked[d][n].live /\ j.op = asked[d][n].op
                        /\ j.v = row'
                        /\ j.op # "list" => Settles(j.merge, row', asked[d][n].v)
  BY ServeGives
<1>3. /\ done' \in Seq(Ends) /\ Len(done') = Len(done) + 1 /\ Len(done) \in Nat
      /\ \A i \in 1 .. Len(done) : done'[i] = done[i]
      /\ done'[Len(done) + 1] = j
  BY <1>0, <1>2, SeqAppend
<1>4. \A i \in DOMAIN done : i \in DOMAIN done' /\ done'[i] = done[i]
  BY <1>0, <1>3
<1>5. Len(done) + 1 \in DOMAIN done'
  BY <1>3
<1>6. CASE e # d
  BY <1>1, <1>4, <1>6, CarriersStay
<1>7. CASE e = d
  <2> SUFFICES ASSUME local[d].proposal # None, phase[d] # "refreshing-access" PROVE Carries(d)'
    BY <1>1, <1>7 DEF CarriedAt
  <2> DEFINE p == local[d].proposal
  <2>1. Carries(d)
    BY <1>7 DEF CarriedAt
  <2>2. CASE InAsked(d, p)
    <3>1. PICK k \in DOMAIN asked[d] : asked[d][k].live /\ asked[d][k].op # "list" /\ asked[d][k].v = p
      BY <2>2 DEF InAsked
    <3>2. CASE k = n
      <4>1. j.to = d /\ j.live /\ j.op # "list" /\ Settles(j.merge, j.v, p)
        BY <1>2, <3>1, <3>2
      <4> QED BY <1>1, <1>3, <1>5, <4>1 DEF Carries, Settles
    <3>3. CASE k # n
      <4>1. PICK i \in DOMAIN asked'[d] : asked'[d][i] = asked[d][k]
        BY <1>0, <1>1, <3>3, SeqOthers
      <4> QED BY <1>1, <3>1, <4>1 DEF Carries
    <3> QED BY <3>2, <3>3
  <2>3. CASE InDone(d, p)
    BY <1>1, <1>4, <2>3 DEF InDone, Carries, Settles
  <2>4. CASE InDown(d, p)
    BY <1>1, <2>4 DEF InDown, Carries, Settles
  <2> QED BY <2>1, <2>2, <2>3, <2>4, CarriesIn
<1> QED BY <1>6, <1>7

LEMMA PublishCarried ==
    ASSUME IntentTypes, NEW n \in DOMAIN done, Publish(n), NEW e \in Devices, CarriedAt(e)
    PROVE  CarriedAt(e)'
<1>0. done \in Seq(Ends) /\ down[e] \in Seq(Frames)
  BY DEF IntentTypes
<1> DEFINE j == done[n]
<1>1. /\ j \in Ends /\ done' = RemoveAt(done, n) /\ down' \in [Devices -> Seq(Frames)]
      /\ Delivers(j, e, down[e], down'[e])
      /\ UNCHANGED <<kind, asked, local, phase>>
  BY PublishGives DEF device
<1>2. Len(down[e]) \in Nat /\ Len(down'[e]) \in Nat /\ down'[e] \in Seq(Frames)
  BY <1>0, <1>1
<1> HIDE DEF j
<1>3. \A i \in DOMAIN down[e] : i \in DOMAIN down'[e] /\ down'[e][i] = down[e][i]
  <2>1. DOMAIN down[e] = 1 .. Len(down[e]) /\ DOMAIN down'[e] = 1 .. Len(down'[e])
    BY <1>0, <1>2
  <2>2. Len(down[e]) <= Len(down'[e]) /\ \A i \in 1 .. Len(down[e]) : down'[e][i] = down[e][i]
    <3> DEFINE a == IF j.told /\ e \in online THEN 1 ELSE 0
               b == IF j.live /\ j.to = e THEN 1 ELSE 0
    <3>1. a \in {0, 1} /\ b \in {0, 1}
      OBVIOUS
    <3>2. Len(down'[e]) = Len(down[e]) + a + b /\ \A i \in 1 .. Len(down[e]) : down'[e][i] = down[e][i]
      BY <1>1 DEF Delivers
    <3> HIDE DEF a, b
    <3> QED BY <1>2, <3>1, <3>2
  <2> QED BY <1>2, <2>1, <2>2
<1> SUFFICES ASSUME local[e].proposal # None, phase[e] # "refreshing-access" PROVE Carries(e)'
  BY <1>1 DEF CarriedAt
<1> DEFINE p == local[e].proposal
<1>4. Carries(e)
  BY DEF CarriedAt
<1>5. CASE InAsked(e, p)
  BY <1>1, <1>5 DEF InAsked, Carries
<1>6. CASE InDone(e, p)
  <2>1. PICK k \in DOMAIN done : /\ done[k].to = e /\ done[k].live /\ done[k].op # "list"
                                 /\ Settles(done[k].merge, done[k].v, p)
    BY <1>6 DEF InDone
  <2>2. CASE k = n
    <3>1. /\ j.to = e /\ j.live /\ j.op # "list" /\ Settles(j.merge, j.v, p)
      BY <2>1, <2>2 DEF j
    <3>2. down'[e][Len(down'[e])] = Answer(j.op, j.v, j.merge)
      BY <1>1, <3>1 DEF Delivers
    <3>3. /\ Answer(j.op, j.v, j.merge).kind = "answer" /\ Answer(j.op, j.v, j.merge).op = j.op
          /\ Answer(j.op, j.v, j.merge).v = j.v /\ Answer(j.op, j.v, j.merge).merge = j.merge
      BY DEF Answer
    <3>4. Len(down'[e]) \in DOMAIN down'[e]
      <4>1. Len(down'[e]) >= 1
        <5> DEFINE a == IF j.told /\ e \in online THEN 1 ELSE 0
        <5>1. a \in {0, 1}
          OBVIOUS
        <5>2. Len(down'[e]) = Len(down[e]) + a + 1
          BY <1>1, <3>1 DEF Delivers
        <5> HIDE DEF a
        <5> QED BY <1>2, <5>1, <5>2
      <4> QED BY <1>2, <4>1
    <3> QED BY <1>1, <3>1, <3>2, <3>3, <3>4 DEF Carries, Settles
  <2>3. CASE k # n
    <3>1. PICK i \in DOMAIN done' : done'[i] = done[k]
      BY <1>0, <1>1, <2>3, SeqOthers
    <3> QED BY <1>1, <2>1, <3>1 DEF Carries, Settles
  <2> QED BY <2>2, <2>3
<1>7. CASE InDown(e, p)
  BY <1>1, <1>3, <1>7 DEF InDown, Carries, Settles
<1> QED BY <1>4, <1>5, <1>6, <1>7, CarriesIn

LEMMA CarriedKept ==
    ASSUME IntentTypes, IntentTypes', ListFirst, Carried, [IntentNext]_intentVars
    PROVE  Carried'
<1> SUFFICES ASSUME NEW e \in Devices, e \in online' PROVE CarriedAt(e)'
  BY DEF Carried, CarriedAt, IntentTypes
<1>0. ASSUME NEW d \in Devices PROVE ListFirstAt(d) /\ (d \in online => CarriedAt(d))
  BY DEF ListFirst, ListFirstAt, Carried, CarriedAt
<1>1. CASE UNCHANGED intentVars
  BY <1>0, <1>1 DEF CarriedAt, Carries, Settles, intentVars, device
<1>2. ASSUME NEW d \in Devices, e \in online, Elsewhere(d), UNCHANGED <<kind, done>>, e # d
      PROVE  CarriedAt(e)'
  BY <1>0, <1>2, CarriersStay DEF Elsewhere
<1>3. ASSUME NEW d \in Devices, NEW at \in 1 .. MaxStamp, NEW seq \in 0 .. MaxSeq, Write(d, at, seq)
      PROVE  CarriedAt(e)'
  <2>1. Elsewhere(d) /\ UNCHANGED <<kind, done, online>>
    BY <1>3, WriteGives DEF OnDevice
  <2>2. CASE e = d
    <3>1. PICK v \in Values : /\ local'[d] = [base |-> local[d].base, proposal |-> v]
                              /\ asked'[d] = Append(asked[d], Asking("write", v, "override"))
      BY <1>3, <2>1, <2>2, WriteGives
    <3> DEFINE r == Asking("write", v, "override")
    <3>2. r \in Asks
      BY Asks_ DEF AskOps, Merges
    <3>3. r.live /\ r.op # "list" /\ r.v = v
      BY DEF Asking
    <3> HIDE DEF r
    <3>4. asked[d] \in Seq(Asks)
      BY DEF IntentTypes
    <3>5. asked'[d] = Append(asked[d], r)
      BY <3>1 DEF r
    <3>6. Len(asked[d]) + 1 \in DOMAIN asked'[d] /\ asked'[d][Len(asked[d]) + 1] = r
      BY <3>2, <3>4, <3>5, SeqAppend
    <3>7. local'[d].proposal = v
      BY <3>1
    <3> QED BY <2>2, <3>3, <3>6, <3>7 DEF CarriedAt, Carries
  <2> QED BY <1>2, <2>1, <2>2
<1>4. ASSUME NEW d \in Devices, Disconnect(d) PROVE CarriedAt(e)'
  <2>1. /\ done' \in Seq(Ends) /\ Len(done') = Len(done)
        /\ \A n \in DOMAIN done : /\ done'[n].to = done[n].to /\ done'[n].op = done[n].op
                                  /\ done'[n].merge = done[n].merge /\ done'[n].v = done[n].v
                                  /\ done'[n].live <=> done[n].live /\ done[n].to # d
        /\ \A i \in Devices : i # d => /\ local'[i] = local[i] /\ down'[i] = down[i]
                                       /\ phase'[i] = phase[i] /\ asked'[i] = asked[i]
        /\ online' = online \ {d} /\ kind' = kind
    BY <1>4, DisconnectGives
  <2>2. e # d /\ e \in online /\ CarriedAt(e)
    BY <1>0, <2>1
  <2>3. done \in Seq(Ends) /\ DOMAIN done' = DOMAIN done
    BY <2>1 DEF IntentTypes
  <2>4. ASSUME NEW n \in DOMAIN done, done[n].to = e PROVE done'[n].live = done[n].live
    <3>1. done[n].live \in BOOLEAN /\ done'[n].live \in BOOLEAN
      <4>1. done[n] \in Ends /\ done'[n] \in Ends
        BY <2>1, <2>3
      <4> QED BY <4>1, EndFields
    <3> QED BY <2>1, <2>2, <2>4, <3>1
  <2> QED BY <2>1, <2>2, <2>3, <2>4, CarriersStay
<1>5. ASSUME NEW d \in Devices, Connect(d) PROVE CarriedAt(e)'
  <2>1. /\ Elsewhere(d) /\ phase'[d] = "refreshing-access" /\ online' = online \cup {d}
        /\ UNCHANGED <<kind, done>>
    BY <1>5, ConnectGives DEF OnDevice
  <2>2. CASE e = d
    BY <2>1, <2>2 DEF CarriedAt
  <2> QED BY <1>2, <2>1, <2>2
<1>6. ASSUME NEW d \in Devices, Receive(d) PROVE CarriedAt(e)'
  <2>1. Elsewhere(d) /\ UNCHANGED <<kind, done, online>>
    BY <1>6, ReceiveEventGives, ReceiveWrittenGives, ReceiveListGives, ReceiveFlushedGives
       DEF Receive, OnDevice
  <2>2. CASE e = d
    BY <1>0, <1>6, <2>1, <2>2, ReceiveCarried
  <2> QED BY <1>2, <2>1, <2>2
<1>7. ASSUME NEW d \in Devices, NEW n \in DOMAIN asked[d], Serve(d, n) PROVE CarriedAt(e)'
  <2>1. online' = online
    BY <1>7, ServeGives
  <2> QED BY <1>0, <1>7, <2>1, ServeCarried
<1>8. ASSUME NEW n \in DOMAIN done, Publish(n) PROVE CarriedAt(e)'
  <2>1. online' = online
    BY <1>8, PublishGives
  <2> QED BY <1>0, <1>8, <2>1, PublishCarried
<1> QED BY <1>1, <1>3, <1>4, <1>5, <1>6, <1>7, <1>8 DEF IntentNext

\* At rest a connected device has heard of everything and has nothing of its own left.
LEMMA RestsConverged ==
    ASSUME IntentTypes, FollowsOn, Settled, Carried PROVE Converged
<1> SUFFICES ASSUME AtRest, NEW d \in Devices PROVE local[d] = Base(row)
  BY DEF Converged
<1>1. /\ d \in online /\ done = <<>> /\ asked[d] = <<>> /\ down[d] = <<>> /\ phase[d] = "idle"
  BY DEF AtRest
<1>2. parked[d] = <<>>
  BY <1>1 DEF Settled
<1>3. local[d].base = row
  <2>1. Heard(d)
    BY <1>1 DEF Heard, Begun
  <2>2. Tip(d) = local[d].base
    BY <1>1, <1>2 DEF Tip, Before
  <2> QED BY <1>1, <2>1, <2>2 DEF FollowsOn
<1>4. local[d].proposal = None
  <2>1. ~Carries(d)
    BY <1>1 DEF Carries
  <2> QED BY <1>1, <2>1 DEF Carried
<1>5. local[d] = [base |-> local[d].base, proposal |-> local[d].proposal]
  BY LocalFields DEF IntentTypes
<1> QED BY <1>3, <1>4, <1>5 DEF Base

\* If the ends of the jobs reach the coordinator in the order of their commits, then
\* whenever nothing is under way and everybody is connected, every device shows what the
\* server holds and has nothing pending.  With "overtaking" it is false.
THEOREM ConvergedHolds == "overtaking" \notin Admits => (IntentSpec => []Converged)
<1> SUFFICES ASSUME "overtaking" \notin Admits PROVE IntentSpec => []Converged
  OBVIOUS
<1> DEFINE I == /\ IntentTypes /\ CommitsInOrder /\ FollowsOn /\ AnswersRepeat
                /\ Settled /\ ListFirst /\ Carried
<1>1. IntentInit => I
  <2> SUFFICES ASSUME IntentInit PROVE I
    OBVIOUS
  <2>1. IntentTypes
    BY IntentTypesInit
  <2>2. /\ row = Undecided /\ done = <<>>
        /\ \A d \in Devices : /\ asked[d] = <<>> /\ down[d] = <<>> /\ parked[d] = <<>>
                              /\ local[d].base = Undecided /\ local[d].proposal = None
                              /\ phase[d] = "idle" /\ d \in online
    BY DEF IntentInit
  <2>3. CommitsInOrder
    BY <2>2 DEF CommitsInOrder
  <2>4. FollowsOn
    <3>1. \A d \in Devices : Tip(d) = row
      BY <2>2 DEF Tip, Before
    <3> QED BY <2>1, <2>2, <3>1 DEF FollowsOn, IntentTypes
  <2>5. AnswersRepeat
    <3>1. \A d \in Devices : Len(down[d]) = 0
      BY <2>2
    <3> QED BY <2>1, <2>2, <3>1 DEF AnswersRepeat, IntentTypes
  <2>6. Settled /\ ListFirst
    BY <2>2 DEF Settled, ListFirst
  <2>7. Carried
    BY <2>1, <2>2 DEF Carried, IntentTypes
  <2> QED BY <2>1, <2>3, <2>4, <2>5, <2>6, <2>7
<1>2. I /\ [IntentNext]_intentVars => I'
  <2> SUFFICES ASSUME I, [IntentNext]_intentVars PROVE I'
    OBVIOUS
  <2>1. IntentTypes'
    BY IntentTypesKept
  <2>2. CommitsInOrder'
    BY CommitsKept
  <2>3. Settled' /\ ListFirst'
    BY <2>1, SettledKept
  <2>4. Carried'
    BY <2>1, CarriedKept
  <2>5. FollowsOn' /\ AnswersRepeat'
    BY <2>1, <2>2, StreamKept
  <2> QED BY <2>1, <2>2, <2>3, <2>4, <2>5
<1>3. I => Converged
  BY RestsConverged
<1> QED BY <1>1, <1>2, <1>3, PTL DEF IntentSpec
=============================================================================
