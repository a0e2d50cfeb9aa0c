---------------------------- MODULE AccessGrants ----------------------------
(* The grant algebra of owned resources (src/shared/access/grants.ts): what  *)
(* a grant is worth, how the grants of one principal are kept normalised,    *)
(* and what their holder may issue to somebody else.                         *)

\* the six columns of an effective row
AccessFlags == {"read", "write", "own", "shareRead", "shareWrite", "shareOwn"}

\* a grant is a mode and, unless it is ownership, the right to share it
AccessGrant == {"owner", "readwrite+share", "readwrite", "read+share", "read"}

FlagsOf(grant) ==
    CASE grant = "owner" -> AccessFlags
      [] grant = "readwrite+share" -> {"read", "write", "shareRead", "shareWrite"}
      [] grant = "readwrite" -> {"read", "write"}
      [] grant = "read+share" -> {"read", "shareRead"}
      [] grant = "read" -> {"read"}

GrantDominates(source, other) == FlagsOf(other) \subseteq FlagsOf(source)

\* Ownership collapses the set; of the rest the incomparable grants stay.
NormalizeGrantSet(grants) ==
    IF "owner" \in grants
    THEN {"owner"}
    ELSE {g \in grants : ~\E other \in grants \ {g} : GrantDominates(other, g)}

FlagsOfGrantSet(grants) == UNION {FlagsOf(g) : g \in NormalizeGrantSet(grants)}

MergeIncomingGrant(existing, incoming) == NormalizeGrantSet(existing \union {incoming})

\* What one grant lets its holder issue to somebody else.
CanIssueGrant(source, derived) ==
    \/ source = "owner"
    \/ source = "readwrite+share" /\ derived # "owner"
    \/ source = "read+share" /\ derived \in {"read+share", "read"}

\* Mutant of FlagToIssue: to pass on a mode it is enough to hold it.
FlagToHold(derived) ==
    CASE derived = "owner" -> "shareOwn"
      [] derived \in {"readwrite+share", "readwrite"} -> "write"
      [] derived \in {"read+share", "read"} -> "read"

\* The flag that issuing a grant takes: an effective row no longer says which
\* grants its flags came from.
FlagToIssue(derived) ==
    CASE derived = "owner" -> "shareOwn"
      [] derived \in {"readwrite+share", "readwrite"} -> "shareWrite"
      [] derived \in {"read+share", "read"} -> "shareRead"

=============================================================================
