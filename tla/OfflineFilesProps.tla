------------------------- MODULE OfflineFilesProps -------------------------
(***************************************************************************)
(* What a reader of an offline file may rely on.                           *)
(***************************************************************************)
EXTENDS OfflineFiles, TLC

\* "active pointer P => referenced generation exists and is complete"
\* (docs/engineering/agent-method.md): behind a complete head every extent is stored in
\* its full length, after any crash and whatever the orphan collection deletes meanwhile.
GenerationComplete ==
  head # None /\ ~Mutating =>
     \A e \in 0 .. ExtentCount(head.size) - 1 : Have(head.gen, e) = ExtentLength(head.size, e)

\* The content a head stands for: its journal applied, grown room zeroed.
Units == [i \in 1 .. head.target |->
            LET e == (i - 1) \div ExtentSize  n == ((i - 1) % ExtentSize) + 1
            IN IF n <= Have(head.gen, e) THEN extents[<<head.gen, e>>][n] ELSE 0]

\* A reader that has pinned a complete generation gets that generation from its first to
\* its last unit: neither a replacement nor a deletion nor the collection takes an extent
\* or a unit of it away before it has finished.
ReadsWhole == \A t \in Tabs :
  job[t].at = "reading" /\ job[t].pinned.op = "none" =>
     /\ head = job[t].pinned
     /\ job[t].got = SubSeq(Units, 1, Len(job[t].got))

ASSUME ContentAssumption == None \notin [units : Seq(Nat), sum : BOOLEAN]

\* Every call is one step on the content of the file: a crash leaves what was before or
\* what comes after, and a checksum never vouches for content other than it was given for.
Contract == INSTANCE FileContract WITH
  file <- IF head = None THEN None ELSE [units |-> Units, sum |-> head.sum]

ImplementsContract == Contract!Spec

Alike == Permutations(Tabs)
=============================================================================
