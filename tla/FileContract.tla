---------------------------- MODULE FileContract ----------------------------
(***************************************************************************)
(* What ExtentFileStore promises of one logical file: every call takes     *)
(* effect in one step, whatever crashes in the middle of it; only writing  *)
(* in place goes extent by extent, and only after the checksum is gone.    *)
(***************************************************************************)
EXTENDS Naturals, Sequences

CONSTANTS Stamps,  \* what a call can fill units with; 0 is a fresh, zeroed unit
          MaxSize, \* bound: units of a file
          None

VARIABLE file  \* None, or its units and whether its checksum vouches for them

Init == file = None

\* replace: the whole content at once.
Publish == \E s \in Stamps, n \in 0 .. MaxSize, sum \in BOOLEAN :
              file' = [units |-> [i \in 1 .. n |-> s], sum |-> sum]

Remove == file # None /\ file' = None

Create == file = None /\ file' = [units |-> <<>>, sum |-> FALSE]

\* grow and shrink: what both sizes have in common stays, the rest is zero.
Resize == /\ file # None
          /\ \E n \in 0 .. MaxSize :
                file' = [units |-> [i \in 1 .. n |-> IF i \in DOMAIN file.units
                                                     THEN file.units[i] ELSE 0],
                         sum |-> FALSE]

Disavow == file # None /\ file' = [file EXCEPT !.sum = FALSE]

Overwrite == /\ file # None /\ ~file.sum
             /\ \E s \in Stamps, a, b \in DOMAIN file.units :
                   file' = [file EXCEPT !.units =
                              [i \in DOMAIN file.units |-> IF i \in a .. b THEN s ELSE @[i]]]

\* A call that changes nothing, like publishing the same content again, is no step.
Next == file' # file /\ (Publish \/ Remove \/ Create \/ Resize \/ Disavow \/ Overwrite)

Spec == Init /\ [][Next]_file
=============================================================================
