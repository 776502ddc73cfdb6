--------------------------- MODULE MCJobApproval ---------------------------
(***************************************************************************)
(* Values of the constants of JobApproval for TLC.                         *)
(***************************************************************************)
EXTENDS JobApproval

CONSTANTS a, b, c

\* Three approvers, the submitter among them.
Three  == <<a, b, c>>
\* b leads a, and so is asked twice if a submits.
Led    == [u \in Users |-> IF u = a THEN b ELSE u]
=============================================================================
