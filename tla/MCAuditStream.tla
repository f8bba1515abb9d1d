--------------------------- MODULE MCAuditStream ---------------------------
(***************************************************************************)
(* Instances of AuditStream for TLC: rows about personal data, which have  *)
(* no retention window, between internal ones, which have.                 *)
(***************************************************************************)
EXTENDS AuditStream

Alternating == [r \in Ids |-> IF r % 2 = 0 THEN "pii" ELSE "internal"]
=============================================================================
