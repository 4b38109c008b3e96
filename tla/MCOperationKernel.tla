------------------------- MODULE MCOperationKernel -------------------------
(* Instances of OperationKernel for TLC. *)
EXTENDS OperationKernel, TLC

\* "import" reads one file under one lock key and "wide" needs both keys: the
\* extension begins them.  "job" and "job2" are prepared for a worker, on one
\* key each.
MCKindOf ==
  [r \in Requests |-> IF r \in {"job", "job2"} THEN "worker" ELSE "browser"]

MCKeysOf ==
  [r \in Requests |-> CASE r = "wide" -> Keys
                        [] r = "job2" -> Keys \ {"k1"}
                        [] OTHER -> {"k1"}]

MCFileOf == [r \in Requests |-> IF r = "import" THEN "file" ELSE None]

MCLeaseOf == [k \in Kinds |-> IF k = "worker" THEN 1 ELSE 2]

MCLongLease == [k \in Kinds |-> 2]

MCOps == Permutations(Ops)
============================================================================
