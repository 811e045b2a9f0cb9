--------------------------- MODULE MCOrderWorkflow ---------------------------
(* Small instances of OrderWorkflow for TLC. *)
EXTENDS OrderWorkflow, TLC

CONSTANTS ana, bruno, r1, r2, r3

\* ana asks for orders and decides nothing; bruno approves up to 1 and may
\* own orders too.
RoleOf == (ana :> "requester") @@ (bruno :> "approver")
LimitOf == (ana :> 0) @@ (bruno :> 1)

\* Every process runs the class as it stands; or r1 is served by one that does,
\* and the others by processes whose class maps what the migration creates.
AsBuilt == [r \in Request |-> MappedAttributes]
Mixed == (r1 :> MappedAttributes) @@ (r2 :> MigratedColumns) @@ (r3 :> MigratedColumns)

=============================================================================
