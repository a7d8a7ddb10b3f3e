---------------------------- MODULE MCTreeLayout ----------------------------
(* Instance of TreeLayout for TLC. *)
EXTENDS MCFamilyTreeData, TreeLayout

\* Every way a row can name up to two others as parents, one of them twice
\* included; cycles need two rows.
LineageRows ==
    UNION {{GraphRow(id, f, m, NIL) : f, m \in (ID \ {id}) \cup {NIL}} : id \in ID}
=============================================================================
