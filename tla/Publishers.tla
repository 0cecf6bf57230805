----------------------------- MODULE Publishers -----------------------------
(***************************************************************************)
(* The processes that publish into an output root, for GeneratedDocs and   *)
(* PortableExport.                                                         *)
(***************************************************************************)
CONSTANTS
    Publisher,      \* processes
    Generation,     \* what they publish, one for each snapshot or input graph
    None
=============================================================================
