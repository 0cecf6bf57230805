------------------------------ MODULE GitObjects ------------------------------
(***************************************************************************)
(* The objects of a Git repository.  SHA-1 is taken to be injective (the   *)
(* code refuses detected collisions), so a body is named by the object id  *)
(* it hashes to; Garbage is a body that hashes to no id in use.            *)
(*                                                                         *)
(*   crates/codenoesis-repository/src/lib.rs                               *)
(***************************************************************************)
EXTENDS Stacks, FiniteSets, Functions

CONSTANTS
    Oid,                \* object ids
    Garbage,            \* a body no object id names
    Absent,             \* no file, no reference
    Kind, Size          \* of every body

Body == Oid \cup {Garbage}

\* A map with the value of one key replaced or added.
Insert(map, key, value) ==
    [k \in DOMAIN map \cup {key} |-> IF k = key THEN value ELSE map[k]]
===============================================================================
