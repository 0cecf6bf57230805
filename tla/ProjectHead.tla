---------------------------- MODULE ProjectHead ----------------------------
(***************************************************************************)
(* What publication promises: per repository, one versioned head that      *)
(* changes by compare-and-set.  A client observes the head, asks for a     *)
(* snapshot to replace it, and the request either takes effect at one      *)
(* instant, while the observed head is still current, or never.            *)
(***************************************************************************)
EXTENDS Naturals

CONSTANTS Client, Repository, Snapshot, RepositoryOf, NoSnapshot

VARIABLES
    head,       \* head[r]: the current snapshot of r
    generation, \* generation[r]: how often it changed
    phase,      \* phase[c]: "idle", "asked", "observed" or "applied"
    wanted,     \* wanted[c]: the snapshot client c asks for
    observed    \* observed[c]: the head it saw

vars == <<head, generation, phase, wanted, observed>>

Init ==
    /\ head = [r \in Repository |-> NoSnapshot]
    /\ generation = [r \in Repository |-> 0]
    /\ phase = [c \in Client |-> "idle"]
    /\ wanted = [c \in Client |-> NoSnapshot]
    /\ observed = [c \in Client |-> NoSnapshot]

Ask(c, s) ==
    /\ phase[c] = "idle"
    /\ phase' = [phase EXCEPT ![c] = "asked"]
    /\ wanted' = [wanted EXCEPT ![c] = s]
    /\ UNCHANGED <<head, generation, observed>>

Observe(c) ==
    /\ phase[c] = "asked"
    /\ phase' = [phase EXCEPT ![c] = "observed"]
    /\ observed' = [observed EXCEPT ![c] = head[RepositoryOf[wanted[c]]]]
    /\ UNCHANGED <<head, generation, wanted>>

\* The head is still the observed one; asking for the current snapshot again
\* changes nothing.
Apply(c) ==
    LET r == RepositoryOf[wanted[c]]
    IN  /\ phase[c] = "observed"
        /\ head[r] = observed[c]
        /\ phase' = [phase EXCEPT ![c] = "applied"]
        /\ head' = [head EXCEPT ![r] = wanted[c]]
        /\ generation' = [generation EXCEPT ![r] =
                             IF head[r] = wanted[c] THEN @ ELSE @ + 1]
        /\ UNCHANGED <<wanted, observed>>

\* The client gets its answer, or gives up, or dies: the head stays.
End(c) ==
    /\ phase[c] # "idle"
    /\ phase' = [phase EXCEPT ![c] = "idle"]
    /\ wanted' = [wanted EXCEPT ![c] = NoSnapshot]
    /\ observed' = [observed EXCEPT ![c] = NoSnapshot]
    /\ UNCHANGED <<head, generation>>

\* All clients die at once.
EndAll ==
    /\ phase' = [c \in Client |-> "idle"]
    /\ wanted' = [c \in Client |-> NoSnapshot]
    /\ observed' = [c \in Client |-> NoSnapshot]
    /\ UNCHANGED <<head, generation>>

Next ==
    \/ \E c \in Client :
          \/ \E s \in Snapshot : Ask(c, s)
          \/ Observe(c) \/ Apply(c) \/ End(c)
    \/ EndAll

Spec == Init /\ [][Next]_vars

=============================================================================
