---------------------------- MODULE OrphanSweep ----------------------------
(***************************************************************************)
(* The orphan sweep of a local store, running beside its publishers.       *)
(*                                                                         *)
(*   PublicationService::sweep  crates/codenoesis-application/src/lib.rs   *)
(*   FilesystemCas::sweep       crates/codenoesis-store-local/src/cas.rs   *)
(*                                                                         *)
(* The sweep takes no lock: between reading the reachable set, listing the *)
(* objects, rechecking one and removing it, publishers move.               *)
(***************************************************************************)
EXTENDS LocalStore

CONSTANT Sweeper    \* processes that sweep

VARIABLES
    sweepPc,    \* the step a sweep is about to take
    reachable,  \* referenced_artifacts, read when the sweep began
    listing,    \* objects of its listing still to be visited
    victim      \* the object its recheck found unreferenced, if any

sweepVars == <<sweepPc, reachable, listing, victim>>
allVars   == <<vars, sweepVars>>

SweepInit ==
    /\ sweepPc = [w \in Sweeper |-> "idle"]
    /\ reachable = [w \in Sweeper |-> {}]
    /\ listing = [w \in Sweeper |-> {}]
    /\ victim = [w \in Sweeper |-> {}]
StoreAndSweepInit == Init /\ SweepInit

Referenced == UNION {Listed(s) : s \in snapshots}

SweepTo(w, step) == sweepPc' = [sweepPc EXCEPT ![w] = step]

EndSweep(w) ==
    /\ SweepTo(w, "idle")
    /\ reachable' = [reachable EXCEPT ![w] = {}]
    /\ listing' = [listing EXCEPT ![w] = {}]
    /\ victim' = [victim EXCEPT ![w] = {}]

\* One stable view of the committed references.
ReadReachable(w) ==
    /\ sweepPc[w] = "idle"
    /\ reachable' = [reachable EXCEPT ![w] = Referenced]
    /\ SweepTo(w, "temps")
    /\ UNCHANGED <<vars, listing, victim>>

\* Mutant: files that no live publisher owns are skipped.
RemoveLiveTemps(w) ==
    /\ sweepPc[w] = "temps"
    /\ temps' = {}
    /\ SweepTo(w, "list")
    /\ UNCHANGED <<objects, durable, debris, metadata, writer, pc, locals,
                   outcome, reachable, listing, victim>>

\* remove_temporary_files: every file in tmp, a live publisher's included.
RemoveTemps(w) ==
    /\ sweepPc[w] = "temps"
    /\ temps' = {}
    /\ debris' = FALSE
    /\ SweepTo(w, "list")
    /\ UNCHANGED <<objects, durable, metadata, writer, pc, locals, outcome,
                   reachable, listing, victim>>

\* object_entries
ListObjects(w) ==
    /\ sweepPc[w] = "list"
    /\ listing' = [listing EXCEPT ![w] = objects]
    /\ SweepTo(w, "visit")
    /\ UNCHANGED <<vars, reachable, victim>>

\* Mutant: neither the view nor the recheck is consulted.
VisitUnchecked(w, a) ==
    /\ sweepPc[w] = "visit"
    /\ a \in listing[w]
    /\ victim' = [victim EXCEPT ![w] = {a}]
    /\ listing' = [listing EXCEPT ![w] = @ \ {a}]
    /\ SweepTo(w, "remove")
    /\ UNCHANGED <<vars, reachable>>

\* One object of the listing: a reachable one, in the view or by the recheck,
\* is verified and kept, and a missing one ends the sweep with missing_object;
\* any other is going to be removed.
Visit(w, a) ==
    /\ sweepPc[w] = "visit"
    /\ a \in listing[w]
    /\ \/ /\ a \in reachable[w] \cup Referenced
          /\ a \in objects
          /\ listing' = [listing EXCEPT ![w] = @ \ {a}]
          /\ UNCHANGED <<sweepPc, reachable, victim>>
       \/ /\ a \in reachable[w] \cup Referenced
          /\ a \notin objects
          /\ EndSweep(w)
       \/ /\ a \notin reachable[w] \cup Referenced
          /\ victim' = [victim EXCEPT ![w] = {a}]
          /\ listing' = [listing EXCEPT ![w] = @ \ {a}]
          /\ SweepTo(w, "remove")
          /\ UNCHANGED reachable
    /\ UNCHANGED vars

\* remove_file; the object may be gone already, which ends the sweep.
RemoveVictim(w) ==
    /\ sweepPc[w] = "remove"
    /\ \/ /\ victim[w] \subseteq objects
          /\ objects' = objects \ victim[w]
          /\ SweepTo(w, "sync")
          /\ UNCHANGED <<reachable, listing, victim>>
       \/ /\ ~(victim[w] \subseteq objects)
          /\ EndSweep(w)
          /\ UNCHANGED objects
    /\ UNCHANGED <<durable, temps, debris, metadata, writer, pc, locals, outcome>>

\* sync_directory on the victim's shard.
SyncRemoval(w) ==
    /\ sweepPc[w] = "sync"
    /\ durable' = (durable \ victim[w]) \cup (victim[w] \cap objects)
    /\ victim' = [victim EXCEPT ![w] = {}]
    /\ SweepTo(w, "visit")
    /\ UNCHANGED <<objects, temps, debris, metadata, writer, pc, locals, outcome,
                   reachable, listing>>

SweepDone(w) ==
    /\ sweepPc[w] = "visit"
    /\ listing[w] = {}
    /\ EndSweep(w)
    /\ UNCHANGED vars

\* A filesystem or SQLite call of the sweep fails, or its process is killed.
SweepStops(w) ==
    /\ sweepPc[w] # "idle"
    /\ EndSweep(w)
    /\ UNCHANGED vars

SweepStep(w) ==
    \/ RemoveTemps(w) \/ ListObjects(w) \/ (\E a \in Artifact : Visit(w, a))
    \/ RemoveVictim(w) \/ SyncRemoval(w) \/ SweepDone(w)

-----------------------------------------------------------------------------
(* Specifications *)

PublishersIdle == \A p \in Publisher : pc[p] = "idle"
SweepersIdle   == \A w \in Sweeper : sweepPc[w] = "idle"

SweepNext ==
    \/ Next /\ UNCHANGED sweepVars
    \/ \E w \in Sweeper : ReadReachable(w) \/ SweepStep(w) \/ SweepStops(w)

\* The code as it is: nothing keeps a sweep and a publication apart.
SweepSpec == StoreAndSweepInit /\ [][SweepNext]_allVars

ExclusiveNext ==
    \/ SweepersIdle /\ Next /\ UNCHANGED sweepVars
    \/ \E w \in Sweeper :
          \/ PublishersIdle /\ ReadReachable(w)
          \/ SweepStep(w) \/ SweepStops(w)

\* An operator who sweeps only while nothing publishes, and publishes only
\* while nothing sweeps.
ExclusiveSweepSpec == StoreAndSweepInit /\ [][ExclusiveNext]_allVars

\* As there, and a publisher that is not killed takes its next step.
FairExclusiveSpec == ExclusiveSweepSpec /\ \A p \in Publisher : WF_vars(Step(p))

-----------------------------------------------------------------------------
(* Properties *)

\* Cleanup never removes an object that a committed snapshot references: no
\* step takes such an object out of the object tree.
NeverRemovesReferenced ==
    [][Referenced \cap objects \subseteq objects']_allVars

\* A sweep that reaches its end leaves exactly the referenced objects and no
\* temporary file: every orphan of a failed or killed publication is gone.
SweepLeavesNoOrphans ==
    [][\A w \in Sweeper :
          SweepDone(w) => objects = Referenced /\ ~debris /\ temps = {}]_allVars

=============================================================================
