----------------------------- MODULE LocalStore -----------------------------
(***************************************************************************)
(* Snapshot publication into one local store: several `noesis` processes   *)
(* stage the exact-byte artifacts of a snapshot into the content-addressed *)
(* object tree and then advance the project head in one immediate SQLite   *)
(* transaction.                                                            *)
(*                                                                         *)
(*   PublicationService  crates/codenoesis-application/src/lib.rs          *)
(*   FilesystemCas       crates/codenoesis-store-local/src/cas.rs          *)
(*   SqliteMetadataStore crates/codenoesis-store-local/src/sqlite.rs       *)
(*                                                                         *)
(* An object is a whole file under its digest, so only its presence is     *)
(* state.  `objects' is what the running system sees in the directories,   *)
(* `durable' is what a power loss leaves there.                            *)
(***************************************************************************)
EXTENDS Naturals, Sequences

CONSTANTS
    Publisher,      \* processes that publish
    Repository,     \* repository identities, the keys of project_heads
    Snapshot,       \* snapshot ids
    Artifact,       \* artifact ids (BLAKE3 of the bytes)
    ArtifactsOf,    \* ArtifactsOf[s]: the candidate's artifacts, in staging order
    RepositoryOf,   \* RepositoryOf[s]: the repository a snapshot describes
    NoSnapshot,     \* the head of a repository that was never published
    NoPublisher,    \* nobody holds the SQLite write lock
    MaxGeneration   \* largest generation the column holds (i64::MAX)

Listed(s) == {ArtifactsOf[s][i] : i \in 1..Len(ArtifactsOf[s])}

ASSUME ConstantsAssumption ==
    /\ ArtifactsOf \in [Snapshot -> Seq(Artifact)]
    /\ RepositoryOf \in [Snapshot -> Repository]
    /\ NoSnapshot \notin Snapshot
    /\ NoPublisher \notin Publisher
    /\ MaxGeneration \in Nat \ {0}

VARIABLES
    objects,    \* artifacts present in objects/blake3
    durable,    \* artifacts whose directory entry survives a power loss
    temps,      \* publishers whose temporary file is in tmp
    debris,     \* an abandoned temporary file is in tmp
    snapshots,  \* snapshots with committed rows
    head,       \* project_heads.snapshot_id
    generation, \* project_heads.generation, 0 when there is no row
    writer,     \* holder of the SQLite write lock
    pc,         \* the step a publisher is about to take
    candidate,  \* the snapshot it publishes
    expected,   \* the head it read before it started
    ordinal,    \* index of the artifact it stages
    pending,    \* generation its transaction is about to store, then stored
    outcome     \* what its last attempt reported

cas      == <<objects, durable, temps, debris>>
metadata == <<snapshots, head, generation>>
locals   == <<candidate, expected, ordinal, pending>>
vars     == <<objects, durable, temps, debris, snapshots, head, generation,
              writer, pc, candidate, expected, ordinal, pending, outcome>>

InTransaction == {"rows", "head", "commit"}
Staging       == {"stage", "temp", "move", "sync"}
Working       == {"expect", "verify", "reload"} \cup Staging \cup InTransaction

Errors   == {"writer_busy", "head_conflict", "corrupt_metadata",
             "missing_object", "publication_failed"}
Outcomes == Errors \cup {"none", "ok", "crashed"}

Init ==
    /\ objects = {} /\ durable = {}
    /\ temps = {} /\ debris = FALSE
    /\ snapshots = {}
    /\ head = [r \in Repository |-> NoSnapshot]
    /\ generation = [r \in Repository |-> 0]
    /\ writer = NoPublisher
    /\ pc = [p \in Publisher |-> "idle"]
    /\ candidate = [p \in Publisher |-> NoSnapshot]
    /\ expected = [p \in Publisher |-> NoSnapshot]
    /\ ordinal = [p \in Publisher |-> 1]
    /\ pending = [p \in Publisher |-> 0]
    /\ outcome = [p \in Publisher |-> "none"]

-----------------------------------------------------------------------------
(* Helpers *)

Goto(p, step) == pc' = [pc EXCEPT ![p] = step]

\* The attempt of p ends and reports o: its locals are gone and an open
\* transaction rolls back.
Finish(p, o) ==
    /\ Goto(p, "idle")
    /\ outcome' = [outcome EXCEPT ![p] = o]
    /\ writer' = IF writer = p THEN NoPublisher ELSE writer
    /\ candidate' = [candidate EXCEPT ![p] = NoSnapshot]
    /\ expected' = [expected EXCEPT ![p] = NoSnapshot]
    /\ ordinal' = [ordinal EXCEPT ![p] = 1]
    /\ pending' = [pending EXCEPT ![p] = 0]

Repo(p)      == RepositoryOf[candidate[p]]
Current(p)   == head[Repo(p)]
Staged(p)    == ArtifactsOf[candidate[p]][ordinal[p]]

\* Mutant: the loop over the artifacts stops one short.
AllButLastStaged(p) == ordinal[p] >= Len(ArtifactsOf[candidate[p]])

AllStaged(p) == ordinal[p] > Len(ArtifactsOf[candidate[p]])
NextArtifact(p) == ordinal' = [ordinal EXCEPT ![p] = @ + 1]

\* load_head's CAS half: every object the head of r references is readable.
HeadReadable(r) == head[r] = NoSnapshot \/ Listed(head[r]) \subseteq objects

-----------------------------------------------------------------------------
(* PublicationService::publish *)

\* A command has scanned a commit and starts to publish its snapshot.
Start(p, s) ==
    /\ pc[p] = "idle"
    /\ Goto(p, "expect")
    /\ candidate' = [candidate EXCEPT ![p] = s]
    /\ outcome' = [outcome EXCEPT ![p] = "none"]
    /\ UNCHANGED <<cas, metadata, writer, expected, ordinal, pending>>

\* current_head_id, read outside any transaction.
ReadExpected(p) ==
    /\ pc[p] = "expect"
    /\ expected' = [expected EXCEPT ![p] = Current(p)]
    /\ Goto(p, IF Current(p) = candidate[p] THEN "verify" ELSE "stage")
    /\ UNCHANGED <<cas, metadata, writer, candidate, ordinal, pending, outcome>>

\* Republishing the current head: load_head validates it before anything else.
VerifyCurrent(p) ==
    /\ pc[p] = "verify"
    /\ \/ /\ ~HeadReadable(Repo(p))
          /\ Finish(p, "missing_object")
       \/ /\ HeadReadable(Repo(p))
          /\ Current(p) # candidate[p]
          /\ Finish(p, "corrupt_metadata")
       \/ /\ HeadReadable(Repo(p))
          /\ Current(p) = candidate[p]
          /\ Goto(p, "stage")
          /\ UNCHANGED <<writer, outcome, locals>>
    /\ UNCHANGED <<cas, metadata>>

-----------------------------------------------------------------------------
(* FilesystemCas::stage, once per artifact *)

\* The object exists and verifies, so it is reused as it is; otherwise its
\* shard directory is made and a temporary file follows.
StageLookup(p) ==
    /\ pc[p] = "stage"
    /\ ~AllStaged(p)
    /\ \/ /\ Staged(p) \in objects
          /\ NextArtifact(p)
          /\ UNCHANGED pc
       \/ /\ Staged(p) \notin objects
          /\ Goto(p, "temp")
          /\ UNCHANGED ordinal
    /\ UNCHANGED <<cas, metadata, writer, candidate, expected, pending, outcome>>

\* Create, write and sync the temporary file.
WriteTemp(p) ==
    /\ pc[p] = "temp"
    /\ temps' = temps \cup {p}
    /\ Goto(p, "move")
    /\ UNCHANGED <<objects, durable, debris, metadata, writer, locals, outcome>>

\* verify_path on the temporary file, then persist_noclobber.
MoveTemp(p) ==
    /\ pc[p] = "move"
    /\ temps' = temps \ {p}
    /\ \/ /\ p \notin temps
          /\ \E o \in {"missing_object", "publication_failed"} : Finish(p, o)
          /\ UNCHANGED objects
       \/ /\ p \in temps
          /\ Staged(p) \in objects
          /\ NextArtifact(p)
          /\ Goto(p, "stage")
          /\ UNCHANGED <<objects, writer, candidate, expected, pending, outcome>>
       \/ /\ p \in temps
          /\ Staged(p) \notin objects
          /\ objects' = objects \cup {Staged(p)}
          /\ Goto(p, "sync")
          /\ UNCHANGED <<writer, locals, outcome>>
    /\ UNCHANGED <<durable, debris, metadata>>

\* sync_directory on the shard: its entry for the object, present or removed,
\* is on disk.
SyncShard(p) ==
    /\ pc[p] = "sync"
    /\ durable' = IF Staged(p) \in objects THEN durable \cup {Staged(p)}
                                           ELSE durable \ {Staged(p)}
    /\ NextArtifact(p)
    /\ Goto(p, "stage")
    /\ UNCHANGED <<objects, temps, debris, metadata, writer, candidate,
                   expected, pending, outcome>>

-----------------------------------------------------------------------------
(* SqliteMetadataStore::publish *)

\* Mutant: BEGIN DEFERRED, the write lock is not taken here.
BeginDeferred(p) ==
    /\ pc[p] = "stage"
    /\ AllStaged(p)
    /\ writer' = p
    /\ Goto(p, "rows")
    /\ UNCHANGED <<cas, metadata, locals, outcome>>

\* Mutant: no busy timeout is set to zero, the publisher waits.
BeginWaiting(p) ==
    /\ pc[p] = "stage"
    /\ AllStaged(p)
    /\ writer = NoPublisher
    /\ writer' = p
    /\ Goto(p, "rows")
    /\ UNCHANGED <<cas, metadata, locals, outcome>>

\* BEGIN IMMEDIATE with a busy timeout of zero.
BeginImmediate(p) ==
    /\ pc[p] = "stage"
    /\ AllStaged(p)
    /\ \/ /\ writer = NoPublisher
          /\ writer' = p
          /\ Goto(p, "rows")
          /\ UNCHANGED <<locals, outcome>>
       \/ /\ writer # NoPublisher
          /\ Finish(p, "writer_busy")
    /\ UNCHANGED <<cas, metadata>>

\* insert_candidate: immutable rows, private to the transaction until commit.
InsertCandidate(p) ==
    /\ pc[p] = "rows"
    /\ Goto(p, "head")
    /\ UNCHANGED <<cas, metadata, writer, locals, outcome>>

\* Mutant: the head is written whatever it is by now.
SetHeadBlindly(p) ==
    /\ pc[p] = "head"
    /\ generation[Repo(p)] < MaxGeneration
    /\ pending' = [pending EXCEPT ![p] = generation[Repo(p)] +
                        (IF Current(p) = candidate[p] THEN 0 ELSE 1)]
    /\ Goto(p, "commit")
    /\ UNCHANGED <<cas, metadata, writer, candidate, expected, ordinal, outcome>>

\* compare_and_set_head inside the transaction: a moved head is a conflict,
\* the same snapshot keeps its generation, a different one takes the next.
CompareAndSetHead(p) ==
    /\ pc[p] = "head"
    /\ \/ /\ Current(p) # expected[p]
          /\ Finish(p, "head_conflict")
       \/ /\ Current(p) = expected[p]
          /\ Current(p) = candidate[p]
          /\ pending' = [pending EXCEPT ![p] = generation[Repo(p)]]
          /\ Goto(p, "commit")
          /\ UNCHANGED <<writer, candidate, expected, ordinal, outcome>>
       \/ /\ Current(p) = expected[p]
          /\ Current(p) # candidate[p]
          /\ generation[Repo(p)] < MaxGeneration
          /\ pending' = [pending EXCEPT ![p] = generation[Repo(p)] + 1]
          /\ Goto(p, "commit")
          /\ UNCHANGED <<writer, candidate, expected, ordinal, outcome>>
       \/ /\ Current(p) = expected[p]
          /\ Current(p) # candidate[p]
          /\ generation[Repo(p)] = MaxGeneration
          /\ Finish(p, "publication_failed")
    /\ UNCHANGED <<cas, metadata>>

\* The only visibility point: rows and head appear together.
Commit(p) ==
    /\ pc[p] = "commit"
    /\ snapshots' = snapshots \cup {candidate[p]}
    /\ head' = [head EXCEPT ![Repo(p)] = candidate[p]]
    /\ generation' = [generation EXCEPT ![Repo(p)] = pending[p]]
    /\ writer' = NoPublisher
    /\ Goto(p, "reload")
    /\ UNCHANGED <<cas, locals, outcome>>

\* load_head after the commit: the visible head must be readable and be the
\* one this attempt stored, generation included.
Reload(p) ==
    /\ pc[p] = "reload"
    /\ \/ /\ ~HeadReadable(Repo(p))
          /\ Finish(p, "missing_object")
       \/ /\ HeadReadable(Repo(p))
          /\ \/ Current(p) # candidate[p]
             \/ generation[Repo(p)] # pending[p]
          /\ Finish(p, "corrupt_metadata")
       \/ /\ HeadReadable(Repo(p))
          /\ Current(p) = candidate[p]
          /\ generation[Repo(p)] = pending[p]
          /\ Finish(p, "ok")
    /\ UNCHANGED <<cas, metadata>>

-----------------------------------------------------------------------------
(* Failures *)

\* A filesystem or SQLite call fails: the attempt stops where it is, its
\* temporary file is dropped and its transaction rolls back.  SQLite reports
\* a busy database as writer_busy (map_sqlite), whatever the statement was.
Fail(p) ==
    /\ pc[p] \in Working
    /\ \/ Finish(p, "publication_failed")
       \/ pc[p] \notin {"temp", "move", "sync"} /\ Finish(p, "writer_busy")
    /\ temps' = temps \ {p}
    /\ UNCHANGED <<objects, durable, debris, metadata>>

\* The process is killed: nothing is cleaned up, SQLite rolls back.
Crash(p) ==
    /\ pc[p] \in Working
    /\ Finish(p, "crashed")
    /\ temps' = temps \ {p}
    /\ debris' = (debris \/ p \in temps)
    /\ UNCHANGED <<objects, durable, metadata>>

\* Every process dies and every directory entry that was not synced may be
\* lost, or, if its removal was not synced, be back.
PowerLoss ==
    /\ \E lost \in SUBSET ((objects \ durable) \cup (durable \ objects)) :
          objects' = (objects \cup durable) \ lost
    /\ durable' = objects'
    /\ temps' = {}
    /\ debris' \in {TRUE, FALSE}
    /\ debris' => (debris \/ temps # {})
    /\ writer' = NoPublisher
    /\ pc' = [p \in Publisher |-> "idle"]
    /\ outcome' = [p \in Publisher |->
                      IF pc[p] \in Working THEN "crashed" ELSE outcome[p]]
    /\ candidate' = [p \in Publisher |-> NoSnapshot]
    /\ expected' = [p \in Publisher |-> NoSnapshot]
    /\ ordinal' = [p \in Publisher |-> 1]
    /\ pending' = [p \in Publisher |-> 0]
    /\ UNCHANGED metadata

-----------------------------------------------------------------------------
(* Specifications *)

Step(p) ==
    \/ ReadExpected(p) \/ VerifyCurrent(p)
    \/ StageLookup(p) \/ WriteTemp(p) \/ MoveTemp(p) \/ SyncShard(p)
    \/ BeginImmediate(p) \/ InsertCandidate(p) \/ CompareAndSetHead(p)
    \/ Commit(p) \/ Reload(p)

Publish(p) == (\E s \in Snapshot : Start(p, s)) \/ Step(p)

Next == \E p \in Publisher : Publish(p) \/ Fail(p) \/ Crash(p)

\* Publishers in separate processes that may fail or be killed at any step.
Spec == Init /\ [][Next]_vars

\* A process that is not killed takes its next step.
FairSpec == Spec /\ \A p \in Publisher : WF_vars(Step(p))

-----------------------------------------------------------------------------
(* Refinement mapping to ProjectHead *)

Phase(p) ==
    CASE pc[p] = "idle"   -> "idle"
      [] pc[p] = "expect" -> "asked"
      [] pc[p] = "reload" -> "applied"
      [] OTHER            -> "observed"

Register == INSTANCE ProjectHead WITH
            Client <- Publisher,
            phase <- [p \in Publisher |-> Phase(p)],
            wanted <- candidate,
            observed <- expected

-----------------------------------------------------------------------------
(* Properties *)

\* The shape of the state.
TypeOK ==
    /\ objects \subseteq Artifact /\ durable \subseteq Artifact
    /\ temps \subseteq Publisher /\ debris \in BOOLEAN
    /\ snapshots \subseteq Snapshot
    /\ head \in [Repository -> Snapshot \cup {NoSnapshot}]
    /\ generation \in [Repository -> 0..MaxGeneration]
    /\ writer \in Publisher \cup {NoPublisher}
    /\ pc \in [Publisher -> Working \cup {"idle"}]
    /\ candidate \in [Publisher -> Snapshot \cup {NoSnapshot}]
    /\ expected \in [Publisher -> Snapshot \cup {NoSnapshot}]
    /\ ordinal \in [Publisher -> Nat \ {0}]
    /\ pending \in [Publisher -> 0..MaxGeneration]
    /\ outcome \in [Publisher -> Outcomes]
    /\ \A p \in Publisher : pc[p] \in Working => candidate[p] \in Snapshot

\* Every object a committed snapshot references, head or not, is in the object
\* tree: publish_candidate_with_expected stages the whole list before the
\* transaction that refers to it begins, and nothing it does removes an object.
CommittedContentPresent ==
    \A s \in snapshots : Listed(s) \subseteq objects

\* What stage has promised for an attempt under way: every artifact it has
\* passed is in the object tree, the one it is syncing too, and a transaction
\* begins only when the list is exhausted.
StagedContentPresent ==
    \A p \in Publisher :
        /\ pc[p] \in {"idle", "expect", "verify"} => ordinal[p] = 1
        /\ pc[p] \in {"temp", "move", "sync"} => ~AllStaged(p)
        /\ pc[p] \in Staging \cup InTransaction =>
              \A i \in 1..Len(ArtifactsOf[candidate[p]]) :
                  i < ordinal[p] => ArtifactsOf[candidate[p]][i] \in objects
        /\ pc[p] = "sync" => Staged(p) \in objects
        /\ pc[p] \in InTransaction => AllStaged(p)

\* The same content would be there after a power loss.
CommittedContentDurable ==
    \A s \in snapshots : Listed(s) \subseteq durable

\* The lock and the open transactions agree: at most one publisher is between
\* BEGIN IMMEDIATE and the end of its transaction, and a dead or failed one
\* never keeps the lock.
OneWriter ==
    \A p \in Publisher : pc[p] \in InTransaction <=> writer = p

\* What CompareAndSetHead decided still holds when the transaction commits:
\* the head is the expected one and the generation to store is its successor,
\* or its own when the snapshot is already current.
DecisionStillValid ==
    \A p \in Publisher : pc[p] = "commit" =>
        /\ Current(p) = expected[p]
        /\ pending[p] = IF Current(p) = candidate[p] THEN generation[Repo(p)]
                                                     ELSE generation[Repo(p)] + 1

\* Each head points to committed rows of its own repository, and generation 0
\* is exactly the absence of a head.
HeadIsCommitted ==
    \A r \in Repository :
        /\ head[r] # NoSnapshot => head[r] \in snapshots /\ RepositoryOf[head[r]] = r
        /\ head[r] = NoSnapshot <=> generation[r] = 0

\* A step that moves a head raises its generation by one, and a step that
\* leaves the head alone leaves the generation alone: the generation counts
\* the changes of the head, republication of the current one not included.
GenerationCountsChanges ==
    [][\A r \in Repository :
          generation'[r] = IF head'[r] # head[r] THEN generation[r] + 1
                                                ELSE generation[r]]_vars

\* Publication implements the compare-and-set register of ProjectHead: the
\* whole attempt, from reading the head to reloading it, takes effect at its
\* commit and only while the head it read is still current.
ImplementsProjectHead == Register!Spec

\* An attempt that is not killed ends, whatever the other publishers do: with
\* a busy timeout of zero nobody waits for the write lock.
AttemptsEnd ==
    \A p \in Publisher : pc[p] \in Working ~> pc[p] = "idle"

=============================================================================
