-------------------------- MODULE LocalStoreProofs --------------------------
(***************************************************************************)
(* Proofs about LocalStore, for any number of publishers, repositories,    *)
(* snapshots and artifacts, and about OrphanSweep: what publication        *)
(* promises survives any number of sweeps that never overlap a             *)
(* publication, and what a sweep promises.                                 *)
(***************************************************************************)
EXTENDS OrphanSweep, TLAPS

USE DEF InTransaction, Staging, Working, Errors, Outcomes

-----------------------------------------------------------------------------
(* Types *)

\* What Finish leaves behind is well typed.
LEMMA FinishType ==
    ASSUME TypeOK, NEW p \in Publisher, NEW o \in Outcomes, Finish(p, o)
    PROVE  /\ writer' \in Publisher \cup {NoPublisher}
           /\ pc' \in [Publisher -> Working \cup {"idle"}]
           /\ candidate' \in [Publisher -> Snapshot \cup {NoSnapshot}]
           /\ expected' \in [Publisher -> Snapshot \cup {NoSnapshot}]
           /\ ordinal' \in [Publisher -> Nat \ {0}]
           /\ pending' \in [Publisher -> 0..MaxGeneration]
           /\ outcome' \in [Publisher -> Outcomes]
           /\ \A q \in Publisher : pc'[q] \in Working => candidate'[q] \in Snapshot
  BY ConstantsAssumption DEF TypeOK, Finish, Goto

\* The artifact under the ordinal is one of the candidate's.
LEMMA StagedType ==
    ASSUME TypeOK, NEW p \in Publisher, pc[p] \in Working, ~AllStaged(p)
    PROVE  Staged(p) \in Artifact
  BY ConstantsAssumption DEF TypeOK, Staged, AllStaged

\* The repository and the head a working publisher looks at.
LEMMA RepoType ==
    ASSUME TypeOK, NEW p \in Publisher, pc[p] \in Working
    PROVE  /\ candidate[p] \in Snapshot
           /\ Repo(p) \in Repository
           /\ Current(p) \in Snapshot \cup {NoSnapshot}
           /\ generation[Repo(p)] \in 0..MaxGeneration
  BY ConstantsAssumption DEF TypeOK, Repo, Current

\* While an artifact is staged there is one: the part of StagedContentPresent
\* that does not look at the object tree.
OrdinalInRange ==
    \A p \in Publisher : pc[p] \in {"temp", "move", "sync"} => ~AllStaged(p)

\* Each step of a publisher keeps the state well typed.
LEMMA TypeStep ==
    ASSUME TypeOK, OrdinalInRange, [Next]_vars
    PROVE  TypeOK'
<1>1. ASSUME NEW p \in Publisher, NEW s \in Snapshot, Start(p, s) PROVE TypeOK'
  BY <1>1 DEF TypeOK, Start, Goto, cas, metadata
<1>2. ASSUME NEW p \in Publisher, ReadExpected(p) PROVE TypeOK'
  <2>1. candidate[p] \in Snapshot /\ Current(p) \in Snapshot \cup {NoSnapshot}
    BY <1>2, RepoType DEF ReadExpected
  <2> QED
    BY <1>2, <2>1 DEF TypeOK, ReadExpected, Goto, cas, metadata
<1>3. ASSUME NEW p \in Publisher, VerifyCurrent(p) PROVE TypeOK'
  <2>1. CASE \E o \in Outcomes : Finish(p, o)
    BY <1>3, <2>1, FinishType, Zenon DEF TypeOK, VerifyCurrent, cas, metadata
  <2>2. CASE Goto(p, "stage") /\ UNCHANGED <<writer, outcome, locals>>
    BY <1>3, <2>2 DEF TypeOK, VerifyCurrent, Goto, cas, metadata, locals
  <2> QED
    BY <1>3, <2>1, <2>2 DEF VerifyCurrent
<1>4. ASSUME NEW p \in Publisher, StageLookup(p) PROVE TypeOK'
  BY <1>4 DEF TypeOK, StageLookup, NextArtifact, Goto, cas, metadata
<1>5. ASSUME NEW p \in Publisher, WriteTemp(p) PROVE TypeOK'
  BY <1>5 DEF TypeOK, WriteTemp, Goto, metadata, locals
<1>6. ASSUME NEW p \in Publisher, MoveTemp(p) PROVE TypeOK'
  <2>1. CASE (\E o \in {"missing_object", "publication_failed"} : Finish(p, o))
             /\ UNCHANGED objects
    BY <1>6, <2>1, FinishType, Zenon DEF TypeOK, MoveTemp, metadata
  <2>2. CASE /\ NextArtifact(p)
             /\ Goto(p, "stage")
             /\ UNCHANGED <<objects, writer, candidate, expected, pending, outcome>>
    BY <1>6, <2>2 DEF TypeOK, MoveTemp, NextArtifact, Goto, metadata
  <2>3. CASE /\ objects' = objects \cup {Staged(p)}
             /\ Goto(p, "sync")
             /\ UNCHANGED <<writer, locals, outcome>>
    <3>1. Staged(p) \in Artifact
      BY <1>6, StagedType DEF OrdinalInRange, MoveTemp
    <3> QED
      BY <1>6, <2>3, <3>1 DEF TypeOK, MoveTemp, Goto, metadata, locals
  <2> QED
    BY <1>6, <2>1, <2>2, <2>3 DEF MoveTemp
<1>7. ASSUME NEW p \in Publisher, SyncShard(p) PROVE TypeOK'
  <2>1. Staged(p) \in Artifact
    BY <1>7, StagedType DEF OrdinalInRange, SyncShard
  <2> QED
    BY <1>7, <2>1 DEF TypeOK, SyncShard, NextArtifact, Goto, metadata
<1>8. ASSUME NEW p \in Publisher, BeginImmediate(p) PROVE TypeOK'
  <2>1. CASE Finish(p, "writer_busy")
    BY <1>8, <2>1, FinishType, Zenon DEF TypeOK, BeginImmediate, cas, metadata
  <2>2. CASE writer' = p /\ Goto(p, "rows") /\ UNCHANGED <<locals, outcome>>
    BY <1>8, <2>2 DEF TypeOK, BeginImmediate, Goto, cas, metadata, locals
  <2> QED
    BY <1>8, <2>1, <2>2 DEF BeginImmediate
<1>9. ASSUME NEW p \in Publisher, InsertCandidate(p) PROVE TypeOK'
  BY <1>9 DEF TypeOK, InsertCandidate, Goto, cas, metadata, locals
<1>10. ASSUME NEW p \in Publisher, CompareAndSetHead(p) PROVE TypeOK'
  <2>1. CASE \E o \in Outcomes : Finish(p, o)
    BY <1>10, <2>1, FinishType, Zenon DEF TypeOK, CompareAndSetHead, cas, metadata
  <2>2. CASE /\ \E g \in 0..MaxGeneration : pending' = [pending EXCEPT ![p] = g]
             /\ Goto(p, "commit")
             /\ UNCHANGED <<writer, candidate, expected, ordinal, outcome>>
    BY <1>10, <2>2, Zenon DEF TypeOK, CompareAndSetHead, Goto, cas, metadata
  <2>3. generation[Repo(p)] \in 0..MaxGeneration
    BY <1>10, RepoType DEF CompareAndSetHead
  <2> QED
    BY <1>10, <2>1, <2>2, <2>3, ConstantsAssumption DEF CompareAndSetHead
<1>11. ASSUME NEW p \in Publisher, Commit(p) PROVE TypeOK'
  <2>1. candidate[p] \in Snapshot /\ Repo(p) \in Repository
    BY <1>11, RepoType DEF Commit
  <2> QED
    BY <1>11, <2>1 DEF TypeOK, Commit, Goto, cas, locals
<1>12. ASSUME NEW p \in Publisher, Reload(p) PROVE TypeOK'
  <2>1. \E o \in Outcomes : Finish(p, o)
    BY <1>12 DEF Reload
  <2> QED
    BY <1>12, <2>1, FinishType, Zenon DEF TypeOK, Reload, cas, metadata
<1>13. ASSUME NEW p \in Publisher, Fail(p) PROVE TypeOK'
  <2>1. \E o \in Outcomes : Finish(p, o)
    BY <1>13 DEF Fail
  <2> QED
    BY <1>13, <2>1, FinishType, Zenon DEF TypeOK, Fail, metadata
<1>14. ASSUME NEW p \in Publisher, Crash(p) PROVE TypeOK'
  BY <1>14, FinishType, Zenon DEF TypeOK, Crash, metadata
<1>15. CASE UNCHANGED vars
  BY <1>15, SMTT(30) DEF TypeOK, vars
<1> QED
  BY <1>1, <1>2, <1>3, <1>4, <1>5, <1>6, <1>7, <1>8, <1>9, <1>10, <1>11,
     <1>12, <1>13, <1>14, <1>15 DEF Next, Publish, Step

\* Each step keeps the ordinal of whoever stages in range.
LEMMA OrdinalStep ==
    ASSUME TypeOK, OrdinalInRange, [Next]_vars
    PROVE  OrdinalInRange'
<1> USE DEF TypeOK, OrdinalInRange, AllStaged, Goto, Finish, locals
<1>1. ASSUME NEW p \in Publisher, NEW s \in Snapshot, Start(p, s) PROVE OrdinalInRange'
  BY <1>1 DEF Start
<1>2. ASSUME NEW p \in Publisher, ReadExpected(p) \/ VerifyCurrent(p) PROVE OrdinalInRange'
  BY <1>2 DEF ReadExpected, VerifyCurrent
<1>3. ASSUME NEW p \in Publisher, StageLookup(p) \/ WriteTemp(p) PROVE OrdinalInRange'
  BY <1>3, Zenon DEF StageLookup, WriteTemp, NextArtifact
<1>4. ASSUME NEW p \in Publisher, MoveTemp(p) \/ SyncShard(p) PROVE OrdinalInRange'
  BY <1>4, ZenonT(60) DEF MoveTemp, SyncShard, NextArtifact
<1>5. ASSUME NEW p \in Publisher, BeginImmediate(p) \/ InsertCandidate(p) PROVE OrdinalInRange'
  BY <1>5, Zenon DEF BeginImmediate, InsertCandidate
<1>6. ASSUME NEW p \in Publisher, CompareAndSetHead(p) \/ Commit(p) \/ Reload(p) PROVE OrdinalInRange'
  BY <1>6, Zenon DEF CompareAndSetHead, Commit, Reload
<1>7. ASSUME NEW p \in Publisher, Fail(p) \/ Crash(p) PROVE OrdinalInRange'
  BY <1>7, Zenon DEF Fail, Crash
<1>8. CASE UNCHANGED vars
  BY <1>8 DEF vars
<1> QED
  BY <1>1, <1>2, <1>3, <1>4, <1>5, <1>6, <1>7, <1>8, Zenon DEF Next, Publish, Step

-----------------------------------------------------------------------------
(* Staged and committed content *)

\* What StagedContentPresent says of one publisher.
StagedBy(q) ==
    /\ pc[q] \in {"idle", "expect", "verify"} => ordinal[q] = 1
    /\ pc[q] \in {"temp", "move", "sync"} => ~AllStaged(q)
    /\ pc[q] \in Staging \cup InTransaction =>
          \A i \in 1..Len(ArtifactsOf[candidate[q]]) :
              i < ordinal[q] => ArtifactsOf[candidate[q]][i] \in objects
    /\ pc[q] = "sync" => Staged(q) \in objects
    /\ pc[q] \in InTransaction => AllStaged(q)

\* A publisher that is idle, or that only waits while objects are added,
\* keeps what it has staged.
LEMMA StagedByFrame ==
    ASSUME TypeOK, NEW q \in Publisher, StagedBy(q), objects \subseteq objects',
           \/ pc'[q] = "idle" /\ ordinal'[q] = 1
           \/ /\ pc'[q] = pc[q]
              /\ candidate'[q] = candidate[q]
              /\ ordinal'[q] = ordinal[q]
    PROVE  StagedBy(q)'
  BY DEF StagedBy, AllStaged, Staged

\* No step of a publisher removes an object, and each step keeps the staged
\* prefix of every publisher.
LEMMA StagedStep ==
    ASSUME TypeOK, StagedContentPresent, [Next]_vars
    PROVE  objects \subseteq objects' /\ StagedContentPresent'
<1> SUFFICES objects \subseteq objects' /\ \A q \in Publisher : StagedBy(q)'
  BY DEF StagedContentPresent, StagedBy
<1>a. \A q \in Publisher : StagedBy(q)
  BY DEF StagedContentPresent, StagedBy
<1>b. ASSUME NEW p \in Publisher, NEW o \in Outcomes, Finish(p, o),
             objects \subseteq objects'
      PROVE  \A q \in Publisher : StagedBy(q)'
  <2> TAKE q \in Publisher
  <2>1. \/ pc'[q] = "idle" /\ ordinal'[q] = 1
        \/ pc'[q] = pc[q] /\ candidate'[q] = candidate[q] /\ ordinal'[q] = ordinal[q]
    BY <1>b DEF TypeOK, Finish, Goto
  <2> QED
    BY <1>a, <1>b, <2>1, StagedByFrame
<1>1. ASSUME NEW p \in Publisher, NEW s \in Snapshot, Start(p, s)
      PROVE  objects \subseteq objects' /\ \A q \in Publisher : StagedBy(q)'
  BY <1>a, <1>1, Zenon DEF TypeOK, Start, Goto, StagedBy, AllStaged, Staged, cas
<1>2. ASSUME NEW p \in Publisher, ReadExpected(p)
      PROVE  objects \subseteq objects' /\ \A q \in Publisher : StagedBy(q)'
  BY <1>a, <1>2 DEF TypeOK, ReadExpected, Goto, StagedBy, AllStaged, Staged, cas
<1>3. ASSUME NEW p \in Publisher, VerifyCurrent(p)
      PROVE  objects \subseteq objects' /\ \A q \in Publisher : StagedBy(q)'
  <2>1. CASE \E o \in Outcomes : Finish(p, o)
    BY <1>3, <1>b, <2>1, Zenon DEF VerifyCurrent, cas
  <2>2. CASE Goto(p, "stage") /\ UNCHANGED <<writer, outcome, locals>>
    BY <1>a, <1>3, <2>2
       DEF TypeOK, VerifyCurrent, Goto, StagedBy, AllStaged, Staged, cas, locals
  <2> QED
    BY <1>3, <2>1, <2>2 DEF VerifyCurrent
<1>4. ASSUME NEW p \in Publisher, StageLookup(p)
      PROVE  objects \subseteq objects' /\ \A q \in Publisher : StagedBy(q)'
  <2>1. /\ objects' = objects
        /\ \A q \in Publisher : q # p =>
              pc'[q] = pc[q] /\ candidate'[q] = candidate[q] /\ ordinal'[q] = ordinal[q]
    BY <1>4 DEF TypeOK, StageLookup, NextArtifact, Goto, cas
  <2>2. StagedBy(p)'
    <3>1. CASE Staged(p) \in objects /\ NextArtifact(p) /\ UNCHANGED pc
      BY <1>a, <1>4, <3>1
         DEF TypeOK, StageLookup, NextArtifact, StagedBy, AllStaged, Staged, cas
    <3>2. CASE Goto(p, "temp") /\ UNCHANGED ordinal
      BY <1>a, <1>4, <3>2, Zenon
         DEF TypeOK, StageLookup, Goto, StagedBy, AllStaged, Staged, cas
    <3> QED
      BY <1>4, <3>1, <3>2, Zenon DEF StageLookup
  <2> QED
    BY <1>a, <2>1, <2>2, StagedByFrame, Zenon
<1>5. ASSUME NEW p \in Publisher, WriteTemp(p)
      PROVE  objects \subseteq objects' /\ \A q \in Publisher : StagedBy(q)'
  BY <1>a, <1>5, Zenon DEF TypeOK, WriteTemp, Goto, StagedBy, AllStaged, Staged, locals
<1>6. ASSUME NEW p \in Publisher, MoveTemp(p)
      PROVE  objects \subseteq objects' /\ \A q \in Publisher : StagedBy(q)'
  <2>1. CASE (\E o \in {"missing_object", "publication_failed"} : Finish(p, o))
             /\ UNCHANGED objects
    BY <1>b, <2>1, Zenon
  <2>2. CASE /\ Staged(p) \in objects
             /\ NextArtifact(p)
             /\ Goto(p, "stage")
             /\ UNCHANGED <<objects, writer, candidate, expected, pending, outcome>>
    BY <1>a, <1>6, <2>2, SMTT(30)
       DEF TypeOK, MoveTemp, NextArtifact, Goto, StagedBy, AllStaged, Staged
  <2>3. CASE /\ objects' = objects \cup {Staged(p)}
             /\ Goto(p, "sync")
             /\ UNCHANGED <<writer, locals, outcome>>
    BY <1>a, <1>6, <2>3, Zenon
       DEF TypeOK, MoveTemp, Goto, StagedBy, AllStaged, Staged, locals
  <2> QED
    BY <1>6, <2>1, <2>2, <2>3, Zenon DEF MoveTemp
<1>7. ASSUME NEW p \in Publisher, SyncShard(p)
      PROVE  objects \subseteq objects' /\ \A q \in Publisher : StagedBy(q)'
  BY <1>a, <1>7, SMTT(30)
     DEF TypeOK, SyncShard, NextArtifact, Goto, StagedBy, AllStaged, Staged
<1>8. ASSUME NEW p \in Publisher, BeginImmediate(p)
      PROVE  objects \subseteq objects' /\ \A q \in Publisher : StagedBy(q)'
  <2>1. CASE Finish(p, "writer_busy")
    BY <1>8, <1>b, <2>1, SMTT(30) DEF BeginImmediate, cas
  <2>2. CASE writer' = p /\ Goto(p, "rows") /\ UNCHANGED <<locals, outcome>>
    BY <1>a, <1>8, <2>2, Zenon
       DEF TypeOK, BeginImmediate, Goto, StagedBy, AllStaged, Staged, cas, locals
  <2> QED
    BY <1>8, <2>1, <2>2 DEF BeginImmediate
<1>9. ASSUME NEW p \in Publisher, InsertCandidate(p)
      PROVE  objects \subseteq objects' /\ \A q \in Publisher : StagedBy(q)'
  BY <1>a, <1>9, Zenon
     DEF TypeOK, InsertCandidate, Goto, StagedBy, AllStaged, Staged, cas, locals
<1>10. ASSUME NEW p \in Publisher, CompareAndSetHead(p)
       PROVE  objects \subseteq objects' /\ \A q \in Publisher : StagedBy(q)'
  <2>1. CASE \E o \in Outcomes : Finish(p, o)
    BY <1>10, <1>b, <2>1, Zenon DEF CompareAndSetHead, cas
  <2>2. CASE Goto(p, "commit")
             /\ UNCHANGED <<writer, candidate, expected, ordinal, outcome>>
    BY <1>a, <1>10, <2>2, Zenon
       DEF TypeOK, CompareAndSetHead, Goto, StagedBy, AllStaged, Staged, cas
  <2> QED
    BY <1>10, <2>1, <2>2, Zenon DEF CompareAndSetHead
<1>11. ASSUME NEW p \in Publisher, Commit(p)
       PROVE  objects \subseteq objects' /\ \A q \in Publisher : StagedBy(q)'
  BY <1>a, <1>11, Zenon DEF TypeOK, Commit, Goto, StagedBy, AllStaged, Staged, cas, locals
<1>12. ASSUME NEW p \in Publisher, Reload(p)
       PROVE  objects \subseteq objects' /\ \A q \in Publisher : StagedBy(q)'
  BY <1>12, <1>b, Zenon DEF Reload, cas
<1>13. ASSUME NEW p \in Publisher, Fail(p) \/ Crash(p)
       PROVE  objects \subseteq objects' /\ \A q \in Publisher : StagedBy(q)'
  BY <1>13, <1>b DEF Fail, Crash
<1>14. CASE UNCHANGED vars
  BY <1>a, <1>14, Zenon DEF vars, StagedBy, AllStaged, Staged
<1> QED
  BY <1>1, <1>2, <1>3, <1>4, <1>5, <1>6, <1>7, <1>8, <1>9, <1>10, <1>11,
     <1>12, <1>13, <1>14 DEF Next, Publish, Step

\* Committed content stays, and a commit adds only content that is staged.
LEMMA CommittedStep ==
    ASSUME TypeOK, StagedContentPresent, CommittedContentPresent, [Next]_vars
    PROVE  CommittedContentPresent'
<1>1. objects \subseteq objects'
  BY StagedStep
<1>2. ASSUME NEW p \in Publisher, Commit(p) PROVE CommittedContentPresent'
  <2>1. Listed(candidate[p]) \subseteq objects
    <3>1. candidate[p] \in Snapshot /\ ordinal[p] \in Nat
      BY <1>2, RepoType, Zenon DEF Commit, TypeOK
    <3>2. Len(ArtifactsOf[candidate[p]]) \in Nat
      BY <3>1, ConstantsAssumption, SMTT(30)
    <3>3. \A i \in 1..Len(ArtifactsOf[candidate[p]]) :
              ArtifactsOf[candidate[p]][i] \in objects
      <4>1. pc[p] \in InTransaction
        BY <1>2 DEF Commit
      <4>2. ordinal[p] > Len(ArtifactsOf[candidate[p]])
        BY <4>1, Zenon DEF StagedContentPresent, AllStaged
      <4>3. \A i \in 1..Len(ArtifactsOf[candidate[p]]) :
                i < ordinal[p] => ArtifactsOf[candidate[p]][i] \in objects
        BY <4>1, Zenon DEF StagedContentPresent
      <4> QED
        BY <3>1, <3>2, <4>2, <4>3
    <3> QED
      BY <3>3 DEF Listed
  <2> QED
    BY <1>1, <1>2, <2>1, Zenon DEF Commit, CommittedContentPresent
<1>3. ASSUME snapshots' = snapshots PROVE CommittedContentPresent'
  BY <1>1, <1>3 DEF CommittedContentPresent
<1> QED
  BY <1>2, <1>3, Zenon DEF Next, Publish, Step, Start, ReadExpected, VerifyCurrent,
     StageLookup, WriteTemp, MoveTemp, SyncShard, BeginImmediate,
     InsertCandidate, CompareAndSetHead, Reload, Fail, Crash, metadata, vars

-----------------------------------------------------------------------------
(* The write lock, the head and its generation *)

\* What DecisionStillValid says of one publisher.
Decided(q) ==
    pc[q] = "commit" =>
        /\ Current(q) = expected[q]
        /\ pending[q] = IF Current(q) = candidate[q] THEN generation[Repo(q)]
                                                     ELSE generation[Repo(q)] + 1

\* A publisher that ends its attempt gives the lock back if it had it.
LEMMA FinishUnlocks ==
    ASSUME TypeOK, OneWriter, NEW p \in Publisher, NEW o \in Outcomes, Finish(p, o)
    PROVE  OneWriter'
  BY ConstantsAssumption, Zenon DEF TypeOK, OneWriter, Finish, Goto

\* Each step keeps the lock and the open transactions in agreement.
LEMMA LockStep ==
    ASSUME TypeOK, OneWriter, [Next]_vars
    PROVE  OneWriter'
<1>1. ASSUME NEW p \in Publisher, NEW s \in Snapshot, Start(p, s) PROVE OneWriter'
  BY <1>1, Zenon DEF TypeOK, OneWriter, Start, Goto
<1>2. ASSUME NEW p \in Publisher, ReadExpected(p) PROVE OneWriter'
  BY <1>2, Zenon DEF TypeOK, OneWriter, ReadExpected, Goto
<1>3. ASSUME NEW p \in Publisher, VerifyCurrent(p) PROVE OneWriter'
  <2>1. CASE Goto(p, "stage") /\ UNCHANGED <<writer, outcome, locals>>
    BY <1>3, <2>1, Zenon DEF TypeOK, OneWriter, VerifyCurrent, Goto
  <2> QED
    BY <1>3, <2>1, FinishUnlocks, Zenon DEF VerifyCurrent
<1>4. ASSUME NEW p \in Publisher, StageLookup(p) PROVE OneWriter'
  BY <1>4, Zenon DEF TypeOK, OneWriter, StageLookup, Goto
<1>5. ASSUME NEW p \in Publisher, WriteTemp(p) \/ SyncShard(p) PROVE OneWriter'
  BY <1>5, Zenon DEF TypeOK, OneWriter, WriteTemp, SyncShard, Goto
<1>6. ASSUME NEW p \in Publisher, MoveTemp(p) PROVE OneWriter'
  <2>1. CASE (Goto(p, "stage") \/ Goto(p, "sync")) /\ UNCHANGED writer
    BY <1>6, <2>1, Zenon DEF TypeOK, OneWriter, MoveTemp, Goto
  <2>2. CASE \E o \in Outcomes : Finish(p, o)
    BY <2>2, FinishUnlocks
  <2> QED
    BY <1>6, <2>1, <2>2, Zenon DEF MoveTemp
<1>7. ASSUME NEW p \in Publisher, BeginImmediate(p) PROVE OneWriter'
  <2>1. CASE writer = NoPublisher /\ writer' = p /\ Goto(p, "rows")
    BY <1>7, <2>1, ConstantsAssumption, Zenon DEF TypeOK, OneWriter, Goto
  <2> QED
    BY <1>7, <2>1, FinishUnlocks DEF BeginImmediate
<1>8. ASSUME NEW p \in Publisher, InsertCandidate(p) PROVE OneWriter'
  BY <1>8, Zenon DEF TypeOK, OneWriter, InsertCandidate, Goto
<1>9. ASSUME NEW p \in Publisher, CompareAndSetHead(p) PROVE OneWriter'
  <2>1. CASE Goto(p, "commit") /\ UNCHANGED writer
    BY <1>9, <2>1, Zenon DEF TypeOK, OneWriter, CompareAndSetHead, Goto
  <2>2. CASE \E o \in Outcomes : Finish(p, o)
    BY <2>2, FinishUnlocks
  <2> QED
    BY <1>9, <2>1, <2>2, Zenon DEF CompareAndSetHead
<1>10. ASSUME NEW p \in Publisher, Commit(p) PROVE OneWriter'
  BY <1>10, ConstantsAssumption, Zenon DEF TypeOK, OneWriter, Commit, Goto
<1>11. ASSUME NEW p \in Publisher, Reload(p) \/ Fail(p) \/ Crash(p) PROVE OneWriter'
  BY <1>11, FinishUnlocks, Zenon DEF Reload, Fail, Crash
<1>12. CASE UNCHANGED vars
  BY <1>12, Zenon DEF OneWriter, vars
<1> QED
  BY <1>1, <1>2, <1>3, <1>4, <1>5, <1>6, <1>7, <1>8, <1>9, <1>10, <1>11, <1>12
     DEF Next, Publish, Step

\* Only a commit changes the rows, the heads and the generations.
LEMMA OnlyCommitChangesMetadata ==
    ASSUME [Next]_vars, \A p \in Publisher : ~Commit(p)
    PROVE  UNCHANGED metadata
  BY Zenon DEF Next, Publish, Step, Start, ReadExpected, VerifyCurrent, StageLookup,
     WriteTemp, MoveTemp, SyncShard, BeginImmediate, InsertCandidate,
     CompareAndSetHead, Reload, Fail, Crash, metadata, vars

\* A publisher about to commit got there by its own compare-and-set, or was
\* there before with the same locals.
LEMMA AboutToCommit ==
    ASSUME TypeOK, [Next]_vars, NEW q \in Publisher, pc'[q] = "commit"
    PROVE  \/ CompareAndSetHead(q)
           \/ /\ pc[q] = "commit"
              /\ candidate'[q] = candidate[q]
              /\ expected'[q] = expected[q]
              /\ pending'[q] = pending[q]
<1>1. CASE UNCHANGED vars
  BY <1>1, Zenon DEF vars
<1>2. ASSUME NEW p \in Publisher, NEW s \in Snapshot, Start(p, s)
      PROVE  /\ pc[q] = "commit" /\ candidate'[q] = candidate[q]
             /\ expected'[q] = expected[q] /\ pending'[q] = pending[q]
  BY <1>2, Zenon DEF TypeOK, Start, Goto
<1>3. ASSUME NEW p \in Publisher, NEW o \in Outcomes, Finish(p, o)
      PROVE  /\ pc[q] = "commit" /\ candidate'[q] = candidate[q]
             /\ expected'[q] = expected[q] /\ pending'[q] = pending[q]
  BY <1>3, Zenon DEF TypeOK, Finish, Goto
<1>4. ASSUME NEW p \in Publisher,
             \/ ReadExpected(p) \/ StageLookup(p) \/ WriteTemp(p) \/ SyncShard(p)
             \/ InsertCandidate(p) \/ Commit(p)
      PROVE  /\ pc[q] = "commit" /\ candidate'[q] = candidate[q]
             /\ expected'[q] = expected[q] /\ pending'[q] = pending[q]
  BY <1>4, Zenon DEF TypeOK, ReadExpected, StageLookup, WriteTemp, SyncShard,
     InsertCandidate, Commit, Goto, locals
<1>5. ASSUME NEW p \in Publisher, VerifyCurrent(p) \/ BeginImmediate(p) \/ MoveTemp(p)
      PROVE  /\ pc[q] = "commit" /\ candidate'[q] = candidate[q]
             /\ expected'[q] = expected[q] /\ pending'[q] = pending[q]
  <2>1. CASE \E o \in Outcomes : Finish(p, o)
    BY <1>3, <2>1, Zenon
  <2>2. CASE /\ Goto(p, "stage") \/ Goto(p, "rows") \/ Goto(p, "sync")
             /\ UNCHANGED <<candidate, expected, pending>>
    BY <2>2, Zenon DEF TypeOK, Goto
  <2> QED
    BY <1>5, <2>1, <2>2, Zenon DEF VerifyCurrent, BeginImmediate, MoveTemp, locals
<1>6. ASSUME NEW p \in Publisher, CompareAndSetHead(p), p # q
      PROVE  /\ pc[q] = "commit" /\ candidate'[q] = candidate[q]
             /\ expected'[q] = expected[q] /\ pending'[q] = pending[q]
  <2>1. CASE \E o \in Outcomes : Finish(p, o)
    BY <1>3, <2>1, Zenon
  <2>2. CASE /\ \E g : pending' = [pending EXCEPT ![p] = g]
             /\ Goto(p, "commit")
             /\ UNCHANGED <<candidate, expected>>
    BY <1>6, <2>2, Zenon DEF TypeOK, Goto
  <2> QED
    BY <1>6, <2>1, <2>2, Zenon DEF CompareAndSetHead
<1>7. ASSUME NEW p \in Publisher, Reload(p) \/ Fail(p) \/ Crash(p)
      PROVE  /\ pc[q] = "commit" /\ candidate'[q] = candidate[q]
             /\ expected'[q] = expected[q] /\ pending'[q] = pending[q]
  BY <1>3, <1>7, Zenon DEF Reload, Fail, Crash
<1> QED
  BY <1>1, <1>2, <1>4, <1>5, <1>6, <1>7, Zenon DEF Next, Publish, Step

\* The decision of compare_and_set_head survives until its commit: the write
\* lock keeps every other commit out.
LEMMA DecisionStep ==
    ASSUME TypeOK, OneWriter, DecisionStillValid, [Next]_vars
    PROVE  DecisionStillValid'
<1> SUFFICES ASSUME NEW q \in Publisher, pc'[q] = "commit"
             PROVE  Decided(q)'
  BY Zenon DEF DecisionStillValid, Decided
<1>1. CASE CompareAndSetHead(q)
  <2>1. /\ Current(q) = expected[q]
        /\ pending' = [pending EXCEPT ![q] =
              IF Current(q) = candidate[q] THEN generation[Repo(q)]
                                           ELSE generation[Repo(q)] + 1]
        /\ UNCHANGED <<candidate, expected, metadata>>
    BY <1>1, Zenon DEF CompareAndSetHead, Finish, Goto, TypeOK
  <2> QED
    BY <2>1, Zenon DEF Decided, Current, Repo, TypeOK, metadata
<1>2. CASE /\ pc[q] = "commit"
           /\ candidate'[q] = candidate[q]
           /\ expected'[q] = expected[q]
           /\ pending'[q] = pending[q]
  <2>1. ASSUME NEW p \in Publisher, Commit(p) PROVE FALSE
    <3>1. writer = p /\ writer = q
      BY <1>2, <2>1, Zenon DEF Commit, OneWriter
    <3> QED
      BY <2>1, <3>1, Zenon DEF Commit, Goto, TypeOK
  <2>2. UNCHANGED metadata
    BY <2>1, OnlyCommitChangesMetadata, SMTT(30)
  <2> QED
    BY <1>2, <2>2, Zenon DEF DecisionStillValid, Decided, Current, Repo, metadata
<1> QED
  BY <1>1, <1>2, AboutToCommit, Zenon

\* What a commit does to the head and the generation of its repository.
LEMMA CommitEffect ==
    ASSUME TypeOK, DecisionStillValid, NEW p \in Publisher, Commit(p)
    PROVE  /\ Repo(p) \in Repository /\ candidate[p] \in Snapshot
           /\ RepositoryOf[candidate[p]] = Repo(p)
           /\ head' = [head EXCEPT ![Repo(p)] = candidate[p]]
           /\ generation' = [generation EXCEPT ![Repo(p)] =
                 IF head[Repo(p)] = candidate[p] THEN @ ELSE @ + 1]
           /\ head[Repo(p)] = expected[p]
           /\ snapshots' = snapshots \cup {candidate[p]}
  BY RepoType, Zenon DEF Commit, DecisionStillValid, Current, Repo, TypeOK

\* Each step keeps every head on committed rows of its repository.
LEMMA HeadStep ==
    ASSUME TypeOK, DecisionStillValid, HeadIsCommitted, [Next]_vars
    PROVE  HeadIsCommitted'
<1>1. ASSUME NEW p \in Publisher, Commit(p) PROVE HeadIsCommitted'
  <2> SUFFICES ASSUME NEW r \in Repository
               PROVE  /\ head'[r] # NoSnapshot =>
                            head'[r] \in snapshots' /\ RepositoryOf[head'[r]] = r
                      /\ head'[r] = NoSnapshot <=> generation'[r] = 0
    BY Zenon DEF HeadIsCommitted
  <2>1. CASE r # Repo(p)
    BY <1>1, <2>1, CommitEffect DEF HeadIsCommitted, TypeOK
  <2>2. CASE r = Repo(p)
    <3>1. head'[r] = candidate[p] /\ candidate[p] # NoSnapshot
      BY <1>1, <2>2, CommitEffect, ConstantsAssumption, SMTT(30) DEF TypeOK
    <3>2. generation'[r] # 0
      <4>1. generation[r] \in Nat
        BY SMTT(30) DEF TypeOK
      <4>2. generation'[r] = IF head[r] = candidate[p] THEN generation[r]
                                                       ELSE generation[r] + 1
        BY <1>1, <2>2, CommitEffect, ZenonT(40) DEF TypeOK
      <4>3. head[r] = candidate[p] => generation[r] # 0
        BY <3>1, SMTT(30) DEF HeadIsCommitted
      <4> QED
        BY <4>1, <4>2, <4>3
    <3> QED
      BY <1>1, <2>2, <3>1, <3>2, CommitEffect, Zenon
  <2> QED
    BY <2>1, <2>2, Zenon
<1>2. ASSUME UNCHANGED metadata PROVE HeadIsCommitted'
  BY <1>2, Zenon DEF HeadIsCommitted, metadata
<1> QED
  BY <1>1, <1>2, OnlyCommitChangesMetadata

-----------------------------------------------------------------------------
(* The theorems *)

\* The inductive invariant: types need the ordinal to stay in range while an
\* artifact is staged, committed content needs the staged prefix, and the head
\* needs the lock that protects the decision.
PublicationInv ==
    /\ TypeOK /\ StagedContentPresent /\ CommittedContentPresent
    /\ OneWriter /\ DecisionStillValid /\ HeadIsCommitted

\* An empty store satisfies it.
LEMMA PublicationInit ==
    ASSUME Init
    PROVE  PublicationInv
<1>1. TypeOK
  <2>1. /\ objects \subseteq Artifact /\ durable \subseteq Artifact
        /\ temps \subseteq Publisher /\ debris \in BOOLEAN
        /\ snapshots \subseteq Snapshot
        /\ writer \in Publisher \cup {NoPublisher}
    BY Zenon DEF Init
  <2>2. /\ head \in [Repository -> Snapshot \cup {NoSnapshot}]
        /\ candidate \in [Publisher -> Snapshot \cup {NoSnapshot}]
        /\ expected \in [Publisher -> Snapshot \cup {NoSnapshot}]
    BY DEF Init
  <2>3. /\ generation \in [Repository -> 0..MaxGeneration]
        /\ ordinal \in [Publisher -> Nat \ {0}]
        /\ pending \in [Publisher -> 0..MaxGeneration]
    BY ConstantsAssumption DEF Init
  <2>4. /\ pc \in [Publisher -> Working \cup {"idle"}]
        /\ outcome \in [Publisher -> Outcomes]
        /\ \A p \in Publisher : pc[p] \in Working => candidate[p] \in Snapshot
    BY SMTT(30) DEF Init
  <2> QED
    BY <2>1, <2>2, <2>3, <2>4, Zenon DEF TypeOK
<1>2. StagedContentPresent /\ DecisionStillValid
  BY Zenon DEF Init, StagedContentPresent, DecisionStillValid
<1>3. CommittedContentPresent /\ OneWriter /\ HeadIsCommitted
  BY ConstantsAssumption
     DEF Init, CommittedContentPresent, OneWriter, HeadIsCommitted
<1> QED
  BY <1>1, <1>2, <1>3 DEF PublicationInv

LEMMA PublicationStep ==
    ASSUME PublicationInv, [Next]_vars
    PROVE  PublicationInv'
<1>1. OrdinalInRange
  BY Zenon DEF PublicationInv, StagedContentPresent, OrdinalInRange
<1> QED
  BY <1>1, TypeStep, StagedStep, CommittedStep, LockStep, DecisionStep, HeadStep
     DEF PublicationInv

\* The inductive invariant holds in every reachable state of publication.
THEOREM PublicationInvariant == Spec => []PublicationInv
<1>1. Init => PublicationInv
  BY PublicationInit
<1> QED
  BY <1>1, PublicationStep, PTL DEF Spec

\* Type correctness of publication.
THEOREM TypeCorrect == Spec => []TypeOK
  BY PublicationInvariant, PTL DEF PublicationInv

\* Every committed snapshot is complete: staging before the transaction
\* (publish_candidate_with_expected) is enough, for any interleaving of any
\* number of publishers, failures and crashes included.
THEOREM ContentPresent == Spec => []CommittedContentPresent
  BY PublicationInvariant, PTL DEF PublicationInv

\* BEGIN IMMEDIATE excludes every other transaction and no failed or killed
\* publisher keeps the lock.
THEOREM LockDiscipline == Spec => []OneWriter
  BY PublicationInvariant, PTL DEF PublicationInv

\* compare_and_set_head decides on a head and a generation that are still
\* current at the commit.
THEOREM DecisionHolds == Spec => []DecisionStillValid
  BY PublicationInvariant, PTL DEF PublicationInv

\* Heads point to committed rows of their repository.
THEOREM HeadSound == Spec => []HeadIsCommitted
  BY PublicationInvariant, PTL DEF PublicationInv

\* The generation counts the changes of the head.
THEOREM GenerationSound == Spec => GenerationCountsChanges
<1>1. PublicationInv /\ [Next]_vars =>
         [\A r \in Repository :
             generation'[r] = IF head'[r] # head[r] THEN generation[r] + 1
                                                   ELSE generation[r]]_vars
  <2> SUFFICES ASSUME PublicationInv, [Next]_vars, NEW r \in Repository
               PROVE  generation'[r] = IF head'[r] # head[r] THEN generation[r] + 1
                                                             ELSE generation[r]
    BY Zenon
  <2>1. ASSUME NEW p \in Publisher, Commit(p)
        PROVE  generation'[r] = IF head'[r] # head[r] THEN generation[r] + 1
                                                      ELSE generation[r]
    BY <2>1, CommitEffect, SMTT(30) DEF PublicationInv, TypeOK
  <2>2. ASSUME UNCHANGED metadata
        PROVE  generation'[r] = IF head'[r] # head[r] THEN generation[r] + 1
                                                      ELSE generation[r]
    BY <2>2, Zenon DEF metadata
  <2> QED
    BY <2>1, <2>2, OnlyCommitChangesMetadata, Zenon
<1> QED
  BY <1>1, PublicationInvariant, PTL DEF Spec, GenerationCountsChanges

-----------------------------------------------------------------------------
(* Refinement *)

\* The end of an attempt, whatever it reports, ends the client's request.
LEMMA FinishEnds ==
    ASSUME TypeOK, NEW p \in Publisher, pc[p] # "idle", NEW o \in Outcomes,
           Finish(p, o), UNCHANGED metadata
    PROVE  Register!End(p)
  BY Zenon DEF TypeOK, Finish, Goto, metadata, Phase, Register!End

\* Each step of publication is a step of the register or leaves it alone.
LEMMA RegisterStep ==
    ASSUME TypeOK, DecisionStillValid, [Next]_vars
    PROVE  [Register!Next]_Register!vars
<1>1. ASSUME NEW p \in Publisher, NEW s \in Snapshot, Start(p, s)
      PROVE  Register!Ask(p, s)
  BY <1>1, Zenon DEF TypeOK, Start, Goto, metadata, Phase, Register!Ask
<1>2. ASSUME NEW p \in Publisher, ReadExpected(p)
      PROVE  Register!Observe(p)
  BY <1>2, Zenon DEF TypeOK, ReadExpected, Goto, metadata, Phase, Current, Repo,
     Register!Observe
<1>3. ASSUME NEW p \in Publisher, Commit(p)
      PROVE  Register!Apply(p)
  BY <1>3, CommitEffect, ZenonT(40) DEF TypeOK, Commit, Goto, locals, Phase, Repo,
     Register!Apply
<1>4. ASSUME NEW p \in Publisher,
             \/ StageLookup(p) \/ WriteTemp(p) \/ SyncShard(p) \/ InsertCandidate(p)
      PROVE  UNCHANGED Register!vars
  BY <1>4 DEF TypeOK, StageLookup, WriteTemp, SyncShard, InsertCandidate, Goto,
     metadata, locals, Phase, Register!vars
<1>5. ASSUME NEW p \in Publisher,
             VerifyCurrent(p) \/ MoveTemp(p) \/ BeginImmediate(p) \/ CompareAndSetHead(p)
      PROVE  Register!End(p) \/ UNCHANGED Register!vars
  <2>1. CASE \E o \in Outcomes : Finish(p, o)
    BY <1>5, <2>1, FinishEnds, Zenon
       DEF VerifyCurrent, MoveTemp, BeginImmediate, CompareAndSetHead
  <2>2. CASE /\ \/ Goto(p, "stage") \/ Goto(p, "rows")
                \/ Goto(p, "sync") \/ Goto(p, "commit")
             /\ UNCHANGED <<candidate, expected>>
    BY <1>5, <2>2, ZenonT(40) DEF TypeOK, VerifyCurrent, MoveTemp, BeginImmediate,
       CompareAndSetHead, Goto, metadata, Phase, Register!vars
  <2> QED
    BY <1>5, <2>1, <2>2, Zenon
       DEF VerifyCurrent, MoveTemp, BeginImmediate, CompareAndSetHead, locals
<1>6. ASSUME NEW p \in Publisher, Reload(p) \/ Fail(p) \/ Crash(p)
      PROVE  Register!End(p)
  BY <1>6, FinishEnds, Zenon DEF Reload, Fail, Crash
<1>7. CASE UNCHANGED vars
  BY <1>7 DEF vars, Phase, Register!vars
<1> QED
  BY <1>1, <1>2, <1>3, <1>4, <1>5, <1>6, <1>7, Zenon
     DEF Next, Publish, Step, Register!Next

\* Publication implements the compare-and-set register.
THEOREM PublicationRefines == Spec => ImplementsProjectHead
<1>1. Init => Register!Init
  BY DEF Init, Phase, Register!Init
<1> QED
  BY <1>1, RegisterStep, PublicationInvariant, PTL
     DEF PublicationInv, Spec, ImplementsProjectHead, Register!Spec


HIDE DEF InTransaction, Staging, Working, Errors, Outcomes

-----------------------------------------------------------------------------
(* Sweeps kept apart from publications: the inductive invariant *)

SweepLabels == {"idle", "temps", "list", "visit", "remove", "sync"}

SweepType ==
    /\ sweepPc \in [Sweeper -> SweepLabels]
    /\ reachable \in [Sweeper -> SUBSET Artifact]
    /\ listing \in [Sweeper -> SUBSET Artifact]
    /\ victim \in [Sweeper -> SUBSET Artifact]

\* What sweep w has established at its label: its view holds nothing but
\* referenced objects, its victim is an orphan, and once it has its listing the
\* objects it has passed are referenced or gone.
Swept(w) ==
    /\ reachable[w] \subseteq Referenced
    /\ victim[w] \cap Referenced = {}
    /\ sweepPc[w] \in {"idle", "temps", "list", "visit"} => victim[w] = {}
    /\ sweepPc[w] \in {"list", "visit", "remove", "sync"} => temps = {} /\ debris = FALSE
    /\ sweepPc[w] \in {"visit", "remove", "sync"} =>
          objects \subseteq Referenced \cup listing[w] \cup victim[w]
    /\ sweepPc[w] = "sync" => objects \cap victim[w] = {}

SweepInv ==
    /\ PublicationInv
    /\ SweepType
    /\ SweepersIdle \/ PublishersIdle
    /\ \A w \in Sweeper : Swept(w)

-----------------------------------------------------------------------------
(* Steps of the publishers, with every sweeper idle *)

\* Committed references are only added to.
LEMMA SnapshotsGrow ==
    ASSUME PublicationInv, [Next]_vars
    PROVE  Referenced \subseteq Referenced'
  <1>1. snapshots \subseteq snapshots'
    BY OnlyCommitChangesMetadata, Zenon DEF Commit, metadata
  <1> QED
    BY <1>1, SMTT(30) DEF Referenced, Listed

LEMMA PublishStep ==
    ASSUME SweepInv, SweepersIdle, [Next]_vars, UNCHANGED sweepVars
    PROVE  SweepInv'
  <1>1. PublicationInv' /\ SweepType' /\ SweepersIdle'
    BY PublicationStep DEF SweepInv, SweepType, SweepersIdle, sweepVars
  <1>2. ASSUME NEW w \in Sweeper
        PROVE  Swept(w)'
    <2>1. sweepPc[w] = "idle" /\ victim[w] = {} /\ reachable[w] \subseteq Referenced
      BY Zenon DEF SweepersIdle, SweepInv, Swept
    <2>2. Referenced \subseteq Referenced'
      BY SnapshotsGrow DEF SweepInv
    <2>3. sweepPc'[w] = "idle" /\ victim'[w] = {} /\ reachable'[w] \subseteq Referenced'
      BY <2>1, <2>2 DEF sweepVars
    <2> QED
      BY <2>3, Zenon DEF Swept
  <1> QED
    BY <1>1, <1>2 DEF SweepInv

-----------------------------------------------------------------------------
(* Steps of the sweepers, with every publisher idle *)

\* What is in the object tree and in tmp is all a sweep touches of the store.
LEMMA SweepKeepsPublication ==
    ASSUME PublicationInv, PublishersIdle, Referenced \subseteq objects',
           UNCHANGED <<metadata, writer, pc, locals, outcome>>,
           objects' \subseteq Artifact, durable' \subseteq Artifact,
           temps' \subseteq Publisher, debris' \in BOOLEAN
    PROVE  PublicationInv' /\ PublishersIdle' /\ Referenced' = Referenced
  <1> USE DEF PublicationInv, metadata, locals
  <1>1. TypeOK'
    BY Zenon DEF TypeOK
  <1>2. StagedContentPresent'
    BY Zenon DEF StagedContentPresent, PublishersIdle, Staging, InTransaction
  <1>3. CommittedContentPresent'
    BY SMTT(30) DEF CommittedContentPresent, Referenced, Listed
  <1>4. OneWriter' /\ DecisionStillValid' /\ HeadIsCommitted'
    BY Zenon DEF OneWriter, DecisionStillValid, HeadIsCommitted, Current, Repo
  <1>5. PublishersIdle' /\ Referenced' = Referenced
    BY Zenon DEF PublishersIdle, Referenced, Listed
  <1> QED
    BY <1>1, <1>2, <1>3, <1>4, <1>5

\* The objects of committed snapshots are there before a step of the sweep.
LEMMA ReferencedPresent ==
    ASSUME PublicationInv
    PROVE  Referenced \subseteq objects /\ Referenced \subseteq Artifact
  BY Zenon DEF PublicationInv, TypeOK, CommittedContentPresent, Referenced

\* A step of w leaves the locals of the other sweepers alone.
LEMMA SweepFrame ==
    ASSUME SweepInv, NEW w \in Sweeper, ReadReachable(w) \/ SweepStep(w) \/ SweepStops(w),
           NEW v \in Sweeper, v # w
    PROVE  /\ sweepPc'[v] = sweepPc[v] /\ reachable'[v] = reachable[v]
           /\ listing'[v] = listing[v] /\ victim'[v] = victim[v]
  BY Zenon DEF SweepInv, SweepType, ReadReachable, SweepStep, SweepStops, RemoveTemps, ListObjects, Visit,
         RemoveVictim, SyncRemoval, SweepDone, EndSweep, SweepTo

\* What a step of the sweep does to the store: publication's variables stay,
\* the object tree loses at most an orphan, tmp is at most emptied.
LEMMA SweepEffect ==
    ASSUME SweepInv, NEW w \in Sweeper, ReadReachable(w) \/ SweepStep(w) \/ SweepStops(w)
    PROVE  /\ UNCHANGED <<metadata, writer, pc, locals, outcome>>
           /\ objects' \subseteq objects /\ Referenced \subseteq objects'
           /\ durable' \subseteq Artifact
           /\ temps' \subseteq temps /\ debris' \in BOOLEAN
           /\ temps = {} => temps' = {}
           /\ debris = FALSE => debris' = FALSE
  <1>0. /\ Referenced \subseteq objects /\ victim[w] \cap Referenced = {} /\ victim[w] \subseteq Artifact
        /\ objects \subseteq Artifact /\ durable \subseteq Artifact /\ debris \in BOOLEAN
    BY ReferencedPresent, Zenon DEF SweepInv, Swept, SweepType, PublicationInv, TypeOK
  <1>1. CASE ReadReachable(w) \/ ListObjects(w) \/ (\E a \in Artifact : Visit(w, a)) \/ SweepDone(w) \/ SweepStops(w)
    BY <1>0, <1>1, Zenon DEF ReadReachable, ListObjects, Visit, SweepDone, SweepStops, vars, metadata, locals
  <1>2. CASE RemoveTemps(w)
    BY <1>0, <1>2, ZenonT(40) DEF RemoveTemps
  <1>3. CASE RemoveVictim(w)
    BY <1>0, <1>3, Zenon DEF RemoveVictim
  <1>4. CASE SyncRemoval(w)
    BY <1>0, <1>4, Zenon DEF SyncRemoval
  <1> QED
    BY <1>1, <1>2, <1>3, <1>4, ZenonT(40) DEF SweepStep

\* What w has established, by the step w takes.
LEMMA OwnSwept ==
    ASSUME SweepInv, NEW w \in Sweeper, ReadReachable(w) \/ SweepStep(w) \/ SweepStops(w),
           Referenced' = Referenced
    PROVE  Swept(w)'
  <1>0. /\ Swept(w) /\ Referenced \subseteq objects /\ SweepType
        /\ \A l : SweepTo(w, l) => sweepPc'[w] = l
        /\ EndSweep(w) => sweepPc'[w] = "idle" /\ reachable'[w] = {} /\ victim'[w] = {}
        /\ UNCHANGED sweepPc => sweepPc'[w] = sweepPc[w]
        /\ UNCHANGED reachable => reachable'[w] = reachable[w]
        /\ UNCHANGED listing => listing'[w] = listing[w]
        /\ UNCHANGED victim => victim'[w] = victim[w]
    BY ReferencedPresent, Zenon DEF SweepInv, SweepType, SweepTo, EndSweep
  <1>1. CASE ReadReachable(w)
    BY <1>0, <1>1, Zenon DEF ReadReachable, Swept, SweepType
  <1>2. CASE RemoveTemps(w)
    BY <1>0, <1>2, Zenon DEF RemoveTemps, Swept
  <1>3. CASE ListObjects(w)
    BY <1>0, <1>3, Zenon DEF ListObjects, Swept, SweepType, vars
  <1>4. ASSUME NEW a \in Artifact, Visit(w, a)
        PROVE  Swept(w)'
    <2>1. UNCHANGED <<objects, temps, debris>> /\ sweepPc[w] = "visit" /\ victim[w] = {} /\ a \in listing[w]
      BY <1>0, <1>4, Zenon DEF Visit, vars, Swept
    <2>2. CASE /\ a \in reachable[w] \cup Referenced
               /\ listing' = [listing EXCEPT ![w] = @ \ {a}] /\ UNCHANGED <<sweepPc, reachable, victim>>
      BY <1>0, <2>1, <2>2, Zenon DEF Swept, SweepType
    <2>3. CASE EndSweep(w)
      BY <1>0, <2>3, Zenon DEF Swept
    <2>4. CASE /\ a \notin reachable[w] \cup Referenced
               /\ victim' = [victim EXCEPT ![w] = {a}] /\ listing' = [listing EXCEPT ![w] = @ \ {a}]
               /\ SweepTo(w, "remove") /\ UNCHANGED reachable
      BY <1>0, <2>1, <2>4, Zenon DEF Swept, SweepType
    <2> QED
      BY <1>4, <2>2, <2>3, <2>4, Zenon DEF Visit
  <1>5. CASE RemoveVictim(w)
    BY <1>0, <1>5, Zenon DEF RemoveVictim, Swept
  <1>6. CASE SyncRemoval(w)
    <2>1. victim'[w] = {} /\ sweepPc'[w] = "visit" /\ reachable'[w] = reachable[w] /\ listing'[w] = listing[w]
          /\ UNCHANGED <<objects, temps, debris>> /\ sweepPc[w] = "sync"
      BY <1>0, <1>6, ZenonT(40) DEF SyncRemoval, SweepType
    <2> QED
      BY <1>0, <2>1, ZenonT(40) DEF Swept
  <1>7. CASE SweepDone(w) \/ SweepStops(w)
    BY <1>0, <1>7, Zenon DEF SweepDone, SweepStops, Swept
  <1> QED
    BY <1>1, <1>2, <1>3, <1>4, <1>5, <1>6, <1>7 DEF SweepStep

LEMMA SweepTypeStep ==
    ASSUME SweepInv, NEW w \in Sweeper, ReadReachable(w) \/ SweepStep(w) \/ SweepStops(w)
    PROVE  SweepType'
  <1>0. SweepType /\ Referenced \subseteq Artifact /\ objects \subseteq Artifact
    BY ReferencedPresent, Zenon DEF SweepInv, PublicationInv, TypeOK
  <1>1. CASE ReadReachable(w) \/ RemoveTemps(w) \/ ListObjects(w)
    BY <1>0, <1>1, Zenon DEF ReadReachable, RemoveTemps, ListObjects, SweepType, SweepLabels, SweepTo
  <1>2. EndSweep(w) => SweepType'
    BY <1>0, Zenon DEF EndSweep, SweepType, SweepLabels, SweepTo
  <1>3. CASE SweepDone(w) \/ SweepStops(w)
    BY <1>2, <1>3, ZenonT(40) DEF SweepDone, SweepStops
  <1>4. ASSUME NEW a \in Artifact, Visit(w, a)
        PROVE  SweepType'
    <2>1. CASE UNCHANGED <<sweepPc, reachable, victim>> /\ listing' = [listing EXCEPT ![w] = @ \ {a}]
      BY <1>0, <2>1, Zenon DEF SweepType
    <2>2. CASE /\ victim' = [victim EXCEPT ![w] = {a}] /\ listing' = [listing EXCEPT ![w] = @ \ {a}]
               /\ SweepTo(w, "remove") /\ UNCHANGED reachable
      BY <1>0, <2>2, Zenon DEF SweepType, SweepLabels, SweepTo
    <2> QED
      BY <1>2, <1>4, <2>1, <2>2, Zenon DEF Visit
  <1>5. CASE RemoveVictim(w)
    <2>1. CASE SweepTo(w, "sync") /\ UNCHANGED <<reachable, listing, victim>>
      BY <1>0, <2>1, Zenon DEF SweepType, SweepLabels, SweepTo
    <2> QED
      BY <1>2, <1>5, <2>1, Zenon DEF RemoveVictim
  <1>6. CASE SyncRemoval(w)
    BY <1>0, <1>6, Zenon DEF SyncRemoval, SweepType, SweepLabels, SweepTo
  <1> QED
    BY <1>1, <1>3, <1>4, <1>5, <1>6, SMTT(30) DEF SweepStep

LEMMA SweeperStep ==
    ASSUME SweepInv, PublishersIdle, NEW w \in Sweeper,
           ReadReachable(w) \/ SweepStep(w) \/ SweepStops(w)
    PROVE  SweepInv'
  <1>1. PublicationInv' /\ PublishersIdle' /\ Referenced' = Referenced
    <2>1. objects \subseteq Artifact /\ temps \subseteq Publisher /\ PublicationInv
      BY Zenon DEF SweepInv, PublicationInv, TypeOK
    <2> QED
      BY <2>1, SweepEffect, SweepKeepsPublication, Zenon
  <1>2. Swept(w)'
    BY <1>1, OwnSwept, SMTT(30)
  <1>3. ASSUME NEW v \in Sweeper, v # w
        PROVE  Swept(v)'
    <2>1. Swept(v)
      BY DEF SweepInv
    <2> QED
      BY <1>1, <1>3, <2>1, SweepFrame, SweepEffect, Zenon DEF Swept
  <1> QED
    BY <1>1, <1>2, <1>3, SweepTypeStep DEF SweepInv

\* A step of the store is one of a publisher with every sweeper idle, or one of
\* a sweeper with every publisher idle.
LEMMA ExclusiveCases ==
    ASSUME SweepInv, ExclusiveNext
    PROVE  \/ SweepersIdle /\ Next /\ UNCHANGED sweepVars
           \/ PublishersIdle /\ \E w \in Sweeper : ReadReachable(w) \/ SweepStep(w) \/ SweepStops(w)
  <1>1. ASSUME NEW w \in Sweeper, SweepStep(w) \/ SweepStops(w)
        PROVE  PublishersIdle
    <2>1. sweepPc[w] # "idle"
      BY <1>1, Zenon DEF SweepStep, SweepStops, RemoveTemps, ListObjects, Visit, RemoveVictim, SyncRemoval, SweepDone
    <2> QED
      BY <2>1, SMTT(30) DEF SweepInv, SweepersIdle
  <1> QED
    BY <1>1 DEF ExclusiveNext

LEMMA ExclusiveStep ==
    ASSUME SweepInv, [ExclusiveNext]_allVars
    PROVE  SweepInv'
  <1>1. CASE UNCHANGED allVars
    <2>1. UNCHANGED vars /\ UNCHANGED sweepVars
      BY <1>1, SMTT(30) DEF allVars
    <2>2. PublicationInv' /\ PublishersIdle' = PublishersIdle /\ Referenced' = Referenced
      BY <2>1, PublicationStep, Zenon DEF SweepInv, PublishersIdle, Referenced, Listed, vars
    <2>3. SweepType' /\ SweepersIdle' = SweepersIdle
      BY <2>1, SMTT(30) DEF SweepInv, SweepType, SweepersIdle, sweepVars
    <2>4. \A w \in Sweeper : Swept(w)'
      BY <2>1, <2>2, Zenon DEF SweepInv, Swept, sweepVars, vars
    <2> QED
      BY <2>2, <2>3, <2>4 DEF SweepInv
  <1>2. CASE ExclusiveNext
    BY <1>2, ExclusiveCases, PublishStep, SweeperStep
  <1> QED
    BY <1>1, <1>2

-----------------------------------------------------------------------------
(* The theorems *)

\* The invariant of publication, and what each sweep has established, hold
\* whenever sweeps and publications are kept apart.
THEOREM SweepInvariant == ExclusiveSweepSpec => []SweepInv
  <1>1. StoreAndSweepInit => SweepInv
    <2>1. Init => PublicationInv /\ PublishersIdle
      BY PublicationInit, Zenon DEF Init, PublishersIdle
    <2>2. Init /\ SweepInit => SweepType /\ \A w \in Sweeper : Swept(w)
      BY DEF Init, SweepInit, SweepType, SweepLabels, Swept
    <2> QED
      BY <2>1, <2>2, SMTT(30) DEF StoreAndSweepInit, SweepInv
  <1> QED
    BY <1>1, ExclusiveStep, PTL DEF ExclusiveSweepSpec

\* No sweep that is kept apart from publication costs a committed snapshot any
\* of its objects, whatever failed or killed publishers left behind before it.
THEOREM ContentSurvivesSweeps == ExclusiveSweepSpec => []CommittedContentPresent
  <1>1. SweepInv => CommittedContentPresent
    BY DEF SweepInv, PublicationInv
  <1> QED
    BY <1>1, SweepInvariant, PTL

\* FilesystemCas::sweep removes orphans only.
THEOREM SweepIsSafe == ExclusiveSweepSpec => NeverRemovesReferenced
  <1>1. SweepInv /\ [ExclusiveNext]_allVars => [Referenced \cap objects \subseteq objects']_allVars
    <2>1. SUFFICES ASSUME SweepInv, ExclusiveNext
                   PROVE  Referenced \cap objects \subseteq objects'
      OBVIOUS
    <2>2. CASE Next
      BY <2>1, <2>2, StagedStep DEF SweepInv, PublicationInv
    <2>3. CASE \E w \in Sweeper : ReadReachable(w) \/ SweepStep(w) \/ SweepStops(w)
      BY <2>1, <2>3, SweepEffect, Zenon
    <2> QED
      BY <2>1, <2>2, <2>3, ExclusiveCases
  <1> QED
    BY <1>1, SweepInvariant, PTL DEF ExclusiveSweepSpec, NeverRemovesReferenced

\* A sweep that comes to its end has removed every orphan and every temporary
\* file, with any number of sweeps at work on the same object tree.
THEOREM SweepIsThorough == ExclusiveSweepSpec => SweepLeavesNoOrphans
  <1>1. SweepInv => \A w \in Sweeper : SweepDone(w) => objects = Referenced /\ ~debris /\ temps = {}
    <2>1. SUFFICES ASSUME SweepInv, NEW w \in Sweeper, SweepDone(w)
                   PROVE  objects = Referenced /\ ~debris /\ temps = {}
      OBVIOUS
    <2>2. Swept(w) /\ sweepPc[w] = "visit" /\ listing[w] = {} /\ Referenced \subseteq objects
      BY <2>1, ReferencedPresent, Zenon DEF SweepInv, SweepDone
    <2> QED
      BY <2>2, Zenon DEF Swept
  <1> QED
    BY <1>1, SweepInvariant, PTL DEF ExclusiveSweepSpec, SweepLeavesNoOrphans

-----------------------------------------------------------------------------
(* Sweeps that are not kept apart *)

\* What publication promises about heads does not look at the object tree.
HeadsInv ==
    TypeOK /\ OrdinalInRange /\ OneWriter /\ DecisionStillValid /\ HeadIsCommitted

\* Any step of a sweep, at any time, leaves publication's own variables alone.
LEMMA AnySweepStep ==
    ASSUME NEW w \in Sweeper, ReadReachable(w) \/ SweepStep(w) \/ SweepStops(w)
    PROVE  /\ UNCHANGED <<metadata, writer, pc, locals, outcome>>
           /\ objects' \subseteq objects /\ durable' \subseteq durable \cup objects
           /\ temps' \subseteq temps /\ debris' \in {debris, FALSE}
  BY Zenon DEF SweepStep, SweepStops, ReadReachable, RemoveTemps, ListObjects, Visit, RemoveVictim,
         SyncRemoval, SweepDone, vars, metadata, locals

LEMMA HeadsStep ==
    ASSUME HeadsInv, [SweepNext]_allVars
    PROVE  HeadsInv' /\ [Register!Next]_Register!vars
  <1>1. CASE [Next]_vars
    BY <1>1, TypeStep, OrdinalStep, LockStep, DecisionStep, HeadStep, RegisterStep DEF HeadsInv
  <1>2. ASSUME NEW w \in Sweeper, ReadReachable(w) \/ SweepStep(w) \/ SweepStops(w)
        PROVE  HeadsInv' /\ UNCHANGED Register!vars
    <2>1. TypeOK'
      BY <1>2, AnySweepStep, Zenon DEF HeadsInv, TypeOK, metadata, locals
    <2>4. UNCHANGED <<metadata, writer, pc, locals, outcome>>
      BY <1>2, AnySweepStep, Zenon
    <2>5. OrdinalInRange'
      BY <2>4, Zenon DEF HeadsInv, OrdinalInRange, AllStaged, metadata, locals
    <2>6. OneWriter'
      BY <2>4, Zenon DEF HeadsInv, OneWriter
    <2>7. DecisionStillValid'
      BY <2>4, Zenon DEF HeadsInv, DecisionStillValid, Current, Repo, metadata, locals
    <2>8. HeadIsCommitted'
      BY <2>4, Zenon DEF HeadsInv, HeadIsCommitted, metadata, locals
    <2>3. UNCHANGED Register!vars
      BY <1>2, AnySweepStep, Zenon DEF metadata, locals, Phase, Register!vars
    <2> QED
      BY <2>1, <2>3, <2>5, <2>6, <2>7, <2>8, SMTT(30) DEF HeadsInv
  <1> QED
    BY <1>1, <1>2 DEF SweepNext, allVars

THEOREM HeadsInvariant == SweepSpec => []HeadsInv
  <1>1. StoreAndSweepInit => HeadsInv
    BY PublicationInit, Zenon DEF StoreAndSweepInit, HeadsInv, PublicationInv, StagedContentPresent, OrdinalInRange
  <1> QED
    BY <1>1, HeadsStep, PTL DEF SweepSpec

\* compare_and_set_head decides on a head and a generation that are current at
\* the commit even when sweeps run at any time, as the code allows.
THEOREM DecisionHoldsBesideSweeps == SweepSpec => []DecisionStillValid
  <1>1. HeadsInv => DecisionStillValid
    BY DEF HeadsInv
  <1> QED
    BY <1>1, HeadsInvariant, PTL

\* Sweeps at any time are invisible in the heads: publication beside them still
\* implements the compare-and-set register.  What an overlapping sweep costs is
\* content, never the order of heads.
THEOREM RefinesBesideSweeps == SweepSpec => ImplementsProjectHead
  <1>1. StoreAndSweepInit => Register!Init
    BY DEF StoreAndSweepInit, Init, Phase, Register!Init
  <1> QED
    BY <1>1, HeadsStep, HeadsInvariant, PTL DEF SweepSpec, ImplementsProjectHead, Register!Spec
=============================================================================
