--------------------------- MODULE RepositoryProofs ---------------------------
(***************************************************************************)
(* Proofs about GitAcquisition: for every repository, every sequence of    *)
(* changes other processes make to it meanwhile, and every budget,         *)
(*                                                                         *)
(*   - the objects that are read are the objects their ids name;           *)
(*   - an accepted scan lists exactly the files of one commit, in order;   *)
(*   - it used no byte of a pack that had changed;                         *)
(*   - its symlinks lead inside the commit.                                *)
(*                                                                         *)
(* What the object database keeps is proved in PackedObjectsProofs, what   *)
(* the walk keeps in TreeWalkProofs; here the scan calls the one and then  *)
(* the other.                                                              *)
(***************************************************************************)
EXTENDS GitAcquisition, PackedObjectsProofs, TreeWalkProofs

\* What each phase knows of the read under way.
Stage ==
    /\ phase \in Unresolved \cup Asking \cup {"walk", "verify", "done", "failed"}
    /\ phase = "opening" => reply = Idle \/ reply.status = "error"
    /\ phase \notin {"opening", "reading", "failed"} => reply = Idle
    /\ phase = "reading" => request.oid = want.oid
    /\ options.at \in Oid \cup {Absent}
    /\ looseMain \in Oid \cup {Absent} /\ packedMain \in Oid \cup {Absent}

\* Bytes of a changed pair are answered by an error, or the pair is still to be
\* verified.
Disturbance ==
    /\ phase # "failed" => Watched
    /\ phase = "verify" => (dirty => Changed(unverified))
    /\ phase = "done" => ~dirty

\* Each reference names a commit main has named, and so does the commit, once it is
\* bound.
Bound ==
    /\ looseMain # Absent => looseMain \in mains
    /\ packedMain # Absent /\ (looseMain = Absent \/ phase = "packed_main") => packedMain \in mains
    /\ phase \in {"loose_main", "packed_main"} => options.at = Absent
    /\ phase \in Asking \cup {"walk", "verify", "done"} =>
         commit \in (IF options.at = Absent THEN mains ELSE {options.at})

\* In the phases verify and done nothing is left to visit.
Finished == phase \in {"verify", "done"} => walk = <<>>

\* The inductive invariant of a scan.
RepositoryInv == Machine /\ Stage /\ Disturbance /\ Bound /\ Walks /\ Roams /\ Finished

-----------------------------------------------------------------------------
(* Frames *)

\* The object database is left alone.
LEMMA DatabaseFrame ==
  ASSUME Machine, UNCHANGED packedVars
  PROVE  Machine' /\ (Watched => Watched') /\ (Changed(unverified) => Changed(unverified)')
<1>1. /\ UNCHANGED <<layout, cache, loose, listed, opened, packs, tasks, values, request, reply>>
      /\ UNCHANGED <<pair, dirty, unverified>>
  BY DEF packedVars
<1>2. Machine'
  BY <1>1, MachineFrame
<1>3. Watched => Watched'
  BY <1>1, WatchedFrame
<1>4. Changed(unverified) => Changed(unverified)'
  BY <1>1, Zenon DEF Changed
<1> QED
  BY <1>2, <1>3, <1>4, ZenonT(40)

\* Nothing of the walk changes.
LEMMA WalkFrame ==
  ASSUME Walks, Roams,
         UNCHANGED <<options, commit, want, walk, paths, files, linkEntries, symlinks, following>>,
         \/ phase' = phase
         \/ phase \in Asking /\ phase' \in Asking
         \/ phase \in Unresolved /\ phase' \in Unresolved
         \/ phase \in {"walk", "verify"} /\ phase' \in {"verify", "done"}
         \/ phase' = "failed"
  PROVE  Walks' /\ Roams'
<1>1. Roams'
  BY Zenon DEF Roams, Asking, Unresolved
<1>2. CASE phase' = "failed"
  BY <1>1, <1>2, WalksFailed, Zenon
<1>3. CASE phase' # "failed"
  <2>1. /\ phase # "failed" /\ (phase' \in Asking <=> phase \in Asking)
        /\ (phase' \in Unresolved <=> phase \in Unresolved)
    BY <1>3, Zenon DEF Asking, Unresolved
  <2> QED BY <1>1, <1>3, <2>1, WalksFrame, ZenonT(40)
<1> QED
  BY <1>2, <1>3, SMTT(30)

\* The commit and the references stay as they are.
LEMMA BoundFrame ==
  ASSUME Bound, UNCHANGED <<options, looseMain, packedMain, mains, commit>>,
         phase' \notin {"loose_main", "packed_main"},
         phase' \in Unresolved \/ phase' = "failed" \/ phase \in Asking \cup {"walk", "verify", "done"}
  PROVE  Bound'
  BY Zenon DEF Bound, Unresolved, Asking

-----------------------------------------------------------------------------
(* The steps *)

\* Git at work beside the scan, which it does not wait for.
LEMMA EnvironmentKeeps ==
  ASSUME GitAssumption, PackedAssumption, RepositoryInv, Environment
  PROVE  RepositoryInv'
<1>1. UNCHANGED <<options, phase, commit, want, walk, paths, files, linkEntries, symlinks, following>>
  BY Zenon DEF Environment, UpdateMain, PackRefs, Repack, Change, state
<1>2. UNCHANGED packedVars \/ Repacking
  BY Zenon DEF Environment, UpdateMain, PackRefs, Repack
<1>3. /\ Machine' /\ UNCHANGED <<reply, request, dirty>>
      /\ Watched => Watched' /\ (Changed(unverified) => Changed(unverified)')
  <2>1. CASE UNCHANGED packedVars
    <3>1. UNCHANGED <<reply, request, dirty>>
      BY <2>1, Zenon DEF packedVars
    <3> QED BY <2>1, <3>1, DatabaseFrame, ZenonT(60) DEF RepositoryInv
  <2>2. CASE Repacking
    <3>1. UNCHANGED <<reply, request, dirty>>
      BY <2>2, Zenon DEF Repacking, WriteNewPack, RemoveOldPack, PruneLoose, RewritePack, OnlyFiles
    <3> QED BY <2>2, <3>1, MachineRepacking, WatchedRepacking, ZenonT(60) DEF RepositoryInv
  <2> QED BY <1>2, <2>1, <2>2, Zenon
<1>4. Walks' /\ Roams' /\ Finished'
  BY <1>1, WalkFrame, Zenon DEF RepositoryInv, Finished
<1>5. Disturbance'
  BY <1>1, <1>3, ZenonT(60) DEF RepositoryInv, Disturbance
<1>6. /\ looseMain' \in Oid \cup {Absent} /\ packedMain' \in Oid \cup {Absent}
      /\ Bound'
  <2>0. Stage /\ Bound
    BY Zenon DEF RepositoryInv
  <2>1. CASE UNCHANGED <<looseMain, packedMain, mains>>
    BY <1>1, <2>0, <2>1, Zenon DEF Stage, Bound
  <2>2. ASSUME NEW c \in Commit, UpdateMain(c)
        PROVE  looseMain' \in Oid /\ packedMain' = packedMain /\ Bound'
    <3>1. looseMain' = c /\ mains' = mains \cup {c} /\ packedMain' = packedMain /\ c \in Oid /\ c # Absent
      BY <2>2, Zenon DEF UpdateMain, GitAssumption, PackedAssumption
    <3> QED BY <1>1, <2>0, <3>1, Zenon DEF Bound
  <2>3. CASE PackRefs
    BY <1>1, <2>0, <2>3, ZenonT(40) DEF PackRefs, Stage, Bound
  <2> QED BY <2>0, <2>1, <2>2, <2>3, ZenonT(60) DEF Environment, Repack, Stage
<1>7. Stage'
  BY <1>1, <1>3, <1>6, ZenonT(60) DEF RepositoryInv, Stage
<1> QED
  BY <1>3, <1>4, <1>5, <1>6, <1>7, ZenonT(40) DEF RepositoryInv

\* Up to the open object database.
LEMMA OpeningKeeps ==
  ASSUME PackedAssumption, RepositoryInv, ValidateShape \/ OpenDatabase \/ OpenPacks \/ OpenFailed
  PROVE  RepositoryInv'
<1>1. /\ UNCHANGED <<options, looseMain, packedMain, mains, commit, want, walk>>
      /\ UNCHANGED <<paths, files, linkEntries, symlinks, following>>
      /\ phase \in {"shape", "open", "opening"}
      /\ \/ UNCHANGED packedVars /\ phase' = "failed"
         \/ UNCHANGED packedVars /\ phase' \in {"open", "revision"} /\ reply = Idle
         \/ (ListCatalog \/ OpenPair \/ ValidatePack) /\ phase' = "opening" /\ reply = Idle
  BY Zenon DEF ValidateShape, OpenDatabase, OpenPacks, OpenFailed, environment, state, Proceed, Fail,
         RepositoryInv, Stage
<1>2. Watched /\ Machine /\ Stage /\ Bound
  BY <1>1, Zenon DEF RepositoryInv, Disturbance
<1>3. /\ Machine' /\ Watched'
      /\ phase' = "opening" => reply' = Idle \/ reply'.status = "error"
      /\ phase' \in {"open", "revision"} => reply' = Idle
  <2>1. CASE UNCHANGED packedVars /\ phase' # "opening"
    <3>1. reply' = reply
      BY <2>1, Zenon DEF packedVars
    <3> QED BY <1>1, <1>2, <2>1, <3>1, DatabaseFrame, Zenon
  <2>2. CASE (ListCatalog \/ OpenPair \/ ValidatePack) /\ phase' = "opening" /\ reply = Idle
    BY <1>2, <2>2, MachineOpen, WatchedOpen, Zenon
  <2> QED BY <1>1, <2>1, <2>2, Zenon
<1>4. Walks' /\ Roams'
  BY <1>1, WalkFrame, Zenon DEF RepositoryInv, Unresolved
<1>5. Bound'
  BY <1>1, <1>2, BoundFrame, Zenon DEF Unresolved
<1>6. Stage' /\ Disturbance' /\ Finished'
  BY <1>1, <1>2, <1>3, Zenon DEF Stage, Disturbance, Finished, Unresolved, Asking
<1> QED
  BY <1>3, <1>4, <1>5, <1>6, ZenonT(40) DEF RepositoryInv

\* resolve_s1_revision
LEMMA ResolvingKeeps ==
  ASSUME RepositoryInv, ResolveRevision \/ ReadLooseMain \/ ReadPackedMain
  PROVE  RepositoryInv'
<1>1. /\ UNCHANGED <<packedVars, options, looseMain, packedMain, mains>>
      /\ phase \in {"revision", "loose_main", "packed_main"}
      /\ \/ UNCHANGED state /\ phase' = "failed"
         \/ UNCHANGED state /\ phase' \in {"loose_main", "packed_main"} /\ phase = "revision"
            /\ options.at = Absent /\ (phase' = "packed_main" => looseMain = Absent)
         \/ \E c : /\ Bind(c) /\ c # Absent
                   /\ \/ c = options.at
                      \/ options.at = Absent /\ c = looseMain
                      \/ options.at = Absent /\ phase = "packed_main" /\ c = packedMain
  BY Zenon DEF ResolveRevision, ReadLooseMain, ReadPackedMain, Proceed, Fail, environment, RepositoryInv, Bound
<1>2. Watched /\ Machine /\ Stage /\ Bound /\ reply = Idle /\ phase \in Unresolved
  BY <1>1, Zenon DEF RepositoryInv, Disturbance, Stage, Unresolved
<1>3. Machine' /\ Watched' /\ reply' = Idle /\ request' = request
  <2>1. reply' = reply /\ request' = request
    BY <1>1, Zenon DEF packedVars
  <2> QED BY <1>1, <1>2, <2>1, DatabaseFrame, Zenon
<1>4. CASE /\ UNCHANGED state /\ phase' \in {"failed", "loose_main", "packed_main"}
           /\ phase' # "failed" => options.at = Absent
           /\ phase' = "packed_main" => looseMain = Absent
  <2>1. UNCHANGED <<commit, want, walk, paths, files, linkEntries, symlinks, following>>
    BY <1>4, Zenon DEF state
  <2>2. Walks' /\ Roams'
    BY <1>1, <1>2, <1>4, <2>1, WalkFrame, ZenonT(40) DEF RepositoryInv, Unresolved
  <2>3. Bound'
    BY <1>1, <1>2, <1>4, <2>1, Zenon DEF Bound, Asking
  <2>4. Stage' /\ Disturbance' /\ Finished'
    BY <1>1, <1>2, <1>3, <1>4, Zenon DEF Stage, Disturbance, Finished, Unresolved, Asking
  <2> QED BY <1>3, <2>2, <2>3, <2>4, Zenon DEF RepositoryInv
<1>5. ASSUME NEW c, Bind(c), c # Absent,
             \/ c = options.at
             \/ options.at = Absent /\ c = looseMain
             \/ options.at = Absent /\ phase = "packed_main" /\ c = packedMain
      PROVE  RepositoryInv'
  <2>1. /\ c \in Oid /\ c \in (IF options.at = Absent THEN mains ELSE {options.at})
    BY <1>2, <1>5 DEF Stage, Bound
  <2>2. phase' = "fetch" /\ commit' = c /\ want'.oid = c /\ walk' = walk
    BY <1>5, Zenon DEF Bind, Want, Proceed
  <2>3. Walks' /\ Roams'
    BY <1>2, <1>5, <2>1, <2>2, WalksBind, ZenonT(40) DEF RepositoryInv, Roams
  <2>4. Bound'
    BY <1>1, <1>2, <2>1, <2>2, Zenon DEF Bound
  <2>5. Stage' /\ Disturbance' /\ Finished'
    BY <1>1, <1>2, <1>3, <2>2, ZenonT(40) DEF Stage, Disturbance, Finished, Asking
  <2> QED BY <1>3, <2>3, <2>4, <2>5, SMTT(30) DEF RepositoryInv
<1> QED
  BY <1>1, <1>4, <1>5, Zenon

\* What read_object_capped is asked for, in either profile.
LEMMA FetchKeeps ==
  ASSUME PackedAssumption, Machine, Watched, reply = Idle, want.oid \in Oid, Fetch
  PROVE  Machine' /\ Watched' /\ request'.oid = want.oid
<1> DEFINE r == RequestFor(want)
<1>1. r.oid = want.oid
  BY Zenon DEF RequestFor
<1> HIDE DEF r
<1>2. /\ UNCHANGED <<layout, cache, loose, listed, opened, packs, values, pair, dirty, unverified>>
      /\ request' = r
  BY Zenon DEF Fetch, Read, disk, catalog, machine, r
<1>3. Watched'
  BY <1>2, WatchedFrame, Zenon DEF Idle
<1>4. Machine'
  <2>1. CASE options.packed
    <3>1. Read(r)
      BY <2>1, ZenonT(40) DEF Fetch, r
    <3> QED BY <1>1, <3>1, MachineRead, Zenon
  <2>2. CASE ~options.packed
    <3>1. reply' = LooseReply(r) /\ tasks' = tasks
      BY <2>2, Zenon DEF Fetch, machine, r
    <3>2. tasks = <<>> /\ values = <<>> /\ loose \in [Oid -> Body \cup {Absent, Odd}]
      BY Zenon DEF Machine, Idle, Busy
    <3>3. reply' # Busy /\ (reply'.status = "ok" => reply'.body = r.oid)
      BY <3>1, Zenon DEF LooseReply, Error, Busy
    <3> QED BY <1>2, <3>1, <3>2, <3>3, MachineAtRest, ZenonT(60) DEF Machine
  <2> QED BY <2>1, <2>2, Zenon
<1> QED
  BY <1>1, <1>2, <1>3, <1>4, Zenon

\* A read under way.
LEMMA ReadingKeeps ==
  ASSUME PackedAssumption, RepositoryInv, Fetch \/ Reading
  PROVE  RepositoryInv'
<1>1. /\ UNCHANGED <<options, looseMain, packedMain, mains, commit, want, walk>>
      /\ UNCHANGED <<paths, files, linkEntries, symlinks, following>>
      /\ phase' = "reading" /\ phase \in Asking
      /\ phase = "fetch" \/ phase = "reading"
  BY Zenon DEF Fetch, Reading, environment, state, Proceed, Asking
<1>2. Watched /\ Machine /\ Stage /\ Bound /\ want.oid \in Oid
  BY <1>1, Zenon DEF RepositoryInv, Disturbance, Roams, Asking
<1>3. Machine' /\ Watched' /\ request'.oid = want.oid
  <2>1. CASE Fetch
    <3>1. reply = Idle
      BY <1>2, <2>1, Zenon DEF Fetch, Stage
    <3> QED BY <1>2, <2>1, <3>1, FetchKeeps, ZenonT(40)
  <2>2. CASE Reading
    <3>1. Resolve /\ phase = "reading"
      BY <2>2, Zenon DEF Reading
    <3>2. request' = request
      BY <3>1, Zenon DEF Resolve, ResolveOid, ReadLoose, ReadPacked, ApplyDelta, FinishOid, Return
    <3> QED BY <1>2, <3>1, <3>2, MachineResolve, WatchedResolve, ZenonT(40) DEF Stage
  <2> QED BY <2>1, <2>2, Zenon
<1>4. Walks' /\ Roams'
  BY <1>1, WalkFrame, Zenon DEF RepositoryInv, Asking
<1>5. Bound'
  BY <1>1, <1>2, BoundFrame, Zenon
<1>6. Stage' /\ Disturbance' /\ Finished'
  BY <1>1, <1>2, <1>3, Zenon DEF Stage, Disturbance, Finished, Unresolved, Asking
<1> QED
  BY <1>3, <1>4, <1>5, <1>6, Zenon DEF RepositoryInv

\* What has been read is taken into the walk, or ends the scan.
LEMMA TakingKeeps ==
  ASSUME TreeAssumption, RepositoryInv, ReadFailed \/ Take
  PROVE  RepositoryInv'
<1>1. Answered /\ Consumed /\ phase = "reading" /\ reply # Busy
  BY DEF ReadFailed, Take, Answered, Busy
<1>2. /\ UNCHANGED <<layout, cache, loose, listed, opened, packs, tasks, values, request>>
      /\ UNCHANGED <<pair, dirty, unverified, options, looseMain, packedMain, mains>>
      /\ reply' = Idle
  BY <1>1, Zenon DEF Consumed, disk, catalog, machine, environment
<1>3. Watched /\ Machine /\ Stage /\ Bound /\ Walks /\ Roams
  BY <1>1, ZenonT(40) DEF RepositoryInv, Disturbance
<1>4. Machine'
  <2>1. tasks = <<>> /\ values = <<>> /\ reply' # Busy /\ reply'.status # "ok"
    BY <1>1, <1>2, <1>3, Zenon DEF Machine, Idle, Busy
  <2> QED BY <1>2, <1>3, <2>1, MachineAtRest, ZenonT(60) DEF Machine
<1>5. CASE ReadFailed
  <2>1. phase' = "failed" /\ UNCHANGED <<commit, want, walk, paths, files, linkEntries, symlinks, following>>
    BY <1>5, Zenon DEF ReadFailed, Fail, state
  <2>2. Walks' /\ Roams'
    BY <1>2, <1>3, <2>1, WalkFrame, Zenon
  <2>3. Bound'
    BY <1>2, <1>3, <2>1, BoundFrame, Zenon
  <2>4. Stage' /\ Disturbance' /\ Finished'
    BY <1>2, <1>3, <2>1, ZenonT(40) DEF Stage, Disturbance, Finished
  <2> QED BY <1>4, <2>2, <2>3, <2>4, Zenon DEF RepositoryInv
<1>6. CASE Take
  <2>1. ReplyError = {} /\ reply.status \in {"missing", "error", "ok"}
    BY <1>6, Zenon DEF Take, Answered
  <2>2. reply.status = "ok"
    BY <2>1, ZenonT(40) DEF ReplyError
  <2>3. reply.body = want.oid
    BY <1>1, <1>3, <2>2, Zenon DEF Machine, ObjectsGenuine, Stage
  <2>4. /\ want.what = "commit" => Kind[want.oid] = "commit"
        /\ want.what = "tree" => Kind[want.oid] = "tree"
        /\ want.what \in {"file", "link"} => Kind[want.oid] = "blob"
    BY <2>1, <2>2, <2>3, Zenon DEF ReplyError
  <2>5. EnterCommit(want.oid) \/ EnterTree(want.oid) \/ ListFile(want.oid) \/ KeepLink(want.oid)
    BY <1>6, <2>3, Zenon DEF Take
  <2>6. Walks' /\ Roams'
    BY <1>1, <1>2, <1>3, <2>4, <2>5, WalksTake, ZenonT(40)
  <2>7. phase' \in {"fetch", "walk"} /\ commit' = commit
    BY <2>5, Zenon DEF EnterCommit, EnterTree, ListFile, KeepLink, Want, Proceed
  <2>8. Watched'
    BY <1>2, <1>3, <2>2, WatchedFrame, ZenonT(40)
  <2>9. Bound'
    BY <1>1, <1>2, <1>3, <2>7, BoundFrame, ZenonT(60) DEF Asking
  <2>10. Stage' /\ Disturbance' /\ Finished'
    BY <1>2, <1>3, <2>7, <2>8, ZenonT(40) DEF Stage, Disturbance, Finished, Asking
  <2> QED BY <1>4, <2>6, <2>9, <2>10, SMTT(30) DEF RepositoryInv
<1> QED
  BY <1>5, <1>6, Zenon

\* The walk, and its end.
LEMMA WalkingKeeps ==
  ASSUME TreeAssumption, RepositoryInv, WalkOn \/ EndWalk
  PROVE  RepositoryInv'
<1>1. /\ phase = "walk" /\ commit' = commit /\ phase' \in {"walk", "fetch", "failed", "verify"}
      /\ UNCHANGED <<options, looseMain, packedMain, mains>>
  BY Zenon DEF WalkOn, Walking, RefuseEntry, VisitEntry, TimeOut, StartLink, FollowLink, ResolveLink,
         EndWalk, Visited, Walked, environment, state, Fail, Proceed, Want
<1>2. Watched /\ Machine /\ Stage /\ Bound /\ Walks /\ Roams /\ reply = Idle
  BY <1>1, Zenon DEF RepositoryInv, Disturbance, Stage
<1>3. Bound'
  BY <1>1, <1>2, BoundFrame, Zenon
<1>4. CASE WalkOn
  <2>1. Walking /\ UNCHANGED packedVars /\ phase' # "verify"
    BY <1>4, Zenon DEF WalkOn, Walking, RefuseEntry, VisitEntry, TimeOut, StartLink, FollowLink, ResolveLink,
                Fail, Proceed, Want
  <2>2. Walks' /\ Roams'
    BY <1>1, <1>2, <2>1, WalksOn, Zenon
  <2>3. Machine' /\ Watched' /\ reply' = reply
    <3>1. reply' = reply
      BY <2>1, Zenon DEF packedVars
    <3> QED BY <1>2, <2>1, <3>1, DatabaseFrame, Zenon
  <2>4. Stage' /\ Disturbance' /\ Finished'
    BY <1>1, <1>2, <2>1, <2>3, Zenon DEF Stage, Disturbance, Finished, Asking
  <2> QED BY <1>3, <2>2, <2>3, <2>4, ZenonT(40) DEF RepositoryInv
<1>5. CASE EndWalk
  <2>1. /\ StartVerify /\ phase' = "verify" /\ walk = <<>>
        /\ UNCHANGED <<commit, want, walk, paths, files, linkEntries, symlinks, following>>
    BY <1>5, Zenon DEF EndWalk, Visited, Proceed, state
  <2>2. Walks' /\ Roams'
    BY <1>1, <1>2, <2>1, WalkFrame, Zenon
  <2>3. Machine' /\ Watched' /\ (dirty' => Changed(unverified)') /\ reply' = reply
    <3>1. reply' = reply
      BY <2>1, Zenon DEF StartVerify
    <3> QED BY <1>2, <2>1, <3>1, WatchedStart, Zenon
  <2>4. Stage' /\ Disturbance' /\ Finished'
    BY <1>1, <1>2, <2>1, <2>3, Zenon DEF Stage, Disturbance, Finished
  <2> QED BY <1>3, <2>2, <2>3, <2>4, Zenon DEF RepositoryInv
<1> QED
  BY <1>4, <1>5, SMTT(30)

\* verify_unchanged, and what is accepted after it.
LEMMA VerifyingKeeps ==
  ASSUME RepositoryInv, VerifyPack \/ Accept
  PROVE  RepositoryInv'
<1>1. /\ UNCHANGED <<options, looseMain, packedMain, mains, commit, want, walk>>
      /\ UNCHANGED <<paths, files, linkEntries, symlinks, following>>
      /\ phase = "verify"
      /\ \/ PassPack /\ phase' = "verify"
         \/ UNCHANGED packedVars /\ phase' = "failed"
         \/ UNCHANGED packedVars /\ phase' = "done" /\ unverified = <<>>
  BY Zenon DEF VerifyPack, Accept, environment, state, Proceed, Fail
<1>2. /\ Watched /\ Machine /\ Stage /\ Bound /\ reply = Idle /\ walk = <<>>
      /\ dirty => Changed(unverified)
  BY <1>1, Zenon DEF RepositoryInv, Disturbance, Stage, Finished
<1>3. Walks' /\ Roams'
  BY <1>1, WalkFrame, Zenon DEF RepositoryInv
<1>4. Bound'
  BY <1>1, <1>2, BoundFrame, Zenon
<1>5. /\ Machine' /\ Watched' /\ reply' = reply /\ dirty' = dirty
      /\ Changed(unverified) => Changed(unverified)'
  <2>1. CASE PassPack
    <3>1. reply' = reply /\ dirty' = dirty
      BY <2>1, Zenon DEF PassPack
    <3> QED BY <1>2, <2>1, <3>1, WatchedPass, Zenon
  <2>2. CASE UNCHANGED packedVars
    <3>1. reply' = reply /\ dirty' = dirty
      BY <2>2, Zenon DEF packedVars
    <3> QED BY <1>2, <2>2, <3>1, DatabaseFrame, Zenon
  <2> QED BY <1>1, <2>1, <2>2, Zenon
<1>6. phase' = "done" => ~dirty
  <2>1. unverified = <<>> => ~Changed(unverified)
    BY DEF Changed
  <2> QED BY <1>1, <1>2, <2>1, Zenon
<1>7. Stage' /\ Finished'
  BY <1>1, <1>2, <1>5, Zenon DEF Stage, Finished
<1>8. Disturbance'
  BY <1>1, <1>2, <1>5, <1>6, Zenon DEF Disturbance
<1> QED
  BY <1>3, <1>4, <1>5, <1>7, <1>8, ZenonT(40) DEF RepositoryInv

\* Every step of the scan and of the processes beside it.
LEMMA RepositoryStep ==
  ASSUME GitAssumption, PackedAssumption, TreeAssumption, RepositoryInv, [Next]_vars
  PROVE  RepositoryInv'
<1>1. CASE Scan
  BY <1>1, OpeningKeeps, ResolvingKeeps, ReadingKeeps, TakingKeeps, WalkingKeeps, VerifyingKeeps, ZenonT(40) DEF Scan
<1>2. CASE Environment
  BY <1>2, EnvironmentKeeps, Zenon
<1>3. CASE UNCHANGED vars
  <2>1. /\ UNCHANGED <<packedVars, phase, options, looseMain, packedMain, mains, commit, want, walk>>
        /\ UNCHANGED <<paths, files, linkEntries, symlinks, following>>
    BY <1>3, Zenon DEF vars, environment, state
  <2>2. Walks' /\ Roams' /\ Finished'
    BY <2>1, WalkFrame, Zenon DEF RepositoryInv, Finished
  <2>3. /\ Machine' /\ (Watched => Watched') /\ (Changed(unverified) => Changed(unverified)')
        /\ UNCHANGED <<reply, request, dirty>>
    <3>1. UNCHANGED <<reply, request, dirty>>
      BY <2>1, ZenonT(40) DEF packedVars
    <3> QED BY <2>1, <3>1, DatabaseFrame, Zenon DEF RepositoryInv
  <2>4. Disturbance'
    BY <2>1, <2>3, Zenon DEF RepositoryInv, Disturbance
  <2>5. Stage' /\ Bound'
    BY <2>1, <2>3, Zenon DEF RepositoryInv, Stage, Bound
  <2> QED BY <2>2, <2>3, <2>4, <2>5, Zenon DEF RepositoryInv
<1> QED
  BY <1>1, <1>2, <1>3, Zenon DEF Next

\* It holds when the scan starts.
LEMMA RepositoryInit ==
  ASSUME GitAssumption, PackedAssumption, Init
  PROVE  RepositoryInv
<1>1. /\ layout \in Layout /\ loose = layout.loose /\ options \in layout.options
      /\ looseMain = layout.looseMain /\ packedMain = layout.packedMain /\ mains = {Main}
      /\ pair = [p \in PackId |-> IF p \in layout.packs THEN "there" ELSE "absent"]
  BY Zenon DEF Init
<1>2. /\ layout.loose \in [Oid -> Body \cup {Absent, Odd}] /\ options.at \in Oid \cup {Absent}
      /\ layout.looseMain \in Oid \cup {Absent} /\ layout.packedMain \in Oid \cup {Absent}
      /\ \A p \in PackId : IsPack(layout.entries[p])
  BY <1>1, Zenon DEF GitAssumption
<1>3. /\ phase = "shape" /\ reply = Idle /\ dirty = FALSE
      /\ listed = <<>> /\ opened = <<>> /\ packs = <<>> /\ unverified = <<>>
      /\ cache = <<>> /\ tasks = <<>> /\ values = <<>>
      /\ walk = <<>> /\ paths = {} /\ files = <<>>
      /\ linkEntries = <<>> /\ symlinks = <<>> /\ following = None
  BY Zenon DEF Init, PackedInit, WalkInit
<1>4. /\ <<>> \in Seq(PackId) /\ <<>> \in Seq(Task) /\ <<>> \in Seq(Body) /\ <<>> \in Seq(Entry)
      /\ Len(<<>>) = 0 /\ 1..0 = {} /\ DOMAIN <<>> = {}
  OBVIOUS
<1>5. Machine
  <2>1. ObjectsGenuine
    BY <1>3, <1>4, ZenonT(40) DEF ObjectsGenuine, Idle
  <2> QED BY <1>1, <1>2, <1>3, <1>4, <2>1, ZenonT(60) DEF Machine, Idle, Busy
<1>6. Watched
  BY <1>1, <1>3, <1>4, Zenon DEF Watched, Complete
<1>7. Stage /\ Disturbance /\ Finished
  BY <1>1, <1>2, <1>3, <1>6, Zenon DEF Stage, Disturbance, Finished, Unresolved, Asking
<1>8. Bound
  BY <1>1, <1>3, Zenon DEF Bound, Main, Asking
<1>9. Walks /\ Roams
  BY <1>3, <1>4, ZenonT(40) DEF Walks, Roams, Fresh, Untouched, Unresolved, Asking
<1> QED
  BY <1>5, <1>7, <1>8, <1>9, ZenonT(40) DEF RepositoryInv

-----------------------------------------------------------------------------
(* The theorems *)

\* The inductive invariant of the scan holds in every state: for every repository,
\* every change other processes make to it, and every budget.
THEOREM RepositoryInvariant == Spec => []RepositoryInv
<1>1. Init => RepositoryInv
  BY RepositoryInit, GitConstants, PackedConstants, Zenon
<1>2. RepositoryInv /\ [Next]_vars => RepositoryInv'
  BY RepositoryStep, GitConstants, PackedConstants, TreeConstants, ZenonT(40)
<1> QED
  BY <1>1, <1>2, PTL DEF Spec

\* Every object the cache holds and every object read_object returns is the one its
\* id names, for every object graph, delta chain and repack (PackedObjects::resolve).
THEOREM ReadsAreGenuine == Spec => []ObjectsGenuine
<1>1. RepositoryInv => ObjectsGenuine
  BY Zenon DEF RepositoryInv, Machine
<1> QED
  BY <1>1, RepositoryInvariant, PTL

\* No accepted scan used a byte of a pack that had been removed, replaced or rewritten
\* before it used it (verify_unchanged after the last read).
THEOREM AcceptsUndisturbed == Spec => []AcceptedUndisturbed
<1>1. RepositoryInv => AcceptedUndisturbed
  BY Zenon DEF RepositoryInv, Disturbance, AcceptedUndisturbed
<1> QED
  BY <1>1, RepositoryInvariant, PTL

\* Every symlink of an accepted scan leads to a file or a directory of the commit,
\* along directories of that commit (internal_symlinks::resolve).
THEOREM LinksLeadInside == Spec => []LinksStayInside
<1>1. RepositoryInv => LinksStayInside
  <2>1. ASSUME RepositoryInv, phase = "done" PROVE Led
    BY <2>1, ZenonT(40) DEF RepositoryInv, Walks, Fresh, Unresolved, Asking, Inside
  <2> QED BY <2>1, Zenon DEF Led, DirAt, LinksStayInside
<1> QED
  BY <1>1, RepositoryInvariant, PTL

\* An accepted scan lists exactly the files of the one commit it bound, in path order
\* and with the bodies their ids name (acquire_inventory_internal, traverse_tree_object).
THEOREM AcceptsOneCommit == Spec => []AcceptedIsOneCommit
<1>1. RepositoryInv => AcceptedIsOneCommit
  <2>1. ASSUME RepositoryInv, phase = "done"
        PROVE  /\ commit \in (IF options.at = Absent THEN mains ELSE {options.at})
               /\ Range(files) = FilesOf(commit)
               /\ \A i, j \in DOMAIN files : i < j => Before(files[i].path, files[j].path)
    <3>1. commit \in (IF options.at = Absent THEN mains ELSE {options.at}) /\ walk = <<>> /\ Walks
      BY <2>1, Zenon DEF RepositoryInv, Bound, Finished
    <3> QED BY <2>1, <3>1, ListsTheCommit, TreeConstants, Zenon
  <2> QED BY <2>1, Zenon DEF AcceptedIsOneCommit
<1> QED
  BY <1>1, RepositoryInvariant, PTL
===============================================================================
