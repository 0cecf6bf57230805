---------------------------- MODULE GitAcquisition ----------------------------
(***************************************************************************)
(* acquire_inventory_internal: one scan's walk from a revision of a local  *)
(* Git repository to the list of its files (TreeWalk), over the objects    *)
(* that PackedObjects reads, while Git itself commits, packs references,   *)
(* repacks and prunes.                                                     *)
(*                                                                         *)
(*   crates/codenoesis-repository/src/lib.rs                               *)
(***************************************************************************)
EXTENDS PackedObjects, TreeWalk

CONSTANTS
    Layout,         \* repositories as they are when the scan starts
    Commit,         \* the object ids that main may name
    Lfs,            \* the blobs that are Git LFS pointers
    MaxFileBytes, MaxTotalBytes, MaxTargetBytes, MaxGitmodulesBytes,
    Ceiling         \* S1_INTERNAL_OBJECT_BYTES and the tree capture limit

\* A repository is made of objects, and its references name objects.
GitAssumption ==
    /\ Commit \subseteq Oid
    /\ \A l \in Layout :
        /\ l.loose \in [Oid -> Body \cup {Absent, Odd}]
        /\ \A p \in PackId : IsPack(l.entries[p])
        /\ l.looseMain \in Oid \cup {Absent} /\ l.packedMain \in Oid \cup {Absent}
        /\ \A o \in l.options : o.at \in Oid \cup {Absent}

ASSUME GitConstants == GitAssumption

VARIABLES
    looseMain, packedMain,  \* the two places of refs/heads/main
    mains,          \* the commits main has named since the scan started
    changes         \* how many changes other processes may still make

environment == <<options, looseMain, packedMain, mains, changes>>
vars == <<packedVars, environment, phase, error, state>>

Main == IF looseMain # Absent THEN looseMain ELSE packedMain

Init ==
    /\ layout \in Layout
    /\ loose = layout.loose
    /\ pair = [p \in PackId |-> IF p \in layout.packs THEN "there" ELSE "absent"]
    /\ options \in layout.options
    /\ looseMain = layout.looseMain /\ packedMain = layout.packedMain
    /\ mains = {Main}
    /\ changes = layout.changes
    /\ PackedInit
    /\ WalkInit

-----------------------------------------------------------------------------
(* What other processes do to the repository *)

Change == changes > 0 /\ changes' = changes - 1 /\ UNCHANGED <<options, phase, error, state>>

\* git commit, git fetch: main moves to another commit
UpdateMain(c) ==
    /\ Change
    /\ looseMain' = c
    /\ mains' = mains \cup {c}
    /\ UNCHANGED <<packedVars, packedMain>>

\* git pack-refs writes packed-refs, then removes the loose reference.
PackRefs ==
    /\ Change
    /\ looseMain # Absent
    /\ IF packedMain # looseMain
       THEN packedMain' = looseMain /\ UNCHANGED looseMain
       ELSE looseMain' = Absent /\ UNCHANGED packedMain
    /\ UNCHANGED <<packedVars, mains>>

\* git repack, git gc
Repack == Change /\ Repacking /\ UNCHANGED <<looseMain, packedMain, mains>>

Environment ==
    \/ \E c \in Commit : UpdateMain(c)
    \/ PackRefs
    \/ Repack

-----------------------------------------------------------------------------
(* The scan *)

\* validate_s1_repository_root and validate_s1_repository_shape
ValidateShape ==
    /\ phase = "shape"
    /\ IF layout.shape = "ok" THEN Proceed("open") ELSE Fail("shape")
    /\ UNCHANGED <<packedVars, environment, state>>

\* open_object_database: the loose-only profile refuses a repository with packs.
OpenDatabase ==
    /\ phase = "open"
    /\ IF options.packed
       THEN ListCatalog /\ Proceed("opening")
       ELSE /\ IF \E p \in PackId : pair[p] # "absent"
               THEN Fail("packed_database") ELSE Proceed("revision")
            /\ UNCHANGED packedVars
    /\ UNCHANGED <<environment, state>>

OpenPacks ==
    /\ phase = "opening" /\ reply = Idle
    /\ \/ (OpenPair \/ ValidatePack) /\ Proceed("opening")
       \/ /\ listed = <<>> /\ opened = <<>>
          /\ Proceed("revision")
          /\ UNCHANGED packedVars
    /\ UNCHANGED <<environment, state>>

OpenFailed ==
    /\ phase = "opening" /\ reply.status = "error"
    /\ Fail(reply.error)
    /\ UNCHANGED <<packedVars, environment, state>>

\* resolve_s1_revision and resolve_s1_main_ref: look at the loose reference,
\* open it, and only if there is none read packed-refs.
ResolveRevision ==
    /\ phase = "revision"
    /\ \/ options.at # Absent /\ Bind(options.at)
       \/ /\ options.at = Absent
          /\ Proceed(IF looseMain # Absent THEN "loose_main" ELSE "packed_main")
          /\ UNCHANGED state
    /\ UNCHANGED <<packedVars, environment>>

ReadLooseMain ==
    /\ phase = "loose_main"
    /\ IF looseMain = Absent THEN Fail("unexpected") /\ UNCHANGED state ELSE Bind(looseMain)
    /\ UNCHANGED <<packedVars, environment>>

ReadPackedMain ==
    /\ phase = "packed_main"
    /\ IF packedMain = Absent
       THEN Fail("revision_missing") /\ UNCHANGED state
       ELSE Bind(packedMain)
    /\ UNCHANGED <<packedVars, environment>>

AtMost(m, n) == IF m < n THEN m ELSE n

\* s1_blob_body_limit: what is left of the total, if that is less
BlobLimit(single) == AtMost(MaxTotalBytes - total, single)

\* .gitmodules at the root has a limit of its own when boundaries are collected.
GitmodulesLimited(w) ==
    /\ w.what = "file" /\ IsGitmodules(w)
    /\ MaxGitmodulesBytes < BlobLimit(MaxFileBytes)

\* The bounds of required_s1_revision_object, required_regular_blob and
\* required_referenced_object_with_capture.
RequestFor(w) ==
    LET maximum == CASE GitmodulesLimited(w) -> MaxGitmodulesBytes
                     [] w.what = "file" -> BlobLimit(MaxFileBytes)
                     [] w.what = "link" -> BlobLimit(MaxTargetBytes)
                     [] OTHER -> Ceiling IN
    [oid |-> w.oid,
     blobMaximum |-> IF w.what \in {"file", "link"} THEN {maximum} ELSE {},
     ceiling |-> maximum]

\* read_object_capped: the loose-only profile reads one file.
LooseReply(r) ==
    LET body == loose[r.oid] IN
    IF body = Absent THEN [status |-> "missing"]
    ELSE IF body = Odd THEN Error("inconsistent")
    ELSE IF Kind[body] = "blob" /\ \E m \in r.blobMaximum : Size[body] > m
    THEN Error(IF GitmodulesLimited(want) THEN "gitmodules_limit" ELSE "limit")
    ELSE IF Size[body] > r.ceiling \/ body # r.oid THEN Error("inconsistent")
    ELSE [status |-> "ok", body |-> body]

Fetch ==
    /\ phase = "fetch"
    /\ Proceed("reading")
    /\ IF options.packed THEN Read(RequestFor(want))
       ELSE /\ request' = RequestFor(want)
            /\ reply' = LooseReply(RequestFor(want))
            /\ UNCHANGED <<disk, catalog, cache, inflated, deltaWork, machine, dirty>>
    /\ UNCHANGED <<environment, state>>

Reading ==
    /\ phase = "reading" /\ Resolve
    /\ UNCHANGED <<environment, phase, error, state>>

\* Names the read under way, and the error it turns into.
ReplyError ==
    CASE reply.status = "missing" ->
            {IF want.what = "commit" THEN "revision_missing" ELSE "object_missing"}
      [] reply.status = "error" -> {reply.error}
      [] reply.status = "ok" /\ want.what = "commit" /\ Kind[reply.body] # "commit" ->
            {"not_commit"}
      [] reply.status = "ok" /\ want.what = "tree" /\ Kind[reply.body] # "tree" ->
            {"inconsistent"}
      [] reply.status = "ok" /\ want.what \in {"file", "link"} /\ Kind[reply.body] # "blob" ->
            {"inconsistent"}
      [] reply.status = "ok" /\ want.what = "file" /\ reply.body \in Lfs -> {"lfs"}
      [] reply.status = "ok" /\ want.what \in {"file", "link"}
         /\ total + Size[reply.body] > MaxTotalBytes -> {"limit"}
      [] OTHER -> {}

Answered == phase = "reading" /\ reply.status \in {"missing", "error", "ok"}
Consumed == reply' = Idle /\ UNCHANGED <<disk, catalog, cache, inflated, deltaWork,
                                         machine, request, dirty, environment>>

ReadFailed ==
    /\ Answered /\ ReplyError # {}
    /\ \E e \in ReplyError : Fail(e)
    /\ Consumed /\ UNCHANGED state

\* What was wanted has been read.
Take ==
    /\ Answered /\ ReplyError = {}
    /\ \/ EnterCommit(reply.body) \/ EnterTree(reply.body)
       \/ ListFile(reply.body) \/ KeepLink(reply.body)
    /\ Consumed

WalkOn == Walking /\ UNCHANGED <<packedVars, environment>>

\* No entry is left to visit and no link to resolve.
EndWalk ==
    /\ Visited /\ Unled = {}
    /\ StartVerify /\ Proceed("verify")
    /\ UNCHANGED <<environment, state>>

\* Mutant: a changed pack is waited for.
VerifyPackAgain ==
    /\ phase = "verify"
    /\ PassPack /\ Proceed("verify")
    /\ UNCHANGED <<environment, state>>

\* verify_unchanged, pack by pack
VerifyPack ==
    /\ phase = "verify" /\ unverified # <<>>
    /\ \/ PassPack /\ Proceed("verify")
       \/ ~Unchanged(Head(unverified)) /\ Fail("changed") /\ UNCHANGED packedVars
    /\ UNCHANGED <<environment, state>>

Accept ==
    /\ phase = "verify" /\ unverified = <<>>
    /\ Proceed("done")
    /\ UNCHANGED <<packedVars, environment, state>>

Scan ==
    \/ ValidateShape \/ OpenDatabase \/ OpenPacks \/ OpenFailed
    \/ ResolveRevision \/ ReadLooseMain \/ ReadPackedMain
    \/ Fetch \/ Reading \/ ReadFailed \/ Take
    \/ WalkOn \/ EndWalk \/ VerifyPack \/ Accept

Next == Scan \/ Environment
Spec == Init /\ [][Next]_vars /\ WF_vars(Scan)

-----------------------------------------------------------------------------
(* Properties *)

\* An accepted scan lists exactly the files of one commit, which main named at
\* some moment of the scan, in path order and with the bodies their ids name:
\* never a mixture of two commits, whatever commits, repacks and prunes ran
\* meanwhile (acquire_inventory_internal binds the commit once).
AcceptedIsOneCommit ==
    phase = "done" =>
      /\ commit \in (IF options.at = Absent THEN mains ELSE {options.at})
      /\ Range(files) = FilesOf(commit)
      /\ \A i, j \in DOMAIN files : i < j => Before(files[i].path, files[j].path)

\* An accepted scan used no byte of a pack that had been removed, replaced or
\* rewritten before it used it: verify_unchanged comes after the last read.
AcceptedUndisturbed == phase = "done" => ~dirty
=============================================================================
