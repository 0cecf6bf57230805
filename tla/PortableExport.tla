---------------------------- MODULE PortableExport ----------------------------
(***************************************************************************)
(* publish_files_with_guard (crates/noesis/src/portable_explorer.rs):      *)
(* `noesis export` and `noesis explore` write the files of one generation  *)
(* into a marked output root, each by renaming a temporary file, and undo  *)
(* their work on an error if they found the root empty.  There is no       *)
(* commit point and no lock.                                               *)
(*                                                                         *)
(* The root is one directory throughout: PublicationGuard, which compares  *)
(* its identity before and after each write, has nothing to detect here.   *)
(***************************************************************************)
EXTENDS Publishers, Naturals, Sequences

CONSTANTS
    BytesOf,        \* Generation -> the bytes of its files, in writing order
    MaxFaults       \* bound on failed calls and kills

NumFiles == CHOOSE n \in {Len(BytesOf[g]) : g \in Generation} : TRUE

ExportAssumption ==
    /\ MaxFaults \in Nat
    /\ None \notin Generation
    /\ NumFiles \in Nat \ {0}
    /\ \A g \in Generation :
          /\ BytesOf[g] = [i \in 1..NumFiles |-> BytesOf[g][i]]
          /\ \A i \in 1..NumFiles : BytesOf[g][i] # None

ASSUME ExportConstants == ExportAssumption

VARIABLES
    exportMarker,   \* "absent", "torn" or "ok"
    files,          \* file number -> its bytes, or None
    temps,          \* publishers whose temporary file is in the root
    litter,         \* a killed publisher's temporary file is in the root
    exportPc, exportGen, exportFile,
    foundEmpty,     \* the publisher found the root empty
    exported,       \* generations reported as published
    exportsOverlap, \* two publishers have been at work at once
    killed,         \* a publisher has been killed
    faults

exportRoot == <<exportMarker, files, temps, litter>>
exportHistory == <<exportsOverlap, killed, faults>>
exportVars == <<exportRoot, exportPc, exportGen, exportFile, foundEmpty, exported,
                exportHistory>>

ExportInit ==
    /\ exportMarker = "absent"
    /\ files = [i \in 1..NumFiles |-> None]
    /\ temps = {} /\ litter = FALSE
    /\ exportPc = [p \in Publisher |-> "idle"]
    /\ exportGen = [p \in Publisher |-> None]
    /\ exportFile = [p \in Publisher |-> 0]
    /\ foundEmpty = [p \in Publisher |-> FALSE]
    /\ exported = {}
    /\ exportsOverlap = FALSE /\ killed = FALSE
    /\ faults = 0

NoFiles == \A i \in 1..NumFiles : files[i] = None
Complete(g) == exportMarker = "ok" /\ files = BytesOf[g]

\* inspect_output: an empty root, or the exact marker and only owned names.
Acceptable ==
    \/ exportMarker = "absent" /\ NoFiles /\ temps = {} /\ ~litter
    \/ exportMarker = "ok" /\ temps = {} /\ ~litter

GoOn(p, where) == exportPc' = [exportPc EXCEPT ![p] = where]
AtFile(p, i) == exportFile' = [exportFile EXCEPT ![p] = i]

LeaveOutput(p) ==
    /\ exportPc' = [exportPc EXCEPT ![p] = "idle"]
    /\ exportGen' = [exportGen EXCEPT ![p] = None]
    /\ exportFile' = [exportFile EXCEPT ![p] = 0]
    /\ foundEmpty' = [foundEmpty EXCEPT ![p] = FALSE]

\* Mutant: nothing is undone.
UndoNever(p) == LeaveOutput(p)

\* An error after the marker: what a fresh publisher wrote is undone.
Undo(p) ==
    \/ /\ foundEmpty[p]
       /\ GoOn(p, "undo") /\ AtFile(p, NumFiles)
       /\ UNCHANGED <<exportGen, foundEmpty>>
    \/ ~foundEmpty[p] /\ LeaveOutput(p)

-----------------------------------------------------------------------------
(* ensure_output_root and the marker *)

BeginExport(p) ==
    /\ exportPc[p] = "idle"
    /\ \E g \in Generation : exportGen' = [exportGen EXCEPT ![p] = g]
    /\ GoOn(p, "inspect")
    /\ exportsOverlap' =
          (exportsOverlap \/ \E q \in Publisher \ {p} : exportPc[q] # "idle")
    /\ UNCHANGED <<exportRoot, exportFile, foundEmpty, exported, killed, faults>>

InspectOutput(p) ==
    /\ exportPc[p] = "inspect"
    /\ \/ Acceptable /\ GoOn(p, "look") /\ UNCHANGED <<exportGen, exportFile, foundEmpty>>
       \/ ~Acceptable /\ LeaveOutput(p)
    /\ UNCHANGED <<exportRoot, exported>>

\* read_dir(root).next().is_none(), or the exact marker.
LookInside(p) ==
    /\ exportPc[p] = "look"
    /\ \/ /\ exportMarker = "absent" /\ NoFiles /\ temps = {} /\ ~litter
          /\ foundEmpty' = [foundEmpty EXCEPT ![p] = TRUE]
          /\ GoOn(p, "mark")
          /\ UNCHANGED <<exportGen, exportFile>>
       \/ /\ exportMarker = "ok"
          /\ GoOn(p, "write") /\ AtFile(p, 1)
          /\ UNCHANGED <<exportGen, foundEmpty>>
       \/ /\ exportMarker # "ok" /\ ~(exportMarker = "absent" /\ NoFiles /\ temps = {} /\ ~litter)
          /\ LeaveOutput(p)
    /\ UNCHANGED <<exportRoot, exported>>

\* write_exclusive of the marker: create_new, then the bytes.
CreateExportMarker(p) ==
    /\ exportPc[p] = "mark"
    /\ \/ /\ exportMarker = "absent" /\ exportMarker' = "torn"
          /\ GoOn(p, "fill")
          /\ UNCHANGED <<exportGen, exportFile, foundEmpty>>
       \/ exportMarker # "absent" /\ LeaveOutput(p) /\ UNCHANGED exportMarker
    /\ UNCHANGED <<files, temps, litter, exported>>

FillExportMarker(p) ==
    /\ exportPc[p] = "fill"
    /\ exportMarker' = "ok"
    /\ GoOn(p, "write") /\ AtFile(p, 1)
    /\ UNCHANGED <<files, temps, litter, exportGen, foundEmpty, exported>>

-----------------------------------------------------------------------------
(* write_atomic_or_verify, for each file in turn *)

Bytes(p) == BytesOf[exportGen[p]][exportFile[p]]

NextOutput(p) ==
    IF exportFile[p] < NumFiles THEN GoOn(p, "write") /\ AtFile(p, exportFile[p] + 1)
                                ELSE GoOn(p, "verify") /\ UNCHANGED exportFile

\* Mutant: a file of other bytes is written anew.
WriteOver(p) ==
    /\ exportPc[p] = "write"
    /\ temps' = temps \cup {p}
    /\ GoOn(p, "rename")
    /\ UNCHANGED <<exportMarker, files, litter, exportGen, exportFile, foundEmpty, exported>>

\* A file that is there must have the same bytes; one that is not is written
\* to a temporary file of this process.
Write(p) ==
    /\ exportPc[p] = "write"
    /\ \/ /\ files[exportFile[p]] = Bytes(p)
          /\ NextOutput(p)
          /\ UNCHANGED <<temps, exportGen, foundEmpty>>
       \/ /\ files[exportFile[p]] = None
          /\ temps' = temps \cup {p}
          /\ GoOn(p, "rename")
          /\ UNCHANGED <<exportGen, exportFile, foundEmpty>>
       \/ /\ files[exportFile[p]] \notin {None, Bytes(p)}
          /\ Undo(p)
          /\ UNCHANGED temps
    /\ UNCHANGED <<exportMarker, files, litter, exported>>

\* rename replaces whatever is there by now.
Rename(p) ==
    /\ exportPc[p] = "rename"
    /\ files' = [files EXCEPT ![exportFile[p]] = Bytes(p)]
    /\ temps' = temps \ {p}
    /\ NextOutput(p)
    /\ UNCHANGED <<exportMarker, litter, exportGen, foundEmpty, exported>>

\* The closing inspect_output and verify_exact_file of every file.
Verify(p) ==
    /\ exportPc[p] = "verify"
    /\ \/ /\ Acceptable /\ Complete(exportGen[p])
          /\ exported' = exported \cup {exportGen[p]}
          /\ LeaveOutput(p)
       \/ /\ ~(Acceptable /\ Complete(exportGen[p]))
          /\ Undo(p)
          /\ UNCHANGED exported
    /\ UNCHANGED exportRoot

\* The undo removes the files from the last to the first, then the marker.
UndoFile(p) ==
    /\ exportPc[p] = "undo"
    /\ \/ /\ exportFile[p] > 0
          /\ files' = [files EXCEPT ![exportFile[p]] = None]
          /\ AtFile(p, exportFile[p] - 1)
          /\ UNCHANGED <<exportMarker, exportPc, exportGen, foundEmpty>>
       \/ /\ exportFile[p] = 0
          /\ exportMarker' = "absent"
          /\ LeaveOutput(p)
          /\ UNCHANGED files
    /\ UNCHANGED <<temps, litter, exported>>

-----------------------------------------------------------------------------
(* Faults *)

Fault == faults < MaxFaults /\ faults' = faults + 1 /\ UNCHANGED exportsOverlap

\* A call fails.  The temporary file is removed; a marker that could not be
\* written stays, for that error returns ahead of the undo.
ExportFails(p) ==
    /\ Fault
    /\ \/ exportPc[p] \in {"inspect", "look", "mark", "fill"} /\ LeaveOutput(p)
       \/ exportPc[p] \in {"write", "rename", "verify"} /\ Undo(p)
    /\ temps' = temps \ {p}
    /\ UNCHANGED <<exportMarker, files, litter, exported, killed>>

\* The process is killed.
KillExport(p) ==
    /\ Fault
    /\ exportPc[p] # "idle"
    /\ killed' = TRUE
    /\ temps' = temps \ {p}
    /\ litter' = (litter \/ p \in temps)
    /\ LeaveOutput(p)
    /\ UNCHANGED <<exportMarker, files, exported>>

PublishStep(p) ==
    \/ BeginExport(p)
    \/ /\ \/ InspectOutput(p) \/ LookInside(p) \/ CreateExportMarker(p) \/ FillExportMarker(p)
          \/ Write(p) \/ Rename(p) \/ Verify(p) \/ UndoFile(p)
       /\ UNCHANGED exportHistory

ExportNext == \E p \in Publisher : PublishStep(p) \/ ExportFails(p) \/ KillExport(p)
ExportSpec == ExportInit /\ [][ExportNext]_exportVars

-----------------------------------------------------------------------------
(* Properties *)

\* A generation reported as published stays as it is, whatever later
\* publishers of any generation do.
ReportedStays == \A g \in exported : Complete(g)

\* As long as publishers take turns it does, at whatever step
\* publish_files_with_guard fails or is killed.
ReportedStaysInTurn == ~exportsOverlap => ReportedStays

\* When publishers take turns and their calls fail, also those made after some
\* files are in the root, all of a generation is left or nothing.
RestsWhole ==
    ~exportsOverlap /\ ~killed /\ (\A p \in Publisher : exportPc[p] = "idle") =>
        NoFiles \/ \E g \in Generation : Complete(g)

=============================================================================
