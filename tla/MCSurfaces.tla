----------------------------- MODULE MCSurfaces -----------------------------
(***************************************************************************)
(* The three places `noesis` writes to, each with two processes at work:   *)
(* a store root (StoreSession), a generated documentation root             *)
(* (GeneratedDocs) and a portable explorer root (PortableExport).  They    *)
(* share nothing; a behaviour is about one of them and leaves the others   *)
(* as they start.                                                          *)
(***************************************************************************)
EXTENDS StoreSession, GeneratedDocs, PortableExport, TLC

CONSTANTS g1, g2

\* One handler of each shape.
OneOfEachShape == {run_s3, run_s4, run_s4_k1, run_s4_r7_boundaries, scan_java}

\* Two snapshots: each has a module of its own, both have an overview, and
\* the overviews differ.  The documents are in path order.
TwoSnapshots ==
    g1 :> << <<"modules/a", "a">>, <<"overview", "1">> >> @@
    g2 :> << <<"modules/b", "b">>, <<"overview", "2">> >>

\* One snapshot, for the run with abandoned staging.
OneSnapshot == g1 :> << <<"modules/a", "a">>, <<"overview", "1">> >>

\* The explorer kind: graph, viewer and manifest.  The viewer is the same for
\* every graph.
ExplorerFiles ==
    g1 :> <<"graph1", "viewer", "manifest1">> @@
    g2 :> <<"graph2", "viewer", "manifest2">>

VARIABLE surface    \* the place the behaviour is about

all == <<surface, vars, sessionVars, exportVars>>

SurfacesInit ==
    /\ surface \in {"store", "docs", "export"}
    /\ Init /\ SessionInit /\ ExportInit
    /\ surface # "store" => landlock

Docs(p) == surface = "docs" /\ Step(p) /\ UNCHANGED <<surface, sessionVars, exportVars>>

SurfacesNext ==
    \/ \E p \in Publisher : Docs(p)
    \/ /\ surface = "docs" /\ \E p \in Publisher : Stop(p)
       /\ UNCHANGED <<surface, sessionVars, exportVars>>
    \/ surface = "store" /\ SessionNext /\ UNCHANGED <<surface, vars, exportVars>>
    \/ surface = "export" /\ ExportNext /\ UNCHANGED <<surface, vars, sessionVars>>

SurfacesSpec ==
    SurfacesInit /\ [][SurfacesNext]_all /\ \A p \in Publisher : WF_all(Docs(p))

\* Documentation only, its callers giving up at any time.
DocsSpec == SurfacesInit /\ surface = "docs" /\ [][SurfacesNext]_all

\* Retries of a resumable generation commit.
RetriesCommit == surface = "docs" => EventuallyCommitted

=============================================================================
