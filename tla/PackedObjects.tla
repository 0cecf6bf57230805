---------------------------- MODULE PackedObjects ----------------------------
(***************************************************************************)
(* PackedObjectDatabase: the read-only object database over the packs and  *)
(* loose objects of one Git repository, which other processes may be       *)
(* repacking at the same time.                                             *)
(*                                                                         *)
(*   open, locations, resolve     crates/codenoesis-repository/src/packed/ *)
(*                                mod.rs                                   *)
(*   open_catalog, TrackedFile    .../packed/catalog.rs                    *)
(*   ValidatedPack                .../packed/pack.rs, index.rs             *)
(*   apply                        .../packed/delta.rs                      *)
(***************************************************************************)
EXTENDS GitObjects, FiniteSetsExt

CONSTANTS
    Malformed,          \* what a delta program gives that is not well formed
    Odd,                \* a loose path that is not a small regular file
    NumPacks,           \* how many packs there may be
    NewPack,            \* the pack that a repack writes
    ProgramSize,        \* declared size of a delta entry
    MaxPairs, MaxLocations, MaxDepth,
    MaxInflate, MaxIntermediate, MaxDeltaWork, MaxCache

\* Pack names, numbered in the order of their bytes.
PackId == 1..NumPacks

PackedAssumption ==
    /\ Absent \notin Oid
    /\ NumPacks \in Nat /\ NewPack \in PackId

ASSUME PackedConstants == PackedAssumption

\* Where an object is: the loose file, or a pack.
Loose == 0

\* What is stored in a pack under an object id: a body, or a delta against the
\* object of another id or of an earlier entry.
IsPack(stored) ==
    \A i \in DOMAIN stored :
        /\ stored[i].oid \in Oid
        /\ stored[i].form \in {"base", "ref", "ofs"}
        /\ stored[i].gives \in IF stored[i].form = "base" THEN Body ELSE Body \cup {Malformed}
        /\ stored[i].form = "ref" => stored[i].base \in Oid
        /\ stored[i].form = "ofs" => stored[i].base \in DOMAIN stored

VARIABLES
    layout,     \* the repository as it was when it was opened
    loose,      \* the loose file of each object id
    pair,       \* each .pack and .idx on disk: "absent", "half", "there", "rewritten"
    listed,     \* the pairs the catalog named and has not opened yet
    opened,     \* the pairs opened and not validated yet
    packs,      \* the validated packs, in order
    unverified, \* packs verify_unchanged has still to compare
    cache, inflated, deltaWork,
    tasks, values, active, request, reply,
    dirty       \* bytes of a pair were used after the pair had changed on disk

disk == <<layout, loose, pair>>
catalog == <<listed, opened, packs, unverified>>
machine == <<tasks, values, active>>
packedVars == <<layout, loose, pair, listed, opened, packs, unverified, cache,
                inflated, deltaWork, tasks, values, active, request, reply, dirty>>

\* What is in each pack: the sequence of its entries, by offset; and the packs
\* that pass the checks of their index and of their structure.
entries == layout.entries
sound == layout.sound

Idle == [status |-> "idle"]
Busy == [status |-> "busy"]
Error(e) == [status |-> "error", error |-> e]

\* cache_bytes
CacheBytes == FoldSet(LAMBDA o, n : Size[cache[o]] + n, 0, DOMAIN cache)

\* Mutant: the maximum is not enforced.
ChargeUnchecked(spent, n, maximum) == {spent + n}

\* checked_charge: the budget with n charged to it, or nothing
CheckedCharge(spent, n, maximum) == IF spent + n > maximum THEN {} ELSE {spent + n}

-----------------------------------------------------------------------------
(* open: the catalog, then each pack *)

\* The pairs are kept in the order of their names.
CatalogOrder(S) ==
    LET upTo[n \in 0..NumPacks] ==
          IF n = 0 THEN <<>> ELSE IF n \in S THEN Append(upTo[n - 1], n) ELSE upTo[n - 1]
    IN  upTo[NumPacks]

\* open_catalog's enumeration: a pair with one file missing is a change under way.
ListCatalog ==
    LET seen == {p \in PackId : pair[p] # "absent"} IN
    /\ \/ /\ Cardinality(seen) > MaxPairs
          /\ reply' = Error("limit")
          /\ UNCHANGED listed
       \/ /\ Cardinality(seen) <= MaxPairs
          /\ \E p \in seen : pair[p] = "half"
          /\ reply' = Error("changed")
          /\ UNCHANGED listed
       \/ /\ Cardinality(seen) <= MaxPairs
          /\ \A p \in seen : pair[p] # "half"
          /\ listed' = CatalogOrder(seen)
          /\ UNCHANGED reply
    /\ UNCHANGED <<disk, opened, packs, unverified, cache, inflated, deltaWork, machine, request, dirty>>

\* open_tracked on both files of the next pair; a pair that was there when it
\* was listed and is not any more is reported as changed.
OpenPair ==
    /\ listed # <<>>
    /\ listed' = Tail(listed)
    /\ IF pair[Head(listed)] \in {"there", "rewritten"}
       THEN opened' = Append(opened, Head(listed)) /\ UNCHANGED reply
       ELSE reply' = Error("changed") /\ UNCHANGED opened
    /\ UNCHANGED <<disk, packs, unverified, cache, inflated, deltaWork, machine, request, dirty>>

\* An entry's declared size, which its header states.
Declared(e) == IF e.form = "base" THEN Size[e.gives] ELSE ProgramSize

\* ValidatedPack::open with parse_index: everything about the pair but the
\* bodies of its objects.  The structural pass inflates every entry.
ValidatePack ==
    LET p == Head(opened)
        pass == FoldFunction(LAMBDA e, n : Declared(e) + n, 0, entries[p]) IN
    /\ listed = <<>>
    /\ opened # <<>>
    /\ opened' = Tail(opened)
    /\ dirty' = (dirty \/ pair[p] # "there")
    /\ \/ /\ p \in sound /\ pair[p] # "rewritten"
          /\ inflated' \in CheckedCharge(inflated, pass, MaxInflate)
          /\ packs' = Append(packs, p)
          /\ UNCHANGED reply
       \/ /\ p \in sound /\ pair[p] # "rewritten"
          /\ CheckedCharge(inflated, pass, MaxInflate) = {}
          /\ reply' = Error("limit")
          /\ UNCHANGED <<inflated, packs>>
       \/ /\ p \notin sound \/ pair[p] = "rewritten"
          /\ reply' \in {Error("invalid")} \cup
                        (IF pair[p] # "there" THEN {Error("changed")} ELSE {})
          /\ UNCHANGED <<inflated, packs>>
    /\ UNCHANGED <<disk, listed, unverified, cache, deltaWork, machine, request>>

-----------------------------------------------------------------------------
(* read_object *)

EntryOf(p, o) == CHOOSE i \in DOMAIN entries[p] : entries[p][i].oid = o
Holds(p, o) == \E i \in DOMAIN entries[p] : entries[p][i].oid = o

\* locations: the loose file first, then the packs in order.
Locations(o) ==
    LET among[n \in 0..Len(packs)] ==
          IF n = 0 THEN (IF loose[o] # Absent THEN <<Loose>> ELSE <<>>)
          ELSE IF Holds(packs[n], o) THEN Append(among[n - 1], packs[n])
          ELSE among[n - 1]
    IN  among[Len(packs)]

LocationsError(o) ==
    IF loose[o] = Odd THEN {"oid"}
    ELSE IF Len(Locations(o)) > MaxLocations THEN {"limit"} ELSE {}

\* RequestedObjectBounds::check, which only concerns the object asked for:
\* blobMaximum holds the declared limit of a blob, if there is one.
BoundsError(o, kind, size) ==
    IF o # request.oid THEN {}
    ELSE IF kind = "blob" /\ (\E m \in request.blobMaximum : size > m) THEN {"limit"}
    ELSE IF size > request.ceiling THEN {"size"} ELSE {}

\* Mutant: the rebuilt body is not hashed.
OidUnchecked(o, body) == {}

\* verify_oid
OidError(o, body) == IF body = o THEN {} ELSE {"oid"}

Read(r) ==
    /\ request' = r
    /\ IF LocationsError(r.oid) # {}
       THEN \E e \in LocationsError(r.oid) : reply' = Error(e) /\ UNCHANGED tasks
       ELSE IF Locations(r.oid) = <<>>
       THEN reply' = [status |-> "missing"] /\ UNCHANGED tasks
       ELSE /\ reply' = Busy
            /\ tasks' = <<[do |-> "oid", oid |-> r.oid, depth |-> 0,
                           first |-> Locations(r.oid)]>>
    /\ UNCHANGED <<disk, catalog, cache, inflated, deltaWork, values, active, dirty>>

\* An error returns from resolve and drops its stacks.
Raise(errors) ==
    /\ \E e \in errors : reply' = Error(e)
    /\ tasks' = <<>> /\ values' = <<>> /\ active' = {}
    /\ UNCHANGED cache

\* The task on top of the stack is done; more is pushed in its place.
Continue(more) == tasks' = Front(tasks) \o more /\ UNCHANGED reply

\* A task leaves its object on the stack of values.
Deliver(body) == values' = Append(values, body) /\ Continue(<<>>)

Todo(what) == reply = Busy /\ tasks # <<>> /\ Last(tasks).do = what

\* check_delta_depth
DepthError(depth) == IF depth > MaxDepth THEN {"limit"} ELSE {}

\* Plan the locations of an object that is neither under way nor cached.
PlanLocations(o, depth, first) ==
    LET where == IF depth = 0 THEN first ELSE Locations(o) IN
    \/ DepthError(depth) # {} /\ Raise(DepthError(depth))
    \/ /\ DepthError(depth) = {} /\ depth > 0
       /\ LocationsError(o) # {}
       /\ Raise(LocationsError(o))
    \/ /\ DepthError(depth) = {} /\ (depth > 0 => LocationsError(o) = {})
       /\ where = <<>>
       /\ Raise({"delta_base"})
    \/ /\ DepthError(depth) = {} /\ (depth > 0 => LocationsError(o) = {})
       /\ where # <<>>
       /\ Continue(<<[do |-> "finish", oid |-> o, count |-> Len(where)]>>
                   \o [i \in 1..Len(where) |->
                         [do |-> "at", oid |-> o, pack |-> where[Len(where) + 1 - i],
                          depth |-> depth]])
       /\ active' = active \cup {o}
       /\ UNCHANGED <<values, cache>>

\* ResolveTask::ResolveOid
ResolveOid ==
    /\ Todo("oid")
    /\ LET t == Last(tasks)
           o == t.oid IN
       \/ o \in active /\ Raise({"delta_cycle"})
       \/ /\ o \notin active /\ o \in DOMAIN cache
          /\ IF BoundsError(o, Kind[cache[o]], Size[cache[o]]) # {}
             THEN Raise(BoundsError(o, Kind[cache[o]], Size[cache[o]]))
             ELSE Deliver(cache[o]) /\ UNCHANGED <<active, cache>>
       \/ /\ o \notin active /\ o \notin DOMAIN cache
          /\ PlanLocations(o, t.depth, t.first)
    /\ UNCHANGED <<disk, catalog, inflated, deltaWork, request, dirty>>

\* ResolveLocation, ObjectLocation::Loose: read_loose.
ReadLoose ==
    /\ Todo("at") /\ Last(tasks).pack = Loose
    /\ LET o == Last(tasks).oid
           body == loose[o] IN
       IF body = Absent THEN Raise({"unavailable"})
       ELSE IF BoundsError(o, Kind[body], Size[body]) # {}
       THEN Raise(BoundsError(o, Kind[body], Size[body]))
       ELSE IF Size[body] > MaxIntermediate THEN Raise({"limit"})
       ELSE IF OidError(o, body) # {} THEN Raise(OidError(o, body))
       ELSE Deliver(body) /\ UNCHANGED <<active, cache>>
    /\ UNCHANGED <<disk, catalog, inflated, deltaWork, request, dirty>>

\* What inflating entry e of pack p through the open handle gives: a file
\* rewritten in place gives anything, or fails.
Inflatable(p, e) == IF pair[p] = "rewritten" THEN Body ELSE {e.gives}
InflateErrors(p) == IF pair[p] = "rewritten" THEN {"invalid", "changed"} ELSE {}

AcceptBase(o, p, e) ==
    \E body \in Inflatable(p, e) :
        IF OidError(o, body) # {} THEN Raise(OidError(o, body))
        ELSE Deliver(body) /\ UNCHANGED <<active, cache>>

\* The object id of a delta's base; an OFS_DELTA names an earlier entry.
BaseOf(p, e) == IF e.form = "ofs" THEN entries[p][e.base].oid ELSE e.base

\* ResolveLocation, ObjectLocation::Pack
ReadPacked ==
    /\ Todo("at") /\ Last(tasks).pack # Loose
    /\ LET t == Last(tasks)
           o == t.oid
           p == t.pack
           e == entries[p][EntryOf(p, o)] IN
       \/ /\ e.form = "base" /\ BoundsError(o, Kind[e.gives], Size[e.gives]) # {}
          /\ Raise(BoundsError(o, Kind[e.gives], Size[e.gives]))
          /\ UNCHANGED <<inflated, dirty>>
       \/ /\ e.form = "base" => BoundsError(o, Kind[e.gives], Size[e.gives]) = {}
          /\ CheckedCharge(inflated, Declared(e), MaxInflate) = {}
          /\ Raise({"limit"})
          /\ UNCHANGED <<inflated, dirty>>
       \/ /\ e.form = "base" => BoundsError(o, Kind[e.gives], Size[e.gives]) = {}
          /\ inflated' \in CheckedCharge(inflated, Declared(e), MaxInflate)
          /\ dirty' = (dirty \/ pair[p] # "there")
          /\ \/ InflateErrors(p) # {} /\ Raise(InflateErrors(p))
             \/ e.form = "base" /\ AcceptBase(o, p, e)
             \/ /\ e.form # "base"
                /\ \E gives \in Inflatable(p, e) :
                     Continue(<<[do |-> "apply", oid |-> o, gives |-> gives],
                                [do |-> "oid", oid |-> BaseOf(p, e), depth |-> t.depth + 1,
                                 first |-> <<>>]>>)
                /\ UNCHANGED <<values, active, cache>>
    /\ UNCHANGED <<disk, catalog, deltaWork, request>>

\* delta::apply keeps the kind of the base.
Applied(base, gives) == IF Kind[gives] = Kind[base] THEN gives ELSE Garbage

\* ResolveTask::ApplyDelta
ApplyDelta ==
    /\ Todo("apply")
    /\ LET t == Last(tasks)
           base == Last(values)
           body == Applied(base, t.gives)
           bounds == BoundsError(t.oid, Kind[base], Size[t.gives]) IN
       \/ /\ t.gives = Malformed
          /\ Raise({"delta_program"})
          /\ UNCHANGED deltaWork
       \/ /\ t.gives # Malformed /\ bounds # {}
          /\ Raise(bounds)
          /\ UNCHANGED deltaWork
       \/ /\ t.gives # Malformed /\ bounds = {}
          /\ \/ Size[t.gives] > MaxIntermediate
             \/ CheckedCharge(deltaWork, Size[t.gives], MaxDeltaWork) = {}
          /\ Raise({"limit"})
          /\ UNCHANGED deltaWork
       \/ /\ t.gives # Malformed /\ bounds = {}
          /\ Size[t.gives] <= MaxIntermediate
          /\ deltaWork' \in CheckedCharge(deltaWork, Size[t.gives], MaxDeltaWork)
          /\ IF OidError(t.oid, body) # {} THEN Raise(OidError(t.oid, body))
             ELSE /\ values' = Append(Front(values), body)
                  /\ Continue(<<>>)
                  /\ UNCHANGED <<active, cache>>
    /\ UNCHANGED <<disk, catalog, inflated, request, dirty>>

Retire(o) == active' = active \ {o}

\* ResolveTask::FinishOid with cache_object
FinishOid ==
    /\ Todo("finish")
    /\ LET t == Last(tasks)
           start == Len(values) - t.count
           candidates == SubSeq(values, start + 1, Len(values))
           first == candidates[1]
           errors == IF \E c \in Range(candidates) : c # first THEN {"duplicate"}
                     ELSE IF /\ t.oid \notin DOMAIN cache
                             /\ CheckedCharge(CacheBytes, Size[first], MaxCache) = {}
                     THEN {"limit"} ELSE {} IN
       \/ errors # {} /\ Raise(errors)
       \/ /\ errors = {}
          /\ cache' = Insert(cache, t.oid, first)
          /\ Retire(t.oid)
          /\ values' = Append(SubSeq(values, 1, start), first)
          /\ Continue(<<>>)
    /\ UNCHANGED <<disk, catalog, inflated, deltaWork, request, dirty>>

\* The loop ends and returns the only value left.
Return ==
    /\ reply = Busy /\ tasks = <<>>
    /\ reply' = [status |-> "ok", body |-> Last(values)]
    /\ values' = <<>>
    /\ UNCHANGED <<disk, catalog, cache, inflated, deltaWork, tasks, active, request, dirty>>

Resolve == ResolveOid \/ ReadLoose \/ ReadPacked \/ ApplyDelta \/ FinishOid \/ Return

-----------------------------------------------------------------------------
(* verify_unchanged, after the last read *)

\* Mutant: a pack that is gone from disk is not noticed.
Unmissed(p) == pair[p] # "rewritten"

\* TrackedFile::is_unchanged
Unchanged(p) == pair[p] = "there"

StartVerify ==
    /\ unverified' = packs
    /\ UNCHANGED <<disk, listed, opened, packs, cache, inflated, deltaWork, machine, request,
                   reply, dirty>>

PassPack ==
    /\ unverified # <<>> /\ Unchanged(Head(unverified))
    /\ unverified' = Tail(unverified)
    /\ UNCHANGED <<disk, listed, opened, packs, cache, inflated, deltaWork, machine, request,
                   reply, dirty>>

-----------------------------------------------------------------------------
(* What other processes do to the objects *)

OnlyFiles == UNCHANGED <<layout, catalog, cache, inflated, deltaWork, machine, request,
                         reply, dirty>>

\* git repack writes the new pack, then its index.
WriteNewPack ==
    /\ pair[NewPack] \in {"absent", "half"}
    /\ pair' = [pair EXCEPT ![NewPack] = IF @ = "absent" THEN "half" ELSE "there"]
    /\ UNCHANGED loose /\ OnlyFiles

\* Then it removes the packs and loose objects that have become redundant.
RemoveOldPack(p) ==
    /\ p # NewPack /\ pair[NewPack] = "there" /\ pair[p] \in {"there", "half"}
    /\ pair' = [pair EXCEPT ![p] = IF @ = "there" THEN "half" ELSE "absent"]
    /\ UNCHANGED loose /\ OnlyFiles

PruneLoose(o) ==
    /\ pair[NewPack] = "there" /\ loose[o] # Absent
    /\ loose' = [loose EXCEPT ![o] = Absent]
    /\ UNCHANGED pair /\ OnlyFiles

\* Something overwrites a pack in place.
RewritePack(p) ==
    /\ pair[p] = "there"
    /\ pair' = [pair EXCEPT ![p] = "rewritten"]
    /\ UNCHANGED loose /\ OnlyFiles

Repacking ==
    \/ WriteNewPack
    \/ \E p \in PackId : RemoveOldPack(p) \/ RewritePack(p)
    \/ \E o \in Oid : PruneLoose(o)

-----------------------------------------------------------------------------
\* Nothing opened and nothing read yet.
PackedInit ==
    /\ listed = <<>> /\ opened = <<>> /\ packs = <<>> /\ unverified = <<>>
    /\ cache = <<>> /\ inflated = 0 /\ deltaWork = 0
    /\ tasks = <<>> /\ values = <<>> /\ active = {}
    /\ request = [oid |-> Absent, blobMaximum |-> {}, ceiling |-> 0]
    /\ reply = Idle
    /\ dirty = FALSE

-----------------------------------------------------------------------------
(* Properties of resolve *)

\* Every object the cache holds, and every object read_object returns, is the
\* object its id names, although FinishOid caches whatever is on top of the
\* stack without hashing it and packs may be rewritten during the read.
ObjectsGenuine ==
    /\ \A o \in DOMAIN cache : cache[o] = o
    /\ reply.status = "ok" => reply.body = request.oid

\* Work is charged before it is done: no budget of the database is ever exceeded,
\* however many objects are read through one cache.
WithinBudgets ==
    /\ inflated <= MaxInflate
    /\ deltaWork <= MaxDeltaWork
    /\ CacheBytes <= MaxCache
=============================================================================
