------------------------------ MODULE MCCross -------------------------------
(***************************************************************************)
(* Small workspaces for the federation and the impact analysis, and the    *)
(* stable reading of one input file.  A behaviour runs one of the two: the *)
(* analysis takes a stable reading as one step.                            *)
(***************************************************************************)
EXTENDS Impact, StableRead

VARIABLE reading    \* TRUE: this behaviour is the reading of one file

\* Schemas.
Scalar(type) == [ref |-> "none", type |-> type, required |-> {}, properties |-> <<>>,
                 well_shaped |-> TRUE]
RefTo(name) == [Scalar("nothing") EXCEPT !.ref = name]
Property(name, schema) == [name |-> name, schema |-> schema]
Object(required, properties) ==
    [Scalar("object") EXCEPT !.required = required, !.properties = properties]

Owner == Object({"id"}, <<Property("id", Scalar("string")), Property("name", Scalar("string"))>>)
Flat == Object({"id"}, <<Property("id", Scalar("integer")), Property("name", Scalar("string"))>>)
Deep == Object({"owner"}, <<Property("name", Scalar("string")), Property("owner", RefTo("Owner"))>>)

\* Contracts.
PlainYaml == [documents |-> 1, features |-> {}, nesting |-> 2, well_formed |-> TRUE,
              repeated_key |-> FALSE]

Response(schema) == [status |-> "200", valid_status |-> TRUE, links |-> FALSE,
                     media |-> {"application/json"}, schema |-> schema]

Operation(name, path, schema) ==
    [method |-> "GET", path |-> path, name |-> name, keys |-> {}, well_shaped |-> TRUE,
     responses |-> <<Response(schema)>>]

Contract(schema) ==
    [format |-> "yaml", yaml |-> PlainYaml, openapi |-> "3.1.0", title |-> "Users",
     servers |-> <<[url |-> "api", variables |-> FALSE]>>, keys |-> {},
     schemas |-> [n \in {"User", "Owner"} |-> IF n = "User" THEN schema ELSE Owner],
     operations |-> <<Operation("getUser", "user", RefTo("User"))>>]

Base == Contract(Flat)

Twice == [Base EXCEPT !.operations =
            Append(@, Operation("getUser", "users", RefTo("User")))]

With(responses) == [Base EXCEPT !.operations[1].responses = responses]

\* Contracts the extractor takes, with and without gaps.
GoodContracts ==
    {Base, Contract(Deep), Twice,
     [Base EXCEPT !.format = "json"],
     [Base EXCEPT !.keys = {"webhooks"}],
     [Base EXCEPT !.servers[1].variables = TRUE],
     [Base EXCEPT !.operations[1].keys = {"callbacks", "security"}],
     With(<<[Response(RefTo("User")) EXCEPT !.links = TRUE,
                                            !.media = {"application/json", "text/plain"}]>>)}

\* Contracts it refuses, one reason each.
BadContracts ==
    {[Base EXCEPT !.yaml.documents = 2], [Base EXCEPT !.yaml.features = {"anchor"}],
     [Base EXCEPT !.yaml.features = {"directive"}], [Base EXCEPT !.yaml.nesting = 9],
     [Base EXCEPT !.yaml.well_formed = FALSE], [Base EXCEPT !.yaml.repeated_key = TRUE],
     [Base EXCEPT !.openapi = "3.0.0"], [Base EXCEPT !.title = "none"],
     [Base EXCEPT !.servers[1].url = "elsewhere"],
     [Base EXCEPT !.operations[1].well_shaped = FALSE],
     With(<<>>), With(<<Response(RefTo("User")), Response(RefTo("Owner"))>>),
     [Twice EXCEPT !.operations = Append(@, Operation("more", "more", RefTo("User")))],
     Contract(RefTo("remote")), Contract(RefTo("User")), Contract(RefTo("Nowhere")),
     Contract(Object({}, <<Property("id", Scalar("date"))>>)),
     Contract([Flat EXCEPT !.well_shaped = FALSE]),
     Contract(Object({}, <<Property("owner", RefTo("User"))>>)),
     [Base EXCEPT !.keys = {"webhooks", "security"}, !.servers[1].variables = TRUE,
                  !.operations[1].keys = {"callbacks", "security"}]}

\* Files.
File(kind, size, value) == [kind |-> kind, size |-> size, value |-> value]
ContractFile(contract) == File("contract", 2, contract)

Explicit(operation, path) ==
    [kind |-> "explicit", authority |-> "api", method |-> "GET", target |-> path,
     operation |-> operation, service |-> "none"]
Heuristic(service, operation) ==
    [kind |-> "heuristic", authority |-> "none", method |-> "none", target |-> "none",
     operation |-> operation, service |-> service]

ClientFile(repository, role, binding) ==
    File("declaration", 1,
         [role |-> role, repository |-> repository, revision |-> "c1", source |-> "Client.kt",
          symbol |-> "decode", binding |-> binding])

Right == Explicit("getUser", "user")

Declarations ==
    {ClientFile("one", "strict", b) :
        b \in {Right, Explicit("getUser", "users"), [Right EXCEPT !.authority = "other"],
               Heuristic("Users", "getUser"), Heuristic("Users", "other")}}

OtherDeclarations ==
    {ClientFile("two", "safe", Right), ClientFile("one", "safe", Right),
     ClientFile("one", "safe", Explicit("getUser", "users")),
     [ClientFile("one", "safe", Right) EXCEPT !.value.symbol = "again"]}

WorkspaceOf(contract, first, second) ==
    [p \in 0..3 |->
        CASE p = 0 -> File("workspace", 1,
                [provider |-> [path |-> 1, digest |-> contract, repository |-> "provider",
                               revision |-> "p1", authority |-> "api"],
                 clients |-> <<[path |-> 3, digest |-> second, role |-> "safe"],
                               [path |-> 2, digest |-> first, role |-> "strict"]>>])
          [] p = 1 -> contract
          [] p = 2 -> first
          [] OTHER -> second]

Usual == WorkspaceOf(ContractFile(Base), ClientFile("one", "strict", Right),
                     ClientFile("two", "safe", Right))

MCWorkspaces ==
    {WorkspaceOf(ContractFile(c), d, e) : c \in GoodContracts, d \in Declarations,
                                          e \in OtherDeclarations}
    \union {WorkspaceOf(ContractFile(c), ClientFile("one", "strict", Right),
                        ClientFile("two", "safe", Right)) : c \in BadContracts}
    \union {[Usual EXCEPT ![0].kind = "text"], [Usual EXCEPT ![0].size = 9],
            [Usual EXCEPT ![1].size = 9], [Usual EXCEPT ![2].size = 6],
            WorkspaceOf(File("text", 2, "none"), ClientFile("one", "strict", Right),
                        ClientFile("two", "safe", Right)),
            [Usual EXCEPT ![0] = Missing], [Usual EXCEPT ![2] = Missing],
            [Usual EXCEPT ![0].value.clients = @ \o @],
            [Usual EXCEPT ![0].value.clients[1].role = "strict"]}

MCReplacements ==
    {ContractFile(Contract(Deep)), ClientFile("one", "strict", Explicit("getUser", "users")),
     File("text", 8, "none")}

\* Provider bodies and client decoders.
Statement(kind, fields, line) ==
    [kind |-> kind, fields |-> fields, line |-> line, alternative |-> FALSE,
     effectful |-> FALSE]

Puts(field, line) == Statement("insert", <<field>>, line)
MayPut(field, line) == Statement("if", <<field>>, line)
Merges(line) == Statement("extend", <<>>, line)

Both == <<Puts("id", 1), Puts("name", 2)>>

Bodies ==
    {Both, <<Puts("id", 1), MayPut("name", 2)>>, <<MayPut("name", 1), Puts("id", 2)>>,
     <<Puts("id", 1), Puts("name", 1)>>, <<Statement("if", <<"id", "name">>, 1)>>,
     <<Puts("id", 1)>>, <<Puts("id", 1), Merges(2)>>, <<Merges(1), Puts("name", 2)>>,
     <<MayPut("id", 1), MayPut("name", 2)>>, <<Puts("id", 1), Puts("id", 2)>>,
     <<Puts("id", 1), Puts("owner", 2)>>, <<Puts("id", 1), Statement("other", <<>>, 2)>>,
     <<Puts("id", 1), [MayPut("name", 2) EXCEPT !.alternative = TRUE]>>, <<Merges(1)>>}

Access(kind, field) == [kind |-> kind, field |-> field]

Decoders ==
    {<<Access("getValue", "name")>>, <<Access("safe", "name")>>,
     <<Access("getValue", "id"), Access("safe", "name")>>,
     <<Access("getValue", "name"), Access("other", "none")>>,
     <<Access("index", "name")>>, <<Access("safe", "id")>>,
     <<Access("getValue", "name"), Access("safe", "name")>>}

Client(repository, role, decoder) ==
    [repository |-> repository, role |-> role, revision |-> "c1", federation_revision |-> "c1",
     source |-> "Client.kt", symbol |-> "decode", path |-> "user", control |-> FALSE,
     decoder |-> decoder]

Revision(name, contract, body) ==
    [revision |-> name, federation_revision |-> "p1", contract |-> contract, body |-> body]

Analysis(before, after, clients) ==
    [kind |-> "files", repository |-> "provider", baseline |-> Revision("p1", Base, before),
     target |-> Revision("p2", Base, after), clients |-> clients]

Strict(decoder) == Client("one", "strict", decoder)
Lenient == Client("two", "safe", <<Access("safe", "name")>>)
Plainly == Strict(<<Access("getValue", "name")>>)

Breaking == Analysis(Both, <<Puts("id", 1), MayPut("name", 2)>>, <<Plainly, Lenient>>)
Elsewhere == Contract(Deep)

UnusualAnalyses ==
    {Breaking, [Breaking EXCEPT !.target.revision = "p1"], [Breaking EXCEPT !.clients = <<>>],
            [Breaking EXCEPT !.clients = <<Plainly, Plainly>>],
            [Breaking EXCEPT !.clients[1].repository = "provider"],
            [Breaking EXCEPT !.clients[1].repository = "three"],
            [Breaking EXCEPT !.clients[1].role = "decoy"],
            [Breaking EXCEPT !.clients[1].symbol = "again"],
            [Breaking EXCEPT !.clients[1].revision = "c2"],
            [Breaking EXCEPT !.clients[1].path = "users"],
            [Breaking EXCEPT !.clients[1].control = TRUE],
            [Breaking EXCEPT !.baseline.revision = "p0"],
            [Breaking EXCEPT !.repository = "other"],
            [Breaking EXCEPT !.target.contract = Elsewhere],
            [Breaking EXCEPT !.baseline.contract = Elsewhere, !.target.contract = Elsewhere],
            [Breaking EXCEPT !.target.contract.title = "People"],
            [Breaking EXCEPT !.kind = "git", !.baseline.revision = "g1",
                             !.target.revision = "g2", !.clients[1].revision = "g3"]}

\* Every pair of bodies against the usual federation, the unusual analyses
\* against every other.
MCAnalyses(workspace) ==
    IF workspace = Usual[0].value
    THEN UnusualAnalyses
         \union {Analysis(b, a, <<Strict(d), Lenient>>) : b, a \in Bodies, d \in Decoders}
    ELSE UnusualAnalyses

-----------------------------------------------------------------------------
TwoFiles == [f1 |-> <<"a", "a">>, f2 |-> <<"b", "b">>]

\* Six writes in place are what it takes to fool two readings.
Writes == [in_place |-> 6, rewrite |-> 4, replace |-> 2]

crossVars == <<files, edits, fed, imp, content, mtime, named, clock, recent, writes, style, reader,
               reading>>

CrossInit ==
    \/ /\ reading = FALSE
       /\ style = "in_place" /\ reader = NewReader(read_stable_with)
       /\ StableInit /\ ImpactInit
    \/ /\ reading = TRUE
       /\ files = Usual
       /\ StableInit /\ ImpactInit

CrossNext ==
    /\ UNCHANGED reading
    /\ \/ ~reading /\ ImpactNext /\ UNCHANGED stableVars
       \/ reading /\ StableNext /\ UNCHANGED impactVars

CrossSpec == CrossInit /\ [][CrossNext]_crossVars

=============================================================================
