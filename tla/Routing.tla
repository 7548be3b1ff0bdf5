------------------------------- MODULE Routing --------------------------------
(***************************************************************************)
(* From the servers of a configuration to the handler of a request:        *)
(* NewServerConfiguration (config/runtime/server.go, endpoint.go,          *)
(* server/options.go) makes the routes of every port and host, the mux     *)
(* (server/mux.go) finds the route for a path.                             *)
(***************************************************************************)
EXTENDS Validate

CONSTANT DefaultPort

-------------------------------------------------------------------------------
(* Hosts and ports                                                         *)

(* A host is a record of a name and a port, 0 standing for none or "*".    *)
PortHosts(server) ==
    LET hosts == IF Attr(server, "hosts", << >>) = << >>
                 THEN <<[name |-> "*", port |-> 0]>> ELSE server.attrs["hosts"]
    IN  {[h EXCEPT !.port = IF @ = 0 THEN DefaultPort ELSE @] : h \in ToSet(hosts)}

HostProblems(servers) ==
    When(Len(servers) > 1 /\ \E i \in DOMAIN servers : Attr(servers[i], "hosts", << >>) = << >>,
         "hosts are mandatory")
    \cup When(\E i, j \in DOMAIN servers : i # j /\ PortHosts(servers[i]) \cap PortHosts(servers[j]) # {},
              "conflicting hosts")

-------------------------------------------------------------------------------
(* The options of a server                                                 *)

SrvBasePath(server)         == Join(BasePath(server), << >>)
APIBasePath(server, api)    == Join(SrvBasePath(server), BasePath(api))
SiteBasePath(server, block) == JoinOpenAPIPath(SrvBasePath(server), BasePath(block))

APIs(server)  == BlocksOfType(server, "api")
Endpoints(b)  == {e \in ToSet(b.blocks) : e.type = "endpoint"}
Sites(server) == BlocksOfType(server, "files") \o BlocksOfType(server, "spa")

-------------------------------------------------------------------------------
(* Access control                                                          *)

(* AccessControl.Merge and List: what server, api and endpoint name, in    *)
(* this order, each once, but for what any of the three disables.          *)
AccessControls(blocks) ==
    LET all      == FoldLeft(LAMBDA acc, b : acc \o SelectSeq(Attr(b, "access_control", << >>),
                                                              LAMBDA n : n \notin ToSet(acc)),
                             << >>, blocks)
        disabled == UNION {ToSet(Attr(b, "disable_access_control", << >>)) : b \in ToSet(blocks)}
    IN  SelectSeq(all, LAMBDA n : n \notin disabled)

-------------------------------------------------------------------------------
(* Routes                                                                  *)

Route(kind, pattern, block, controls) ==
    [kind |-> kind, pattern |-> pattern, block |-> block, controls |-> controls]

CatchAllPattern == <<"**">>
CatchAll        == Block("catch-all", <<CatchAllPattern>>, NoAttrs, << >>)

(* newEndpointMap: an api with access control gets an endpoint that        *)
(* catches every path below its base path, unless there is one, or files   *)
(* or an spa share the base path.                                          *)
HasCatchAll(server, base) ==
    \E a \in ToSet(APIs(server)) :
        /\ APIBasePath(server, a) = base
        /\ \E e \in Endpoints(a) : e.labels[1] = CatchAllPattern

(* Mutant of UniqueToSites: files and spas below the api count as well. *)
UniqueAndEmpty(server, base) ==
    \A b \in ToSet(Sites(server)) : ~Below(base, SiteBasePath(server, b))

UniqueToSites(server, base) ==
    \A b \in ToSet(Sites(server)) : SiteBasePath(server, b) # base

CaughtBasePaths(server) ==
    {base \in {APIBasePath(server, a) : a \in
                  {b \in ToSet(APIs(server)) : AccessControls(<<server, b>>) # << >>}} :
        ~HasCatchAll(server, base) /\ UniqueToSites(server, base)}

(* Of several such apis with one base path the first one gets it.          *)
FirstGuarded(server, base) ==
    SelectInSeq(APIs(server), LAMBDA a : /\ APIBasePath(server, a) = base
                                         /\ AccessControls(<<server, a>>) # << >>)

CatchAllRoute(server, base) ==
    Route("api", JoinOpenAPIPath(base, CatchAllPattern), CatchAll,
          AccessControls(<<server, APIs(server)[FirstGuarded(server, base)]>>))

CatchAllRoutes(server) == {CatchAllRoute(server, base) : base \in CaughtBasePaths(server)}

EndpointRoutes(server) ==
    {Route("endpoint", JoinOpenAPIPath(SrvBasePath(server), e.labels[1]), e, AccessControls(<<server, e>>)) :
        e \in Endpoints(server)}
    \cup CatchAllRoutes(server)
    \cup UNION {{Route("api", JoinOpenAPIPath(APIBasePath(server, a), e.labels[1]), e,
                       AccessControls(<<server, a, e>>)) : e \in Endpoints(a)} :
                    a \in ToSet(APIs(server))}

FileRoutes(server) ==
    {Route("files", SiteBasePath(server, f), f, AccessControls(<<server, f>>)) :
        f \in ToSet(BlocksOfType(server, "files"))}

SPARoutes(server) ==
    UNION {{Route("spa", IF p = CatchAllPattern THEN Named(SrvBasePath(server) \o BasePath(s)) \o p
                         ELSE Join(Join(SrvBasePath(server), BasePath(s)), p), s, AccessControls(<<server, s>>)) :
                p \in ToSet(s.attrs["paths"])} : s \in ToSet(BlocksOfType(server, "spa"))}

(* setRoutesFromHosts refuses a pattern that is taken.                     *)
RouteProblems(server) ==
    When(\E routes \in {EndpointRoutes(server), FileRoutes(server), SPARoutes(server)} :
            \E r, s \in routes : r # s /\ r.pattern = s.pattern, "duplicate route")

-------------------------------------------------------------------------------
(* The mux                                                                 *)

(* Mutant of Precedes: a parameter is a name like any other. *)
LongestFirst(p, q) ==
    IF Wildcard(p) # Wildcard(q) THEN Wildcard(q)
    ELSE IF Len(p) # Len(q) THEN Len(p) > Len(q)
    ELSE Before(q, p)

(* SortPathPatterns: whole paths before wildcards, long ones before short  *)
(* ones, a name before a parameter.                                        *)
Precedes(p, q) ==
    IF Wildcard(p) # Wildcard(q) THEN Wildcard(q)
    ELSE IF Len(p) # Len(q) THEN Len(p) > Len(q)
    ELSE LET differ == {i \in DOMAIN p : (p[i] \in Params) # (q[i] \in Params)}
         IN  IF differ # {} THEN q[Min(differ)] \in Params ELSE Before(p, q)

Pattern(route) == IF route.kind = "files" THEN Named(route.pattern) \o CatchAllPattern ELSE route.pattern

(* The routes are registered in this order and the first that matches wins.*)
Matching(routes, path) == {r \in routes : Matches(Pattern(r), path)}
First(routes) == CHOOSE r \in routes : \A s \in routes \ {r} : Precedes(r.pattern, s.pattern)

(* The bootstrap files of the spas, one for every path they are mounted    *)
(* on; the files handler leaves them, and their directories, to the spa.   *)
BootstrapFiles(server) ==
    UNION {LET dir(p) == LET mount == SelectSeq(p, LAMBDA s : s \notin {"", "**"})
                         IN  IF IsSuffix(mount, Front(b.attrs["bootstrap_file"])) /\ ~Wildcard(p)
                             THEN Front(b.attrs["bootstrap_file"])
                             ELSE Front(b.attrs["bootstrap_file"]) \o mount
           IN  {Append(dir(p), Last(b.attrs["bootstrap_file"])) : p \in ToSet(b.attrs["paths"])} :
              b \in ToSet(BlocksOfType(server, "spa"))}

PreferSPA(server, path) ==
    \E f \in BootstrapFiles(server) : path \in {f, Front(f)}

(* File.HasResponse: a file of the document root, or a directory with an   *)
(* index file.                                                             *)
HasResponse(files, server, path) ==
    LET below == Named(SubSeq(path, Len(Named(SiteBasePath(server, files))) + 1, Len(path)))
    IN  /\ {below, Append(below, "index.html")} \cap files.attrs["document_root"] # {}
        /\ ~PreferSPA(server, below)

(* getAPIErrorTemplate: a path below an api without a route is an error of *)
(* this api, except where files or an spa share its base path. With        *)
(* several of them it is enough that one of each has another base path.    *)
BasePathsOf(server, type) ==
    LET blocks == BlocksOfType(server, type)
    IN  IF blocks = << >> THEN {<< >>} ELSE {SiteBasePath(server, b) : b \in ToSet(blocks)}

isAPIError(server, api, path) ==
    /\ Below(APIBasePath(server, api), path)
    /\ \E f \in BasePathsOf(server, "files"), s \in BasePathsOf(server, "spa") :
          APIBasePath(server, api) \notin {f, s}

Answer(by, controls, route) == [by |-> by, controls |-> controls, route |-> route]
NoRoute == Route("none", << >>, CatchAll, << >>)
ByRoute(r) == Answer(r.kind, r.controls, r)

FindHandler(server, path) ==
    LET endpoints == Matching(EndpointRoutes(server), path)
        files     == Matching(FileRoutes(server), path)
        spas      == Matching(SPARoutes(server), path)
    IN  CASE endpoints # {} -> ByRoute(First(endpoints))
          [] endpoints = {} /\ \E a \in ToSet(APIs(server)) : isAPIError(server, a, path) ->
                Answer("api error", << >>, NoRoute)
          [] OTHER ->
                IF files # {} /\ HasResponse(First(files).block, server, path) THEN ByRoute(First(files))
                ELSE IF spas # {} THEN ByRoute(First(spas))
                ELSE IF files # {} THEN ByRoute(First(files))
                ELSE Answer("not found", << >>, NoRoute)

-------------------------------------------------------------------------------
(* What is known of a server that has been accepted                        *)

IsPattern(p) == p \in Seq(Names) /\ p # << >>

(* What NewServerConfiguration hands to the mux: the lists of the parser    *)
(* are lists, the names are known, each endpoint lies at one place of a    *)
(* file, and routes of one kind are finitely many, no two of one pattern.  *)
IsServed(server) ==
    /\ RouteProblems(server) = {}
    /\ \A routes \in {EndpointRoutes(server), FileRoutes(server), SPARoutes(server)} :
          IsFiniteSet(routes) /\ \A r \in routes : IsPattern(r.pattern)
    /\ IsList(APIs(server)) /\ IsList(BasePath(server))
    /\ \A a \in ToSet(APIs(server)) :
          /\ IsList(BasePath(a))
          /\ Endpoints(a) \cap Endpoints(server) = {}
          /\ \A b \in ToSet(APIs(server)) : a = b \/ Endpoints(a) \cap Endpoints(b) = {}
    /\ \A b \in ToSet(APIs(server)) \cup {r.block : r \in EndpointRoutes(server)} :
          IsList(BlocksOfType(b, "error_handler"))
===============================================================================
