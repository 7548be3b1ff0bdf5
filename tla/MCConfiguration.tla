--------------------------- MODULE MCConfiguration ----------------------------
(* Configurations for TLC: files that override each other, backends that   *)
(* refer to each other, servers whose paths overlap, and what is refused.  *)
EXTENDS Configuration

LexicalNames ==
    <<"", "*", "**", "..", "a", "b", "backend", "basic_auth",
      "beta_job", "c", "client_certificate", "cors", "d", "default",
      "endpoint", "id", "index.html", "jwt", "jwt_signing_profile",
      "response", "s", "saml", "server_certificate", "x", "y",
      "{id}", "{x}">>

A(name, value) == name :> value
Response     == Block("response", << >>, NoAttrs, << >>)
Ep(path)     == Block("endpoint", <<path>>, NoAttrs, <<Response>>)
EpOf(path, attrs, blocks) == Block("endpoint", <<path>>, attrs, blocks)
Server(attrs, blocks)     == Block("server", <<"s">>, attrs, blocks)
API(label, attrs, blocks) == Block("api", label, attrs, blocks)
Handler(labels, status)   == Block("error_handler", labels, A("status", status), << >>)
Defs(blocks)              == Block("definitions", << >>, NoAttrs, blocks)
Basic(name)               == Block("basic_auth", <<name>>, NoAttrs, << >>)
File(blocks)              == Body(NoAttrs, blocks)

-------------------------------------------------------------------------------
(* Two files that say different things about the same server.              *)
Parts(n) ==
    <<Ep(<<"a">>),
      EpOf(<<"b">>, A("proxy", "x"), << >>),
      Block("cors", << >>, A("max_age", n), << >>),
      Block("tls", << >>, A("min_version", n),
            <<Block("server_certificate", << >>, A("n", n), << >>),
              Block("server_certificate", << >>, A("m", n), << >>),
              Block("client_certificate", <<"a">>, A("n", n), << >>)>>)>>

APIParts(n) ==
    <<EpOf(<<"a">>, A("n", n), <<Response>>),
      Handler(<< <<"a", "b">> >>, n),
      Handler(IF n = 1 THEN << <<"c", "d">> >> ELSE << <<"d">>, <<"c">> >>, n),
      Block("cors", << >>, A("max_age", n), << >>)>>

Some(parts, which) == SelectSeq(parts, LAMBDA p : p \in {parts[i] : i \in which})

FileOf(n, inServer, inAPI) ==
    File(<<Server(A("base_path", <<"s">>) @@ (IF 1 \in inServer THEN A("error_file", n) ELSE NoAttrs),
                  Some(Parts(n), inServer)
                  \o <<API(<<>>, A("base_path", <<"d">>) @@ (IF 2 \in inAPI THEN A("error_file", n) ELSE NoAttrs),
                           Some(APIParts(n), inAPI))>>),
           Defs(<<Block("proxy", <<"x">>, A("n", n) @@ A("name", "default"), << >>),
                  Block("backend", <<"b">>, A("origin", IF 3 \in inServer THEN n ELSE 0), << >>)>>),
           Block("defaults", << >>, A("environment_variables", A("x", n) @@ (IF n = 1 THEN A("y", n) ELSE NoAttrs)), << >>),
           Block("settings", << >>, A("health_path", n), << >>)>>)

MergeInputs ==
    {<<FileOf(1, s, t), FileOf(2, u, v)>> :
        s \in {{1, 2}, {3, 4}}, u \in {{1, 4}, {2, 3}, {2, 4}}, t \in SUBSET {1, 2, 3}, v \in {{}, {1, 4}, {2, 3}, {1, 2, 3, 4}}}

-------------------------------------------------------------------------------
(* Backends whose authorizers refer to other backends.                     *)
OAuth(refs) ==
    IF refs = << >> THEN << >>
    ELSE <<Block("oauth2", << >>, A("backend", refs[1]), << >>)>>
         \o [i \in 1 .. Len(refs) - 1 |-> Block("beta_token_request", <<refs[i + 1]>>, A("backend", refs[i + 1]), << >>)]

Backend(name, refs) == Block("backend", <<name>>, A("origin", 1), OAuth(refs))

References_ == {<< >>, <<"a">>, <<"b">>, <<"c">>, <<"a", "b">>, <<"b", "c">>, <<"a", "c">>, <<"c", "b">>, <<"d">>}

BackendInputs ==
    {<<File(<<Server(NoAttrs, <<Ep(<<"a">>)>>),
              Defs(<<Backend("a", r[1]), Backend("b", r[2]), Backend("c", r[3])>>)>>)>> :
        r \in {q \in References_ \X References_ \X References_ : "a" \notin ToSet(q[1])}}

-------------------------------------------------------------------------------
(* Servers whose apis, endpoints, files and spas share paths.              *)
Base(path) == IF path = << >> THEN NoAttrs ELSE A("base_path", path)
AC(names)  == IF names = << >> THEN NoAttrs ELSE A("access_control", names)
FilesAt(path) == Block("files", <<"a">>, Base(path) @@ A("document_root", {<<"index.html">>, <<"a">>}), << >>)
SPAAt(path)   == Block("spa", << >>, Base(path) @@ A("paths", <<<<"**">>>>)
                                       @@ A("bootstrap_file", <<"index.html">>), << >>)

EndpointSets ==
    {<<Ep(<<"a">>), Ep(<<"{x}">>)>>, <<Ep(<<"a">>), Ep(<<"{x}", "">>)>>,
     <<Ep(<<"a", "b">>), Ep(<<"{x}", "b">>), Ep(<<"a", "{id}">>), Ep(<<"a", "**">>)>>,
     <<Ep(<<"a", "**">>), Ep(<<"a">>)>>,
     <<Ep(<<"**">>), Ep(Root)>>,
     <<Ep(<<"a", "">>), Ep(<<"a">>)>>,
     <<EpOf(<<"a">>, A("disable_access_control", <<"x">>), <<Response>>)>>}

SiteSets ==
    {<< >>, <<FilesAt(<< >>)>>, <<FilesAt(<< >>), FilesAt(<<"x">>)>>, <<SPAAt(<<"b">>)>>,
     <<FilesAt(<< >>), SPAAt(<< >>)>>}

RouteInputs ==
    {<<File(<<Server(Base(b) @@ AC(outer) @@ A("hosts", <<[name |-> "*", port |-> 0]>>),
                     sites \o <<Ep(<<"y">>)>>
                     \o <<API(<<"a">>, Base(p) @@ AC(inner), eps), API(<<"b">>, Base(<<"a">>), <<Ep(<<"d">>)>>)>>),
              Defs(<<Basic("x"), Basic("y")>>)>>)>> :
        b \in {<< >>, <<"s">>}, p \in {<< >>, <<"b">>}, outer \in {<< >>, <<"x">>}, inner \in {<< >>, <<"x", "y">>},
        eps \in EndpointSets, sites \in SiteSets}

Paths == {Root, <<"a">>, <<"a", "b">>, <<"a", "">>, <<"b", "a">>, <<"b", "a", "b">>, <<"b">>, <<"x", "a">>, <<"s">>,
          <<"s", "a">>, <<"s", "b", "x">>, <<"index.html">>, <<"s", "x", "index.html">>}

-------------------------------------------------------------------------------
(* What is refused, one input for each reason, and environments.           *)
With(server, defs) == <<File(<<Server(NoAttrs, server), Defs(defs)>>)>>
OneEp(blocks)      == <<EpOf(<<"a">>, NoAttrs, blocks)>>
Proxy(attrs, blocks)   == Block("proxy", << >>, attrs, blocks)
Inner(labels, attrs)   == Block("backend", labels, attrs, << >>)
Env(label, blocks) == Block("environment", label, NoAttrs, blocks)

RefusedInputs ==
    {With(<<Ep(<<"a">>), Ep(<<"a">>)>>, << >>),
     With(<<Ep(<<"{x}">>), Ep(<<"{id}">>)>>, << >>),
     With(<<Ep(<<"a", "..">>)>>, << >>),
     With(<<Ep(<<"a">>)>>, <<Basic("a"), Basic("a")>>),
     With(<<Ep(<<"a">>)>>, <<Backend("b", << >>), Backend("b", << >>)>>),
     With(<<Ep(<<"a">>)>>, <<Block("backend", <<"b">>, A("disable_certificate_validation", TRUE),
                                   <<Block("tls", << >>, A("server_ca_certificate", "a"), << >>)>>)>>),
     With(<<Ep(<<"a">>)>>, <<Block("saml", <<"a">>, NoAttrs, << >>)>>),
     With(<<Ep(<<"a">>)>>, <<Block("jwt_signing_profile", <<"a">>, A("headers", {"alg"}), << >>)>>),
     With(<<Ep(<<"a">>)>>, <<Block("beta_job", <<"a">>, NoAttrs, << >>)>>),
     With(<<Ep(<<"a">>)>>, <<Block("beta_job", <<"a">>, A("interval", "1s"), << >>)>>),
     With(<<EpOf(<<"a">>, AC(<<"x">>), <<Response>>)>>, << >>),
     With(<<EpOf(<<"a">>, A("proxy", "x"), << >>)>>, << >>),
     With(OneEp(<< >>), << >>),
     With(OneEp(<<Proxy(NoAttrs, << >>), Proxy(NoAttrs, << >>)>>), << >>),
     With(OneEp(<<Proxy(A("websockets", TRUE), << >>), Response>>), << >>),
     With(OneEp(<<Response, Handler(<< <<"a">> >>, 1), Handler(<< <<"a">> >>, 2)>>), << >>),
     With(OneEp(<<Response, Handler(<< <<"y">> >>, 1)>>), << >>),
     With(OneEp(<<Proxy(A("backend", "b"), << >>)>>), << >>),
     With(OneEp(<<Proxy(A("backend", "b"), <<Inner(<< >>, NoAttrs)>>)>>), << >>),
     With(OneEp(<<Proxy(NoAttrs, <<Inner(<<"b">>, A("http2", TRUE))>>)>>), <<Backend("b", << >>)>>),
     With(OneEp(<<Proxy(NoAttrs, <<Block("backend", << >>, NoAttrs, <<Block("beta_rate_limit", << >>, NoAttrs, << >>)>>)>>)>>), << >>),
     With(<<API(<< >>, NoAttrs, <<EpOf(<<"a">>, A("required_permission", "a"), <<Response>>), Ep(<<"b">>)>>)>>, << >>),
     With(<<Ep(<<"a">>)>>, <<Block("backend", <<"b">>, NoAttrs,
                 <<Block("oauth2", << >>, NoAttrs, <<Block("backend", << >>, NoAttrs, OAuth(<<"b">>))>>)>>)>>),
     <<File(<<Server(NoAttrs, <<Ep(<<"a">>)>>), Server(NoAttrs, <<Ep(<<"b">>)>>), Defs(<< >>)>>)>>,
     <<File(<<Defs(<< >>)>>)>>,
     <<File(<<Server(NoAttrs, <<Ep(<<"a">>)>>), Server(NoAttrs, << >>)>>), File(<< >>)>>}

EnvironmentInputs ==
    {<<File(<<Server(NoAttrs, <<Ep(<<"a">>), Env(l, <<Ep(<<"b">>)>>)>>), Defs(<< >>)>> \o s)>> :
        l \in {<< >>, <<"x">>, <<"y", "x">>},
        s \in {<< >>, <<Block("settings", << >>, A("environment", "x"), << >>)>>}}
    \cup {<<File(<<Server(NoAttrs, <<Ep(<<"a">>)>>),
                   Block("settings", << >>, A("bind_address", a), << >>)>>)>> :
            a \in {<<"10.0.0.1", "*">>, <<"*", "invalid">>, <<"invalid">>}}

(* The files that override each other are such as can be decoded.          *)
ASSUME MergedFilesAssumption ==
    \A files_ \in MergeInputs : \A i \in DOMAIN files_ : IsFile(files_[i])

SampleInputs == MergeInputs \cup BackendInputs \cup RouteInputs \cup RefusedInputs \cup EnvironmentInputs
===============================================================================
