----------------------------- MODULE MergedFiles ------------------------------
(***************************************************************************)
(* What configuration files say, and what their merged configuration says  *)
(* (configload/merge.go, called by bodiesToConfig in load.go).             *)
(***************************************************************************)
EXTENDS Merge

VARIABLES
    bodies,   \* the files without environment blocks
    conf      \* the merged configuration

Nothing       == Body(NoAttrs, << >>)
NothingMerged == bodies = << >> /\ conf = Nothing

(* mergeServers refuses a label that is there twice.                       *)
ParsedFiles(files) == conf = Nothing /\ bodies' = files /\ UNCHANGED conf
MergeBodies   == bodies # << >> /\ ~LabelTwice(bodies) /\ conf' = Merged(bodies) /\ UNCHANGED bodies

MergeSpec(files) == NothingMerged /\ [][ParsedFiles(files) \/ MergeBodies]_<<bodies, conf>>

-------------------------------------------------------------------------------
(* What a body says, each thing under a key. Settings, defaults, servers,  *)
(* apis, spas, files and the tls of a server say what is in them; another  *)
(* block says itself. Proxies are said by the endpoints that refer to them.*)
Containers == {"definitions", "defaults", "settings", "server", "api", "spa", "files", "tls"}

Name(c) == CASE c.type = "error_handler" -> ToSet(Kinds(c))
             [] c.type = "endpoint"      -> c.labels[1]
             [] OTHER                    -> Label(c)
Item(c) == <<c.type, Name(c)>>

Plain(b)    == {c \in ToSet(b.blocks) : c.type \notin Containers \cup {"proxy"}}
Contexts(b) == {c \in ToSet(b.blocks) : c.type \in Containers}

Own(proxies, b) ==
    {<<<<"attribute", n>>, b.attrs[n]>> : n \in DOMAIN b.attrs \ {"environment_variables"}}
    \cup {<<<<"variable", v>>, Variables(b).attrs[v]>> : v \in DOMAIN Variables(b).attrs}
    \cup {<<<<"block", Item(c)>>, IF c.type = "endpoint" THEN addProxy(c, proxies) ELSE c>> : c \in Plain(b)}

Says(proxies, place, b) == {<<<<place, f[1]>>, f[2]>> : f \in Own(proxies, b)}

SaidBy(proxies, body) ==
    Says(proxies, << >>, body)
    \cup UNION {Says(proxies, <<Item(c)>>, c)
                \cup UNION {Says(proxies, <<Item(c), Item(d)>>, d) : d \in Contexts(c)} : c \in Contexts(body)}

(* Of what is said under one key, what the last said that said something.  *)
Latest(said) ==
    UNION {{f \in said[i] : \A j \in DOMAIN said : j > i => \A g \in said[j] : g[1] # f[1]} : i \in DOMAIN said}

(* A file that gives two blocks of one context the same label (the docs do *)
(* not allow it, see the README) says two things under one key. A tls      *)
(* block may have several certificates without a label.                    *)
Certificates == {"server_certificate", "client_certificate"}
Unambiguous(said) ==
    \A f, g \in said : f[1] = g[1] /\ f[1][2] \notin {<<"block", <<t, << >>>>>> : t \in Certificates} => f = g

-------------------------------------------------------------------------------
(* Properties.                                                             *)

(* Of everything that several files say, the merged configuration says     *)
(* what the last of them said that said something, and nothing else        *)
(* (multiple-files.md), whatever block it is in, however deep, and however *)
(* an error_handler's kinds are written.                                   *)
LastDefinitionCounts ==
    LET proxies == Proxies(bodies)
        said    == [i \in DOMAIN bodies |-> SaidBy(proxies, bodies[i])]
    IN  conf # Nothing /\ (\A i \in DOMAIN bodies : Unambiguous(said[i])) =>
            SaidBy(proxies, conf) = Latest(said)

-------------------------------------------------------------------------------
(* The files that the types of package config can decode: which blocks and *)
(* attributes there are where, and what has a label. A server has one tls  *)
(* block, and an error_handler that names a kind twice is refused later    *)
(* (newErrorHandlerContent). The property is proved for these.             *)
IsName(n)  == n \in Names
IsNames(s) == s \in Seq(Names)

IsBlock(c) == /\ DOMAIN c = {"type", "labels", "attrs", "blocks", "file", "position"}
              /\ IsList(c.labels)
              /\ IsList(c.blocks)
              /\ c.type # "defaults" => ~Has(c, "environment_variables")

HasNoLabel(c) == IsBlock(c) /\ c.labels = << >>
MayHaveOne(c) == IsBlock(c) /\ (c.labels # << >> => IsName(c.labels[1]))
HasLabel(c)   == MayHaveOne(c) /\ c.labels # << >>
HasName(c)    == IsName(c.type) /\ c.type \notin Containers \cup {"endpoint", "error_handler", "proxy"}

IsEndpointBlock(c) == IsBlock(c) /\ c.type = "endpoint" /\ c.labels # << >> /\ IsNames(c.labels[1])
IsHandler(c)  == /\ IsBlock(c)
                 /\ c.type = "error_handler"
                 /\ \A l \in ToSet(c.labels) : IsNames(l)
                 /\ IsInjective(Kinds(c))

IsSetting(c)  == HasNoLabel(c) /\ HasName(c) /\ c.type \notin Certificates
IsAPI(c)      == MayHaveOne(c) /\ c.type = "api" /\ \A d \in ToSet(c.blocks) : IsEndpointBlock(d) \/ IsHandler(d) \/ IsSetting(d)
IsSite(c)     == MayHaveOne(c) /\ c.type \in {"spa", "files"} /\ \A d \in ToSet(c.blocks) : IsSetting(d)
IsTLS(c)      == HasNoLabel(c) /\ c.type = "tls" /\ \A d \in ToSet(c.blocks) : MayHaveOne(d) /\ HasName(d) /\ d.type \in Certificates

IsServer(c)   == /\ MayHaveOne(c)
                 /\ c.type = "server"
                 /\ \A d \in ToSet(c.blocks) : IsEndpointBlock(d) \/ IsAPI(d) \/ IsSite(d) \/ IsTLS(d) \/ IsSetting(d)
                 /\ \A d, e \in ToSet(c.blocks) : d.type = "tls" /\ e.type = "tls" => d = e

IsDefinitions(c) == /\ HasNoLabel(c)
                    /\ c.type = "definitions"
                    /\ DOMAIN c.attrs = {}
                    /\ \A d \in ToSet(c.blocks) : HasLabel(d) /\ (HasName(d) \/ d.type = "proxy")

IsValues(c) == HasNoLabel(c) /\ c.type \in {"defaults", "settings"} /\ c.blocks = << >>

IsFile(body) == /\ DOMAIN body.attrs = {}
                /\ IsList(body.blocks)
                /\ \A b \in ToSet(body.blocks) : IsServer(b) \/ IsDefinitions(b) \/ IsValues(b)
===============================================================================
