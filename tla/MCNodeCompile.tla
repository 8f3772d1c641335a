--------------------------- MODULE MCNodeCompile ---------------------------
(***************************************************************************)
(* Instances of NodeCompile: three classes in two modules that include     *)
(* each other, and resources of a built-in, a Ruby and an unknown type.    *)
(***************************************************************************)
EXTENDS NodeCompile, TLC

CONSTANTS web, db, gone, modweb, moddb, file, vcsrepo, cron, typo, conf, repo, fiel

include(c)  == [op |-> "include", name |-> c]
resource(r) == [op |-> "resource", name |-> r]
fail        == [op |-> "fail"]

MCClasses   == {web, db, gone}
MCResources == {conf, repo, fiel}

\* web and db include each other and declare the same resource.
MCBodyOf   == web :> <<include(db), resource(repo)>>
           @@ db :> <<include(web), resource(repo)>>
           @@ gone :> <<>>
MCModuleOf == web :> modweb @@ db :> moddb @@ gone :> moddb
MCLegacy   == web :> 0 @@ db :> 1 @@ gone :> 0
MCTypeOf   == conf :> file @@ repo :> vcsrepo @@ fiel :> typo
MCRefersTo == conf :> {repo} @@ repo :> {} @@ fiel :> {}

Site(seq) == [e \in Envs |-> seq[e + 1]]

\* A declaration at top level has the policy read before any thread starts; the
\* nodes then meet every kind of error, alone and in a race.
TotalSites ==
    LET preload == <<resource(conf)>>
    IN  {Site(<<preload, <<include(web), resource(conf)>>, <<include(db), include(gone)>>, NoBlock>>),
         Site(<<preload, <<include(web)>>, <<include(db)>>, <<resource(repo), resource(conf)>>>>),
         Site(<<preload, <<resource(repo)>>, NoBlock, <<resource(repo), resource(fiel), fail>>>>)}

\* Three threads race for the manifests, the Ruby types and the policy, which
\* nobody has read when they start.
CacheSites ==
    {Site(<< <<>>, <<include(web)>>, <<resource(repo)>>, <<include(db)>> >>),
     Site(<< <<>>, <<resource(conf)>>, NoBlock, <<fail, include(gone), resource(repo)>> >>)}

AllSites == CacheSites \cup TotalSites

PolicyFile == <<repo, conf>>
=============================================================================
