---------------------------- MODULE MCRepoProvision ---------------------------
(* Small instances of RepoProvision for TLC. *)
EXTENDS RepoProvision

CONSTANTS v1, v2, r0, r1, t0, t1

AskVolume(v, s) == [type |-> "volume_ensure", volume |-> v, status |-> s,
                    source |-> NoId, target |-> NoId]
AskBinding(v, s) == [AskVolume(v, s) EXCEPT
                        !.type = "namespace_volume_binding_put"]
AskNamespace(t) == [AskVolume(v1, "active") EXCEPT !.type = t]
AskRepo(t, s, i) == [AskNamespace(t) EXCEPT !.source = s, !.target = i]

\* The default volume is replaced, taken out of use or loses what JVS needs,
\* the namespace comes and goes, and repos and templates are made.
MCRequests ==
    {AskVolume(v1, "plain"), AskVolume(v1, "disabled"),
     AskBinding(v2, "active"), AskBinding(v1, "disabled"),
     AskNamespace("namespace_upsert"), AskNamespace("namespace_disable"),
     AskRepo("repo_create", NoId, r1),
     AskRepo("template_create", r0, t1),
     AskRepo("template_clone", t0, r1)}
==============================================================================
