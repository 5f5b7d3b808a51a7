----------------------------- MODULE MCWorkerPass -----------------------------
(* A small instance of WorkerPass for TLC. *)
EXTENDS WorkerPass

CONSTANTS lib, new, none

Request(type, repo, target, source, key, hash) ==
    [type |-> type, repo |-> repo, target |-> target, source |-> source,
     key |-> key, hash |-> hash]

\* Two save point requests under one key, a lifecycle request
\* of their repo, and a repo create.
MCRequests ==
    {Request("save_point_create", lib, none, lib, "k1", "a"),
     Request("save_point_create", lib, none, lib, "k1", "b"),
     Request("repo_archive", lib, none, lib, "k2", "a"),
     Request("repo_create", new, new, none, "k3", "a")}
==============================================================================
