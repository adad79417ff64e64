---------------------------- MODULE MCRepoConfig ----------------------------
(* Small instances of RepoConfig for TLC.                                  *)
EXTENDS RepoConfig, TLC

Request(b, peering, a, k) == [base |-> b, peering |-> peering, api |-> a, key |-> k]

(* Two private networks, the public one, and a routing that is not known;  *)
(* with and without peers and an API.                                      *)
MCRequests == {Request("b1", "peers1", "api1", "key1"), Request("b2", "peers2", None, "key2"),
               Request("b1", None, "api2", None), Request("bad", None, None, "key1")}

(* The processes are alike: nothing compares them but for equality.        *)
Symmetry == Permutations(Proc)
=============================================================================
