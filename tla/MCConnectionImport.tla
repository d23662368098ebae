------------------------- MODULE MCConnectionImport -------------------------
(* An instance of ConnectionImport for TLC: a file of OpenSSH with two hosts, *)
(* an export, and a few drafts.                                              *)
EXTENDS ConnectionImport

Host(alias, target) ==
  [NoConnection EXCEPT !.name = alias, !.alias = alias, !.target = target, !.source = "ssh_config",
                       !.method = "openssh", !.key = "k1"]
Draft(target, auth, key, place) ==
  [NoConnection EXCEPT !.name = "gpu", !.target = target, !.auth = auth, !.key = key, !.place = place]

MCHosts == <<Host("gpu", "t2"), Host("web", "t1")>>
MCExported == <<[Draft("t1", "key", "k2", "P:") EXCEPT !.name = "web"]>>
MCManual == {Draft("t1", "password", Unset, Auto), Draft("t2", "password", Unset, Auto),
             Draft("t1", "key", "k1", "P:"), Draft("t2", "key", "k2", Auto), Host("gpu", "t2")}
=============================================================================
