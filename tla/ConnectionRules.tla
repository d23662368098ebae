--------------------------- MODULE ConnectionRules ---------------------------
(***************************************************************************)
(* What makes a connection valid, which secrets it keeps and which others  *)
(* it meets: crates/mountmate-core/src/connection.rs, with the identities  *)
(* of model.rs and the checks that storage.rs repeats before it writes.    *)
(*                                                                         *)
(* A connection is a record.  Its target stands for the host, the user and *)
(* the port; its place is the mountpoint, "auto" when it names none.  A    *)
(* saved password is the target it was entered for, a saved passphrase the *)
(* key file it was entered for.                                            *)
(***************************************************************************)
EXTENDS Naturals, Sequences, FiniteSets, SequencesExt

Unset == "none"
Auto == "auto"

NoConnection ==
  [id |-> <<Unset, 0>>, name |-> Unset, alias |-> Unset, target |-> Unset, remote |-> Unset,
   place |-> Auto, source |-> "manual", method |-> "native", auth |-> "key", key |-> Unset,
   password |-> Unset, phrase |-> Unset]

IdsOf(servers) == {servers[i].id : i \in DOMAIN servers}

\* unique_id: the name, or the name with the first number that is free.
UniqueId(name, servers) ==
  LET free == {k \in 1 .. Len(servers) + 1 : <<name, k>> \notin IdsOf(servers)}
  IN <<name, CHOOSE k \in free : \A j \in free : k <= j>>

\* connection_fingerprint
Fingerprint(c) == <<c.target, c.remote, c.place>>
SameConnectionTarget(a, b) == Fingerprint(a) = Fingerprint(b)

SamePasswordTarget(a, b) ==
  /\ a.source = b.source /\ a.alias = b.alias /\ a.target = b.target
  /\ a.auth = b.auth /\ a.method = b.method

\* Mutant: the passphrase is kept for whatever key file the connection has by now.
SameKind(a, b) == a.auth = b.auth /\ a.method = b.method

SameKeyTarget(a, b) == a.auth = b.auth /\ a.key = b.key /\ a.method = b.method

\* preserves_password_for_current_target
PreservesPassword(old, draft) ==
  /\ old.password # Unset
  /\ old.source = draft.source /\ old.auth = "password" /\ old.method = "native"
  /\ Fingerprint(old) = Fingerprint(draft)

\* requirements().password
PasswordRequired(old, draft) ==
  draft.method = "native" /\ draft.auth = "password" /\ ~PreservesPassword(old, draft)

\* validate_mount_mappings: no other connection names the same mountpoint.
PlaceFree(c, servers) ==
  c.place = Auto \/ \A i \in DOMAIN servers : servers[i].id = c.id \/ servers[i].place # c.place

Duplicates(c, servers) ==
  {i \in DOMAIN servers : servers[i].id # c.id /\ SameConnectionTarget(servers[i], c)}

\* The connection that validate builds, before its secrets.
Built(old, draft, servers) ==
  [draft EXCEPT !.id = IF old = NoConnection THEN UniqueId(draft.name, servers) ELSE old.id,
                !.auth = IF draft.method = "native" THEN draft.auth ELSE "key",
                !.key = IF draft.method = "native" /\ draft.auth = "password" THEN Unset
                        ELSE draft.key]

\* validate, and apply_secrets: the connection to save, or none.  "typed" says which secrets
\* were entered.
Validated(old, draft, typed, servers) ==
  LET built == Built(old, draft, servers)
      password == IF built.auth = "key" THEN Unset
                  ELSE IF "password" \in typed THEN built.target ELSE old.password
      phrase == IF built.auth # "key" \/ built.method # "native" THEN Unset
                ELSE IF "phrase" \in typed THEN built.key
                ELSE IF SameKeyTarget(old, built) THEN old.phrase ELSE Unset
      valid == /\ PlaceFree(built, servers) /\ Duplicates(built, servers) = {}
               /\ draft.method = "native" /\ draft.auth = "key" => draft.key # Unset
               /\ built.auth = "password" /\ "password" \notin typed =>
                    /\ ~PasswordRequired(old, draft)
                    /\ SamePasswordTarget(old, built)
  IN IF valid THEN [built EXCEPT !.password = password, !.phrase = phrase] ELSE NoConnection

\* Mutant: what a plan brings is not compared with the other connections.
NoDuplicate(c, servers) == TRUE

\* reject_duplicate_target
NotDuplicate(c, servers) == Duplicates(c, servers) = {}

Put(c, servers) ==
  IF c.id \in IdsOf(servers)
  THEN [i \in DOMAIN servers |-> IF servers[i].id = c.id THEN c ELSE servers[i]]
  ELSE Append(servers, c)

\* upsert_servers: all of the changes, in their order, or none.
Upsert(changes, servers) ==
  FoldLeft(LAMBDA acc, c : [servers |-> Put(c, acc.servers),
                            valid |-> acc.valid /\ PlaceFree(c, acc.servers)
                                                /\ NotDuplicate(c, acc.servers)],
           [servers |-> servers, valid |-> TRUE], changes)

-----------------------------------------------------------------------------
\* ImportStatus and the connection that was met, of import_duplicate
Matching(c, known, same(_, _)) ==
  LET found == {i \in DOMAIN known : same(known[i], c)}
  IN IF found = {} THEN NoConnection ELSE known[CHOOSE i \in found : \A j \in found : i <= j]

SameHost(a, b) == a.alias = b.alias /\ b.alias # Unset
SameTarget(a, b) == a.target = b.target
SameBoth(a, b) == a.alias = b.alias /\ a.target = b.target

\* import_duplicate: the same configuration, then the same host, then the same target.
ImportDuplicate(c, known) ==
  LET both == Matching(c, known, SameBoth)
      host == Matching(c, known, SameHost)
  IN IF both # NoConnection THEN both
     ELSE IF host # NoConnection THEN host ELSE Matching(c, known, SameTarget)

\* plan_ssh_imports and plan_server_imports: what the preview lists.  An item that is new
\* counts as known for those after it.
Plan(imports, full, existing, protected) ==
  LET Step(c, acc) ==
        LET match == IF full THEN Matching(c, acc.known, SameConnectionTarget)
                     ELSE ImportDuplicate(c, acc.known)
            server == [c EXCEPT !.id = UniqueId(c.name, acc.known)]
            saved == match # NoConnection /\ match.id \in IdsOf(existing)
            item == [server |-> server, new |-> match = NoConnection,
                     matched |-> IF saved THEN match.id ELSE NoConnection.id,
                     overwrite |-> saved /\ match.id \notin protected]
        IN [items |-> Append(acc.items, item),
            known |-> IF item.new THEN Append(acc.known, server) ELSE acc.known]
  IN FoldLeft(LAMBDA acc, c : Step(c, acc), [items |-> <<>>, known |-> existing], imports).items

\* default_action
DefaultAction(item) == IF item.new THEN "import" ELSE "ignore"

\* merge_imported_connection
Merged(old, imported) ==
  LET merged == [old EXCEPT !.name = imported.name, !.alias = imported.alias,
                            !.target = imported.target, !.source = imported.source,
                            !.method = imported.method, !.auth = imported.auth,
                            !.key = imported.key]
  IN [merged EXCEPT
        !.password = IF merged.auth = "password" /\ SamePasswordTarget(old, merged) THEN @ ELSE Unset,
        !.phrase = IF merged.auth = "key" /\ SameKeyTarget(old, merged) THEN @ ELSE Unset]

\* SshImportPlan::apply: the changes, with the connection that each is to replace; an item
\* that cannot do what was chosen for it refuses the plan.
Allowed(item, action, servers) ==
  \/ action = "ignore"
  \/ action = "import" /\ item.new
  \/ action = "overwrite" /\ item.overwrite /\ item.matched \in IdsOf(servers)

Change(item, action, full, servers) ==
  LET old == servers[CHOOSE i \in DOMAIN servers : servers[i].id = item.matched]
  IN IF action = "import" THEN <<item.server>>
     ELSE IF action = "overwrite"
     THEN <<IF full THEN [item.server EXCEPT !.id = old.id] ELSE Merged(old, item.server)>>
     ELSE <<>>

Changes(items, actions, full, servers) ==
  FlattenSeq([i \in DOMAIN items |-> Change(items[i], actions[i], full, servers)])
=============================================================================
