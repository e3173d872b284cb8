------------------------- MODULE ArtifactRevisions --------------------------
(***************************************************************************)
(* An artifact, its revisions and its public links.  Rows live in a         *)
(* database, contents in files; no transaction spans the two, and every     *)
(* call of the registry or of the content store is an await.  An operation  *)
(* writes its file first, commits its rows second, and deletes the file     *)
(* again when the commit is refused; deletion goes the other way round.     *)
(*                                                                         *)
(* One source (a task attachment, a task artifact or a manual upload) is    *)
(* modelled, so there is at most one artifact at a time; after a deletion   *)
(* the source may be registered again, under a new id.  An operation names  *)
(* everything it makes (artifact, revision, file, publish) with fresh ids,  *)
(* written here as the number of the operation.                             *)
(***************************************************************************)
EXTENDS Naturals, FiniteSets

CONSTANTS
  Clients,   \* concurrent calls of the service, of one process or of several
  Texts,     \* contents, as their checksums tell them apart
  Sensitive, \* the contents the release of information redacts
  MaxOps     \* bound: operations that may make something

ASSUME ArtifactConstants ==
  /\ Texts \subseteq Nat \ {0}
  /\ Sensitive \subseteq Texts
  /\ MaxOps \in Nat \ {0}

None == 0
Ids == 1..MaxOps

\* What made a row or a link from before revisions were kept, if there is one.
Legacy == 1

\* How a content is kept: as text in the row, as text in a file, as binary in a file.
Forms == {"inline", "text_file", "binary"}
InFile(form) == form # "inline"

VARIABLES
  artifact,   \* the row of the artifact; its id is None when there is none
  revisions,  \* the rows of artifact_revisions, by id
  published,  \* the rows of published_artifacts, by id
  items,      \* the files of revisions, by the operation that wrote them
  snapshots,  \* the files of public links
  client,     \* where each call is and what it has read
  ops,        \* history: operations begun
  left        \* history: operations whose file was left behind, by a call or a deletion

vars == <<artifact, revisions, published, items, snapshots, client, ops, left>>

NoArtifact == [id |-> None, current |-> None, text |-> None, form |-> "inline"]
NoRevision == [artifact |-> None, number |-> 0, parent |-> None, from |-> None,
               text |-> None, form |-> "inline"]
NoPublish == [status |-> "none", artifact |-> None, revision |-> None,
              text |-> None, form |-> "inline"]

\* A call: the operation, its fresh id, the ids and the number it read, the content it
\* is to store as declared (text) and as bytes (data), what the active link showed
\* (seen), and the links to delete.
Idle == [pc |-> "idle", op |-> "none", n |-> None, artifact |-> None, current |-> None,
         number |-> 0, from |-> None, text |-> None, data |-> None, form |-> "inline",
         seen |-> {}, links |-> {}]

Row(r) == revisions[r].artifact # None
Linked(a) == {p \in Ids : published[p].status # "none" /\ published[p].artifact = a}
Active(a) == {p \in Linked(a) : published[p].status = "active"}

\* What the public is shown: the released text, or the bytes of a binary file.
Redacted == 0
Public(text, form) == IF form # "binary" /\ text \in Sensitive THEN Redacted ELSE text

Init ==
  /\ revisions = [n \in Ids |-> NoRevision]
  /\ client = [c \in Clients |-> Idle]
  /\ left = {}
  /\ \/ /\ artifact = NoArtifact
        /\ published = [n \in Ids |-> NoPublish]
        /\ items = [n \in Ids |-> None]
        /\ snapshots = [n \in Ids |-> None]
        /\ ops = 0
     \* A row from before revisions were kept; its file may have been lost or rewritten, and
     \* it may have a link, of this content or of an earlier one, that names no revision.
     \/ /\ \E t \in Texts, form \in Forms :
             artifact = [id |-> Legacy, current |-> None, text |-> t, form |-> form]
        /\ \E t \in Texts \union {None} :
             items = [n \in Ids |-> IF n = Legacy /\ InFile(artifact.form) THEN t ELSE None]
        /\ \/ published = [n \in Ids |-> NoPublish]
           \/ \E t \in Texts :
                published = [n \in Ids |->
                  IF n = Legacy
                  THEN [status |-> "active", artifact |-> Legacy, revision |-> None,
                        text |-> Public(t, artifact.form), form |-> artifact.form]
                  ELSE NoPublish]
        /\ snapshots = [n \in Ids |->
             IF published[n].form = "binary" THEN published[n].text ELSE None]
        /\ ops = 1

-----------------------------------------------------------------------------
(* Steps the operations share *)

Begin(c, call) ==
  /\ client[c].pc = "idle"
  /\ ops < MaxOps
  /\ ops' = ops + 1
  /\ client' = [client EXCEPT ![c] = [call EXCEPT !.n = ops + 1]]

Goto(c, pc) == client' = [client EXCEPT ![c].pc = pc]
End(c) == client' = [client EXCEPT ![c] = Idle]

\* write_atomic: a new file under a name of its own.
WriteItem(c) ==
  /\ client[c].pc = "write"
  /\ items' = [items EXCEPT ![client[c].n] = client[c].data]
  /\ Goto(c, "commit")
  /\ UNCHANGED <<artifact, revisions, published, snapshots, ops, left>>

\* Where a call goes after its commit: one that was refused, or that found somebody
\* else's row in place of its own, has a file to delete.
AfterCommit_Finally(c, own) ==
  IF InFile(client[c].form) THEN Goto(c, "discard") ELSE End(c)
AfterCommit_Forgets(c, own) == End(c)
AfterCommit(c, own) ==
  IF ~own /\ InFile(client[c].form) THEN Goto(c, "discard") ELSE End(c)

\* The file of operation n, if it is there, stays behind.
LeftBy(n) == left \union {k \in Ids : k = n /\ (items[k] # None \/ snapshots[k] # None)}

\* _best_effort_delete of the file this call wrote.
Discard(c) ==
  /\ client[c].pc = "discard"
  /\ \/ /\ IF client[c].op = "publish"
           THEN snapshots' = [snapshots EXCEPT ![client[c].n] = None] /\ UNCHANGED items
           ELSE items' = [items EXCEPT ![client[c].n] = None] /\ UNCHANGED snapshots
        /\ UNCHANGED left
     \/ left' = LeftBy(client[c].n) /\ UNCHANGED <<items, snapshots>>
  /\ End(c)
  /\ UNCHANGED <<artifact, revisions, published, ops>>

\* The registry raises instead of committing (database locked, a full disk).
Raise(c) ==
  /\ client[c].pc \in {"commit", "register"}
  /\ InFile(client[c].form)
  /\ client[c].op = "publish" => client[c].form = "binary"
  /\ Goto(c, "discard")
  /\ UNCHANGED <<artifact, revisions, published, items, snapshots, ops, left>>

\* The file is written, and the artifact or the revision is refused by its own validation
\* (a source reference, a MIME type) before the commit is tried: nothing deletes the file.
Refuse(c) ==
  /\ client[c].pc = "commit"
  /\ client[c].op \in {"register", "update"}
  /\ InFile(client[c].form)
  /\ End(c)
  /\ left' = LeftBy(client[c].n)
  /\ UNCHANGED <<artifact, revisions, published, items, snapshots, ops>>

\* A call ends where it is: an admission policy or a read refuses it, its request is
\* cancelled (no handler catches that), or its process stops.
Stop(c) ==
  /\ client[c].pc # "idle"
  /\ End(c)
  /\ left' = LeftBy(client[c].n)
  /\ UNCHANGED <<artifact, revisions, published, items, snapshots, ops>>

-----------------------------------------------------------------------------
(* Creation and registration *)

\* create_artifact, register_from_attachment, register_from_task_artifact, up to the
\* first write: the source is not registered yet, and its content has been read.
Lookup(c) ==
  /\ artifact.id = None
  /\ \E t \in Texts, form \in Forms :
       Begin(c, [Idle EXCEPT !.pc = IF InFile(form) THEN "write" ELSE "commit",
                             !.op = "register", !.text = t, !.data = t, !.form = form])
  /\ UNCHANGED <<artifact, revisions, published, items, snapshots, left>>

\* create_artifact_with_initial_revision; the source is unique.
CreateWithInitialRevision(c) ==
  LET l == client[c]
      free == artifact.id = None IN
  /\ l.pc = "commit"
  /\ l.op = "register"
  /\ IF free
     THEN /\ artifact' = [id |-> l.n, current |-> l.n, text |-> l.text, form |-> l.form]
          /\ revisions' = [revisions EXCEPT ![l.n] =
               [artifact |-> l.n, number |-> 1, parent |-> None, from |-> None,
                text |-> l.text, form |-> l.form]]
     ELSE UNCHANGED <<artifact, revisions>>
  /\ AfterCommit(c, free)
  /\ UNCHANGED <<published, items, snapshots, ops, left>>

-----------------------------------------------------------------------------
(* Migration of rows without a revision, at startup *)

\* migrate_revisions finds the row; its content is in the row or still to be read.
Candidate(c) ==
  /\ artifact.id # None
  /\ artifact.current = None
  /\ Begin(c, [Idle EXCEPT !.pc = IF InFile(artifact.form) THEN "legacy" ELSE "commit",
                           !.op = "migrate", !.artifact = artifact.id,
                           !.text = artifact.text, !.data = artifact.text,
                           !.form = artifact.form])
  /\ UNCHANGED <<artifact, revisions, published, items, snapshots, left>>

\* The file of a legacy row is copied only if it is what the row declares.
LegacyIsIntact(l) == items[l.artifact] = l.text

ReadLegacy(c) ==
  LET l == client[c] IN
  /\ l.pc = "legacy"
  /\ IF LegacyIsIntact(l)
     THEN client' = [client EXCEPT ![c].pc = "write", ![c].data = items[l.artifact]]
     ELSE End(c)
  /\ UNCHANGED <<artifact, revisions, published, items, snapshots, ops, left>>

\* commit_initial_revision_backfill: skipped when the row has a revision by now.  (Its
\* third case, a first revision the row does not point to, is left by no transaction.)
CommitBackfill(c) ==
  LET l == client[c]
      bare == artifact.id = l.artifact /\ artifact.current = None IN
  /\ l.pc = "commit"
  /\ l.op = "migrate"
  /\ IF bare
     THEN /\ artifact' = [artifact EXCEPT !.current = l.n]
          /\ revisions' = [revisions EXCEPT ![l.n] =
               [artifact |-> l.artifact, number |-> 1, parent |-> None, from |-> None,
                text |-> l.data, form |-> l.form]]
     ELSE UNCHANGED <<artifact, revisions>>
  /\ AfterCommit(c, bare)
  /\ UNCHANGED <<published, items, snapshots, ops, left>>

-----------------------------------------------------------------------------
(* New revisions *)

\* The current revision as a call reads it: get_artifact, then get_revision.  A call
\* whose expected revision is another ends here, without an effect.
ReadCurrent(c, op, next, text, form) ==
  /\ artifact.id # None
  /\ artifact.current # None
  /\ Begin(c, [Idle EXCEPT !.pc = next, !.op = op, !.artifact = artifact.id,
                           !.current = artifact.current,
                           !.number = revisions[artifact.current].number,
                           !.text = text, !.data = text, !.form = form])

\* update_revision up to its first write: new content, or the parent's content patched.
Update(c) ==
  /\ \E t \in Texts, form \in Forms :
       ReadCurrent(c, "update", IF InFile(form) THEN "write" ELSE "commit", t, form)
  /\ UNCHANGED <<artifact, revisions, published, items, snapshots, left>>

\* rollback reads the current revision first, ...
Rollback(c) ==
  /\ ReadCurrent(c, "rollback", "target", None, "inline")
  /\ UNCHANGED <<artifact, revisions, published, items, snapshots, left>>

\* ... then the target; size and checksum are the target's, the bytes those of its file.
ReadTarget(c) ==
  LET l == client[c] IN
  /\ l.pc = "target"
  /\ \E r \in {r \in Ids : revisions[r].artifact = l.artifact} :
       LET form == revisions[r].form IN
       /\ InFile(form) => items[r] # None
       /\ client' = [client EXCEPT ![c] =
            [l EXCEPT !.pc = IF InFile(form) THEN "write" ELSE "commit",
                      !.from = r, !.text = revisions[r].text, !.form = form,
                      !.data = IF InFile(form) THEN items[r] ELSE revisions[r].text]]
  /\ UNCHANGED <<artifact, revisions, published, items, snapshots, ops, left>>

\* The checks of append_revision, in its transaction.
Numbers(a) == {revisions[r].number : r \in {r \in Ids : revisions[r].artifact = a}}
AppendAccepted_ParentOnly(l) ==
  /\ artifact.id = l.artifact
  /\ revisions[l.current].artifact = l.artifact
  /\ l.from # None => revisions[l.from].artifact = l.artifact
AppendAccepted(l) ==
  /\ artifact.id = l.artifact
  /\ artifact.current = l.current
  /\ l.number \in Numbers(l.artifact)
  /\ \A k \in Numbers(l.artifact) : k <= l.number
  /\ revisions[l.current].artifact = l.artifact
  /\ l.from # None => revisions[l.from].artifact = l.artifact

AppendRevision(c) ==
  LET l == client[c] IN
  /\ l.pc = "commit"
  /\ l.op \in {"update", "rollback"}
  /\ IF AppendAccepted(l)
     THEN /\ artifact' = [artifact EXCEPT !.current = l.n]
          /\ revisions' = [revisions EXCEPT ![l.n] =
               [artifact |-> l.artifact, number |-> l.number + 1, parent |-> l.current,
                from |-> l.from, text |-> l.text, form |-> l.form]]
     ELSE UNCHANGED <<artifact, revisions>>
  /\ AfterCommit(c, AppendAccepted(l))
  /\ UNCHANGED <<published, items, snapshots, ops, left>>

-----------------------------------------------------------------------------
(* Public links *)

\* publish_revision: the current revision, ...
Publish(c) ==
  /\ artifact.current # None
  /\ ReadCurrent(c, "publish", "active", revisions[artifact.current].text,
                 revisions[artifact.current].form)
  /\ UNCHANGED <<artifact, revisions, published, items, snapshots, left>>

\* ... the active link, if there is one, ...
GetActive(c) ==
  LET l == client[c] IN
  /\ l.pc = "active"
  /\ client' = [client EXCEPT ![c].pc = "content",
                              ![c].seen = {published[p].text : p \in Active(l.artifact)}]
  /\ UNCHANGED <<artifact, revisions, published, items, snapshots, ops, left>>

\* ... and the content, which is released, or raw if binary.  If the link that was read
\* shows the same already, it is returned.
ReadContent(c) ==
  LET l == client[c]
      data == IF InFile(l.form) THEN items[l.current] ELSE l.text
      public == Public(data, l.form) IN
  /\ l.pc = "content"
  /\ InFile(l.form) => data # None
  /\ IF public \in l.seen
     THEN End(c)
     ELSE client' = [client EXCEPT ![c].pc = IF l.form = "binary" THEN "copy" ELSE "register",
                                   ![c].data = public, ![c].seen = {}]
  /\ UNCHANGED <<artifact, revisions, published, items, snapshots, ops, left>>

\* copy_to_publish_snapshot: the file is read a second time.
CopySnapshot(c) ==
  LET l == client[c] IN
  /\ l.pc = "copy"
  /\ items[l.current] # None
  /\ snapshots' = [snapshots EXCEPT ![l.n] = items[l.current]]
  /\ Goto(c, "register")
  /\ UNCHANGED <<artifact, revisions, published, items, ops, left>>

\* The check of register_revision_publish, in its transaction.
RegisterAccepted_Existing(l) == artifact.id = l.artifact
RegisterAccepted(l) == artifact.id = l.artifact /\ artifact.current = l.current

\* The links once a new one is active: the one before it is revoked.
Registered_Beside(l) ==
  [published EXCEPT ![l.n] = [status |-> "active", artifact |-> l.artifact,
     revision |-> l.current, text |-> l.data, form |-> l.form]]
Registered(l) ==
  [p \in Ids |->
     IF p = l.n THEN [status |-> "active", artifact |-> l.artifact,
                      revision |-> l.current, text |-> l.data, form |-> l.form]
     ELSE IF p \in Active(l.artifact) THEN [published[p] EXCEPT !.status = "revoked"]
     ELSE published[p]]

\* A snapshot nobody's row names is deleted.
AfterRegister_Swapped(c, own) ==
  IF own /\ client[c].form = "binary" THEN Goto(c, "discard") ELSE End(c)
AfterRegister(c, own) ==
  IF ~own /\ client[c].form = "binary" THEN Goto(c, "discard") ELSE End(c)

\* register_revision_publish: refused, an active link with the same content reused, or
\* a new link.
RegisterPublish(c) ==
  LET l == client[c]
      reuse == \E p \in Active(l.artifact) : published[p].text = l.data
      own == RegisterAccepted(l) /\ ~reuse IN
  /\ l.pc = "register"
  /\ published' = IF own THEN Registered(l) ELSE published
  /\ AfterRegister(c, own)
  /\ UNCHANGED <<artifact, revisions, items, snapshots, ops, left>>

\* revoke_publish: one transaction; the snapshot stays.
Revoke ==
  /\ artifact.id # None
  /\ Active(artifact.id) # {}
  /\ published' = [p \in Ids |-> IF p \in Active(artifact.id)
                                 THEN [published[p] EXCEPT !.status = "revoked"]
                                 ELSE published[p]]
  /\ UNCHANGED <<artifact, revisions, items, snapshots, client, ops, left>>

-----------------------------------------------------------------------------
(* Deletion *)

\* delete_artifact: the row, ...
Delete(c) ==
  /\ client[c].pc = "idle"
  /\ artifact.id # None
  /\ client' = [client EXCEPT ![c] =
       [Idle EXCEPT !.pc = "links", !.op = "delete", !.artifact = artifact.id,
                    !.form = artifact.form]]
  /\ UNCHANGED <<artifact, revisions, published, items, snapshots, ops, left>>

\* ... its links, ...
ListPublished(c) ==
  LET links == Linked(client[c].artifact) IN
  /\ client[c].pc = "links"
  /\ client' = [client EXCEPT ![c].pc = IF links = {} THEN "remove" ELSE "purge",
                              ![c].links = links]
  /\ UNCHANGED <<artifact, revisions, published, items, snapshots, ops, left>>

\* ... the rows of all links it has by now, ...
PurgePublished(c) ==
  /\ client[c].pc = "purge"
  /\ published' = [p \in Ids |-> IF p \in Linked(client[c].artifact) THEN NoPublish
                                 ELSE published[p]]
  /\ left' = left \union {p \in Linked(client[c].artifact) : snapshots[p] # None}
  /\ Goto(c, "unlink")
  /\ UNCHANGED <<artifact, revisions, items, snapshots, ops>>

\* ... the snapshots of the links that were listed, as many as can be deleted, ...
UnlinkSnapshots(c) ==
  /\ client[c].pc = "unlink"
  /\ \E gone \in SUBSET client[c].links :
       snapshots' = [p \in Ids |-> IF p \in gone THEN None ELSE snapshots[p]]
  /\ Goto(c, "remove")
  /\ UNCHANGED <<artifact, revisions, published, items, ops, left>>

\* ... the row, with its revisions (ON DELETE CASCADE) and out of every link that names
\* it (ON DELETE SET NULL), ...
RemoveArtifact(c) ==
  LET l == client[c] IN
  /\ l.pc = "remove"
  /\ IF artifact.id = l.artifact
     THEN /\ artifact' = NoArtifact
          /\ revisions' = [n \in Ids |-> NoRevision]
          /\ published' = [p \in Ids |-> IF p \in Linked(l.artifact)
                             THEN [published[p] EXCEPT !.artifact = None, !.revision = None]
                             ELSE published[p]]
          /\ left' = left \union {n \in Ids : items[n] # None /\ (Row(n) \/ n = artifact.id)}
     ELSE UNCHANGED <<artifact, revisions, published, left>>
  /\ IF InFile(l.form) THEN Goto(c, "erase") ELSE End(c)
  /\ UNCHANGED <<items, snapshots, ops>>

\* ... and the file the row named.
EraseContent(c) ==
  /\ client[c].pc = "erase"
  /\ \/ items' = [items EXCEPT ![client[c].artifact] = None]
     \/ UNCHANGED items
  /\ End(c)
  /\ UNCHANGED <<artifact, revisions, published, snapshots, ops, left>>

-----------------------------------------------------------------------------
Call(c) ==
  \/ Lookup(c) \/ Candidate(c) \/ Update(c) \/ Rollback(c) \/ Publish(c) \/ Delete(c)
  \/ WriteItem(c) \/ Discard(c) \/ Raise(c) \/ Refuse(c) \/ Stop(c)
  \/ CreateWithInitialRevision(c) \/ ReadLegacy(c) \/ CommitBackfill(c)
  \/ ReadTarget(c) \/ AppendRevision(c)
  \/ GetActive(c) \/ ReadContent(c) \/ CopySnapshot(c) \/ RegisterPublish(c)
  \/ ListPublished(c) \/ PurgePublished(c) \/ UnlinkSnapshots(c)
  \/ RemoveArtifact(c) \/ EraseContent(c)

Next == Revoke \/ \E c \in Clients : Call(c)

Spec == Init /\ [][Next]_vars

-----------------------------------------------------------------------------
(* Properties *)

\* Rows, files and calls have their types, ids are those of operations begun, and an
\* artifact has at most one active link, as the partial unique index demands.
TypeOK ==
  /\ ops \in 0..MaxOps
  /\ left \subseteq Ids
  /\ artifact \in [id : 0..ops, current : 0..ops, text : Texts \union {None}, form : Forms]
  /\ revisions \in [Ids -> [artifact : 0..ops, number : 0..ops, parent : 0..ops,
                            from : 0..ops, text : Texts \union {None}, form : Forms]]
  /\ published \in [Ids -> [status : {"none", "active", "revoked"}, artifact : 0..ops,
                            revision : 0..ops, text : Texts \union {None}, form : Forms]]
  /\ {items, snapshots} \subseteq [Ids -> Texts \union {None}]
  /\ \A c \in Clients : client[c].n \in 0..ops /\ client[c].links \subseteq 1..ops
  /\ \A a \in Ids : Cardinality(Active(a)) <= 1

\* The content of every revision in the history can be read, and is what its checksum
\* says: no compensation deletes the file of a committed revision, and a deletion
\* removes the rows before the file (update_revision, rollback, migration, deletion).
RevisionsReadable ==
  \A r \in Ids : Row(r) /\ InFile(revisions[r].form) => items[r] = revisions[r].text

\* The revisions of an artifact are one line of descent: numbers 1, 2, .. without a gap,
\* each the child of the one before, the current one last; the first is what the row
\* declares, a rollback has the content of its target, and none outlives its artifact.
HistoryIsLinear ==
  LET rows == {r \in Ids : Row(r)} IN
  /\ \A r \in rows : revisions[r].artifact = artifact.id
  /\ {revisions[r].number : r \in rows} = 1..Cardinality(rows)
  /\ (rows = {}) = (artifact.current = None)
  /\ \A r \in rows :
       /\ (r = artifact.current) = (revisions[r].number = Cardinality(rows))
       /\ IF revisions[r].number = 1
          THEN revisions[r].parent = None /\ revisions[r].text = artifact.text
          ELSE /\ revisions[r].parent \in rows
               /\ revisions[revisions[r].parent].number = revisions[r].number - 1
       /\ revisions[r].from # None => revisions[r].text = revisions[revisions[r].from].text

\* The active link of an artifact can be opened, and shows the public form of the revision
\* it names; only a link from before revisions names none (publish, reuse, compensation,
\* revocation and deletion interleaved).  A link registered while its artifact is being
\* deleted can lose its artifact and stay active.
LinksServe ==
  \A a \in Ids : \A p \in Active(a) :
    LET pub == published[p] IN
    /\ pub.form = "binary" => snapshots[p] = pub.text
    /\ IF pub.revision = None THEN p = Legacy
       ELSE /\ Row(pub.revision)
            /\ pub.text = Public(revisions[pub.revision].text, revisions[pub.revision].form)

\* What becomes public is the revision that is current at that very moment, however long
\* ago its content was read and whatever was appended since.
PublishedWasCurrent ==
  [][\A p \in Ids :
       published'[p].status = "active" /\ published[p].status # "active" =>
         /\ published'[p].artifact = artifact.id
         /\ published'[p].revision = artifact.current
         /\ published'[p].text = Public(revisions[artifact.current].text,
                                        revisions[artifact.current].form)]_vars

\* A file that no row names belongs to a call under way, or was left behind: by a call that
\* was refused by a validation or stopped between its write and its commit, by a cleanup
\* that failed, or by a deletion.  The file of a commit that was refused, raised, or found
\* another's row in place of its own is deleted (create_artifact, update_revision, rollback,
\* migration, publish_revision).
NothingLeaks ==
  \A n \in Ids : n \notin left /\ (\A c \in Clients : client[c].n # n) =>
    /\ items[n] # None => Row(n) \/ n = artifact.id
    /\ snapshots[n] # None => published[n].status # "none"

=============================================================================
