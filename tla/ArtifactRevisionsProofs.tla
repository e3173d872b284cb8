---------------------- MODULE ArtifactRevisionsProofs ----------------------
(***************************************************************************)
(* Proofs about ArtifactRevisions for every set of calls and contents and   *)
(* any number of operations.                                                *)
(*                                                                         *)
(* The ids of operations that are over (Old) are the only ones the tables   *)
(* and the calls refer to; what a call works on under its own id is out of  *)
(* everybody's reach until its commit.  The argument is then one of rely    *)
(* and guarantee: a step changes what the other calls know only as Rely     *)
(* allows, and what a call knows when it commits makes its commit right.    *)
(***************************************************************************)
EXTENDS ArtifactRevisions, FiniteSetTheorems, TLAPS

Contents == Texts \union {None}
ArtifactRow == [id : 0..MaxOps, current : 0..MaxOps, text : Contents, form : Forms]
RevisionRow == [artifact : 0..MaxOps, number : 0..MaxOps, parent : 0..MaxOps,
                from : 0..MaxOps, text : Contents, form : Forms]
LinkRow == [status : {"none", "active", "revoked"}, artifact : 0..MaxOps,
            revision : 0..MaxOps, text : Contents, form : Forms]
CallState ==
  [pc : {"idle", "write", "commit", "discard", "legacy", "target", "active", "content",
         "copy", "register", "links", "purge", "unlink", "remove", "erase"},
   op : {"none", "register", "migrate", "update", "rollback", "publish", "delete"},
   n : 0..MaxOps, artifact : 0..MaxOps, current : 0..MaxOps, number : 0..MaxOps,
   from : 0..MaxOps, text : Contents, data : Contents, form : Forms,
   seen : SUBSET Contents, links : SUBSET Ids]

Types ==
  /\ ops \in 0..MaxOps
  /\ artifact \in ArtifactRow
  /\ revisions \in [Ids -> RevisionRow]
  /\ published \in [Ids -> LinkRow]
  /\ items \in [Ids -> Contents]
  /\ snapshots \in [Ids -> Contents]
  /\ client \in [Clients -> CallState]

\* The states of a call, by its operation.
Shape(l) ==
  \/ l = Idle
  \/ /\ l.op = "delete" /\ l.n = None /\ l.artifact # None
     /\ l.pc \in {"links", "purge", "unlink", "remove", "erase"}
  \/ /\ l.n # None
     /\ \/ l.op = "register" /\ l.pc \in {"write", "commit", "discard"}
        \/ /\ l.op = "migrate" /\ l.pc \in {"legacy", "write", "commit", "discard"}
           /\ l.artifact # None
        \/ /\ l.op = "update" /\ l.pc \in {"write", "commit", "discard"}
           /\ l.artifact # None /\ l.current # None
        \/ /\ l.op = "rollback" /\ l.pc \in {"target", "write", "commit", "discard"}
           /\ l.artifact # None /\ l.current # None
        \/ /\ l.op = "publish" /\ l.pc \in {"active", "content", "copy", "register", "discard"}
           /\ l.artifact # None /\ l.current # None
           /\ l.pc \in {"copy", "discard"} => l.form = "binary"
     /\ l.pc \in {"legacy", "write", "discard"} => InFile(l.form)
     /\ l.number < l.n

\* The operations that are over.
Old == {x \in 1..ops : \A c \in Clients : client[c].n # x}
Known == Old \union {None}

\* Calls have ids of their own, and nothing refers to the id of a call under way.
CallRefs ==
  \A c \in Clients :
    /\ client[c].n \in 0..ops
    /\ \A d \in Clients \ {c} : client[c].n = client[d].n => client[c].n = None
    /\ {client[c].artifact, client[c].current, client[c].from} \subseteq Known
    /\ client[c].links \subseteq Old

TableRefs ==
  /\ {artifact.id, artifact.current} \subseteq Known
  /\ \A r \in Ids :
       IF Row(r) THEN /\ r \in Old /\ revisions[r].number \in 1..r
                      /\ {revisions[r].artifact, revisions[r].parent, revisions[r].from}
                           \subseteq Known
       ELSE revisions[r] = NoRevision
  /\ \A p \in Ids :
       IF published[p].status = "none" THEN published[p] = NoPublish
       ELSE p \in Old /\ {published[p].artifact, published[p].revision} \subseteq Known

\* Only operations that are over have left a file behind.
LeftRefs == left \subseteq Old

TInv == Types /\ (\A c \in Clients : Shape(client[c])) /\ CallRefs /\ TableRefs /\ LeftRefs

-----------------------------------------------------------------------------
(* What each call knows *)

\* Of its artifact, of the revision it read, and of the one it rolls back to.
Reads(c) ==
  LET l == client[c] IN
  /\ l.artifact # None => l.artifact = artifact.id \/ ~Row(l.artifact)
  /\ l.pc = "erase" => artifact.id # l.artifact
  /\ l.op = "migrate" /\ artifact.id = l.artifact => l.text = artifact.text
  /\ l.current # None /\ Row(l.current) =>
       /\ l.number = revisions[l.current].number
       /\ l.op = "publish" => /\ l.text = revisions[l.current].text
                              /\ l.form = revisions[l.current].form
  /\ l.from # None /\ Row(l.from) => l.text = revisions[l.from].text

\* Of the content it is about to commit, and of the links it is about to delete.
Holds(c) ==
  LET l == client[c] IN
  /\ l.pc \in {"write", "commit"} => l.data = l.text
  /\ l.pc = "commit" /\ InFile(l.form) => items[l.n] = l.data
  /\ l.pc \in {"copy", "register"} /\ Row(l.current) => l.data = Public(l.text, l.form)
  /\ l.pc = "register" /\ l.form = "binary" /\ Row(l.current) => snapshots[l.n] = l.data
  /\ l.pc = "purge" => \A p \in l.links : published[p].artifact \in {None, l.artifact}
  /\ l.pc = "unlink" => \A p \in l.links : published[p].artifact = None

\* The rows together.
RollbacksInside == \A r \in Ids : Row(r) /\ revisions[r].from # None => Row(revisions[r].from)

Links ==
  /\ \A p \in Ids : published[p].artifact # None =>
                      /\ published[p].artifact = artifact.id
                      /\ published[p].revision # None \/ p = Legacy
  /\ \A p, q \in Ids :
       /\ published[p].status = "active" /\ published[p].artifact # None
       /\ published[q].status = "active" /\ published[q].artifact # None
       => p = q

\* Every file that was not left behind belongs to a row or to the call that will decide
\* on it.
ItemOf(c, n) ==
  /\ client[c].n = n /\ client[c].op # "publish"
  /\ client[c].pc \in {"commit", "discard"} /\ InFile(client[c].form)
SnapshotOf(c, n) ==
  /\ client[c].n = n /\ client[c].op = "publish"
  /\ client[c].pc \in {"register", "discard"} /\ client[c].form = "binary"
Owned ==
  \A n \in Ids \ left :
    /\ items[n] # None => Row(n) \/ n = artifact.id \/ \E c \in Clients : ItemOf(c, n)
    /\ snapshots[n] # None =>
         published[n].status # "none" \/ \E c \in Clients : SnapshotOf(c, n)

KInv ==
  /\ \A c \in Clients : Reads(c) /\ Holds(c)
  /\ RevisionsReadable /\ HistoryIsLinear /\ RollbacksInside
  /\ Links /\ LinksServe /\ Owned

-----------------------------------------------------------------------------
(* One call's step, and what it leaves to the other calls *)

CallStep(c) ==
  /\ client' \in [Clients -> CallState]
  /\ \A d \in Clients \ {c} : client'[d] = client[d]
  /\ Shape(client'[c])
  /\ \/ ops' = ops /\ client'[c].n \in {None, client[c].n}
     \/ ops' = ops + 1 /\ ops < MaxOps /\ client[c].n = None /\ client'[c].n = ops + 1
  /\ client'[c].artifact \in {None, client[c].artifact, artifact.id}
  /\ client'[c].current \in {None, client[c].current, artifact.current}
  /\ client'[c].from \in {None, client[c].from} \union {r \in Ids : Row(r)}
  /\ client'[c].links \subseteq client[c].links \union {p \in Ids : published[p].status # "none"}

LEMMA IdleType == Idle \in CallState /\ Shape(Idle)
BY ArtifactConstants DEF Idle, CallState, Shape, Contents, Forms, None, Ids

LEMMA EndStep ==
  ASSUME Types, NEW c \in Clients, End(c), ops' = ops
  PROVE  CallStep(c) /\ client'[c] = Idle
<1>1. /\ client' \in [Clients -> CallState] /\ client'[c] = Idle
      /\ \A d \in Clients \ {c} : client'[d] = client[d]
  BY IdleType DEF End, Types
<1>2. /\ Idle.n = None /\ Idle.artifact = None /\ Idle.current = None
      /\ Idle.from = None /\ Idle.links = {}
  BY DEF Idle
<1> QED BY <1>1, <1>2, IdleType DEF CallStep

LEMMA GotoFields ==
  ASSUME Types, NEW c \in Clients, NEW pc, Goto(c, pc),
         [client[c] EXCEPT !.pc = pc] \in CallState
  PROVE  /\ client' \in [Clients -> CallState]
         /\ client'[c] = [client[c] EXCEPT !.pc = pc]
         /\ \A d \in Clients \ {c} : client'[d] = client[d]
BY DEF Goto, Types

LEMMA BeginStep ==
  ASSUME Types, NEW c \in Clients, NEW call \in CallState, Begin(c, call)
  PROVE  /\ client' \in [Clients -> CallState]
         /\ client'[c] = [call EXCEPT !.n = ops + 1]
         /\ \A d \in Clients \ {c} : client'[d] = client[d]
         /\ ops' = ops + 1 /\ ops < MaxOps /\ ops' \in 0..MaxOps
<1>1. ops + 1 \in 0..MaxOps /\ ops \in Nat /\ MaxOps \in Nat
  BY ArtifactConstants DEF Begin, Types
<1>2. [call EXCEPT !.n = ops + 1] \in CallState
  BY <1>1 DEF CallState
<1> QED BY <1>1, <1>2 DEF Begin, Types

LEMMA CallsRefer ==
  ASSUME TInv, NEW c \in Clients, CallStep(c)
  PROVE  CallRefs' /\ Old \subseteq Old' /\ (client'[c].n = None => client[c].n \in Known')
<1>0. /\ ops \in Nat /\ None = 0
      /\ \A d \in Clients : client[d].n \in 0..ops
      /\ \A d \in Clients : \A e \in Clients \ {d} : client[d].n = client[e].n => client[d].n = None
      /\ \A d \in Clients \ {c} : client'[d] = client[d]
  BY ArtifactConstants DEF TInv, Types, CallRefs, CallStep, None
<1>n. \/ ops' = ops /\ client'[c].n \in {None, client[c].n}
      \/ ops' = ops + 1 /\ client[c].n = None /\ client'[c].n = ops + 1
  BY DEF CallStep
<1>1. ASSUME NEW x \in Old PROVE x \in Old'
  <2>1. x \in 1..ops /\ \A d \in Clients : client[d].n # x
    BY DEF Old
  <2>2. x \in 1..ops'
    BY <1>0, <1>n, <2>1
  <2>3. client'[c].n # x
    BY <1>0, <1>n, <2>1
  <2>4. \A d \in Clients : client'[d].n # x
    BY <1>0, <2>1, <2>3
  <2> QED BY <2>2, <2>4 DEF Old
<1>2. \A d \in Clients : client'[d].n \in 0..ops'
  <2>1. client'[c].n \in 0..ops' BY <1>0, <1>n
  <2>2. ASSUME NEW d \in Clients \ {c} PROVE client'[d].n \in 0..ops'
    <3>1. client'[d].n \in 0..ops BY <1>0
    <3> QED BY <1>0, <1>n, <3>1
  <2> QED BY <2>1, <2>2
<1>3. ASSUME NEW d \in Clients, NEW e \in Clients \ {d}, client'[d].n = client'[e].n
      PROVE  client'[d].n = None
  <2>1. CASE d # c /\ e # c
    BY <1>0, <1>3, <2>1
  <2>2. ASSUME NEW f \in Clients \ {c}, client'[f].n = client'[c].n PROVE client'[c].n = None
    <3>1. client'[f].n = client[f].n /\ client[f].n \in 0..ops BY <1>0
    <3> QED BY <1>0, <1>n, <2>2, <3>1
  <2>3. CASE d = c BY <1>3, <2>2, <2>3
  <2>4. CASE e = c BY <1>3, <2>2, <2>4
  <2> QED BY <2>1, <2>3, <2>4
<1>4. \A d \in Clients : /\ {client[d].artifact, client[d].current, client[d].from} \subseteq Known'
                         /\ client[d].links \subseteq Old'
  BY <1>1 DEF TInv, CallRefs, Known
<1>5. /\ artifact.id \in Known' /\ artifact.current \in Known'
      /\ \A r \in Ids : Row(r) => r \in Old'
      /\ \A p \in Ids : published[p].status # "none" => p \in Old'
  BY <1>1 DEF TInv, TableRefs, Known
<1>6. /\ {client'[c].artifact, client'[c].current, client'[c].from} \subseteq Known'
      /\ client'[c].links \subseteq Old'
  <2>1. None \in Known' /\ Old' \subseteq Known' BY DEF Known
  <2> QED BY <1>4, <1>5, <2>1 DEF CallStep
<1>7. \A d \in Clients : /\ {client'[d].artifact, client'[d].current, client'[d].from} \subseteq Known'
                         /\ client'[d].links \subseteq Old'
  BY <1>0, <1>4, <1>6
<1>8. CallRefs'
  BY <1>2, <1>3, <1>7 DEF CallRefs
<1>9. ASSUME client'[c].n = None PROVE client[c].n \in Known'
  <2>1. CASE client[c].n = None BY <2>1 DEF Known
  <2>2. CASE client[c].n # None
    <3>1. ops' = ops BY <1>0, <1>n, <1>9
    <3>2. client[c].n \in 1..ops' BY <1>0, <2>2, <3>1
    <3>3. \A d \in Clients : client'[d].n # client[c].n
      BY <1>0, <1>9, <2>2
    <3> QED BY <3>2, <3>3 DEF Old, Known
  <2> QED BY <2>1, <2>2
<1> QED BY <1>1, <1>8, <1>9

LEMMA TablesRefer ==
  ASSUME TableRefs, Old \subseteq Old', UNCHANGED <<artifact, revisions, published>>
  PROVE  TableRefs'
<1>1. Known \subseteq Known' BY DEF Known
<1> QED BY <1>1 DEF TableRefs, Row

LEMMA Kept ==
  ASSUME TInv, NEW c \in Clients, CallStep(c), TableRefs',
         artifact' \in ArtifactRow, revisions' \in [Ids -> RevisionRow],
         published' \in [Ids -> LinkRow], items' \in [Ids -> Contents],
         snapshots' \in [Ids -> Contents], left' \subseteq Old'
  PROVE  TInv'
<1>1. CallRefs' BY CallsRefer
<1>2. ops' \in 0..MaxOps BY ArtifactConstants DEF CallStep, TInv, Types
<1>3. \A d \in Clients : Shape(client'[d])
  BY DEF CallStep, TInv
<1>4. client' \in [Clients -> CallState] BY DEF CallStep
<1> QED BY <1>1, <1>2, <1>3, <1>4 DEF TInv, Types, LeftRefs

LEMMA TablesKept ==
  ASSUME TInv, NEW c \in Clients, CallStep(c), UNCHANGED <<artifact, revisions, published>>,
         items' \in [Ids -> Contents], snapshots' \in [Ids -> Contents], left' \subseteq Old'
  PROVE  TInv'
<1>1. TableRefs' BY CallsRefer, TablesRefer DEF TInv
<1> QED BY <1>1, Kept DEF TInv, Types

\* What a call leaves behind, it leaves when it is over.
Leaves(c) ==
  \/ left' = left
  \/ left' = LeftBy(client[c].n) /\ client'[c].n = None

LEMMA LeftRefer ==
  ASSUME TInv, NEW c \in Clients, CallStep(c), Leaves(c)
  PROVE  left \subseteq left' /\ left' \subseteq Old'
<1>1. left \subseteq Old /\ Old \subseteq Old' BY CallsRefer DEF TInv, LeftRefs
<1>2. CASE left' = left BY <1>1, <1>2
<1>3. CASE left' = LeftBy(client[c].n) /\ client'[c].n = None
  <2>1. client[c].n \in Known' BY <1>3, CallsRefer
  <2>2. \A k \in left' : k \in left \/ (k \in Ids /\ k = client[c].n) BY <1>3 DEF LeftBy
  <2>3. \A k \in Ids : k # None BY DEF Ids, None
  <2>4. left \subseteq left' BY <1>3 DEF LeftBy
  <2> QED BY <1>1, <2>1, <2>2, <2>3, <2>4 DEF Known
<1> QED BY <1>2, <1>3 DEF Leaves

\* A call that is not over has an id of its own to write under.
LEMMA OwnId ==
  ASSUME TInv, NEW c \in Clients, client[c].n # None
  PROVE  client[c].n \in Ids /\ client[c].n \notin Old
<1>1. client[c].n \in 0..ops /\ ops \in 0..MaxOps BY DEF TInv, CallRefs, Types
<1>2. MaxOps \in Nat BY ArtifactConstants
<1> QED BY <1>1, <1>2 DEF Ids, None, Old

LEMMA GotoStep ==
  ASSUME TInv, NEW c \in Clients, NEW pc, Goto(c, pc), ops' = ops,
         pc \in {"commit", "discard", "register", "purge", "unlink", "remove", "erase"},
         Shape([client[c] EXCEPT !.pc = pc])
  PROVE  CallStep(c) /\ client'[c] = [client[c] EXCEPT !.pc = pc]
<1> DEFINE l == [client[c] EXCEPT !.pc = pc]
<1>0. Types /\ client[c] \in CallState BY DEF TInv, Types
<1>1. l \in CallState
  BY <1>0 DEF CallState
<1>2. /\ client' \in [Clients -> CallState] /\ client'[c] = l
      /\ \A d \in Clients \ {c} : client'[d] = client[d]
  BY <1>0, <1>1, GotoFields
<1>3. /\ l.n = client[c].n /\ l.artifact = client[c].artifact /\ l.current = client[c].current
      /\ l.from = client[c].from /\ l.links = client[c].links
  BY <1>0 DEF CallState
<1> HIDE DEF l
<1>4. Shape(l) BY DEF l
<1>5. CallStep(c) BY <1>2, <1>3, <1>4 DEF CallStep
<1> QED BY <1>2, <1>5 DEF l

LEMMA IdleShape ==
  ASSUME NEW l, Shape(l), l.pc = "idle" PROVE l = Idle
BY DEF Shape

LEMMA BegunStep ==
  ASSUME TInv, NEW c \in Clients, NEW call \in CallState, Begin(c, call),
         Shape([call EXCEPT !.n = ops + 1]),
         call.artifact \in {None, artifact.id}, call.current \in {None, artifact.current},
         call.from = None, call.links = {}
  PROVE  /\ CallStep(c) /\ client[c] = Idle
         /\ client'[c] = [call EXCEPT !.n = ops + 1]
<1> DEFINE l == [call EXCEPT !.n = ops + 1]
<1>1. client[c] = Idle
  BY IdleShape DEF Begin, TInv
<1>2. /\ client' \in [Clients -> CallState] /\ client'[c] = l
      /\ \A d \in Clients \ {c} : client'[d] = client[d]
      /\ ops' = ops + 1 /\ ops < MaxOps
  BY BeginStep DEF TInv
<1>3. /\ l.n = ops + 1 /\ l.artifact = call.artifact /\ l.current = call.current
      /\ l.from = call.from /\ l.links = call.links
  BY DEF CallState
<1> HIDE DEF l
<1>4. Shape(l) BY DEF l
<1>5. client[c].n = None BY <1>1 DEF Idle
<1>6. CallStep(c) BY <1>2, <1>3, <1>4, <1>5 DEF CallStep
<1> QED BY <1>1, <1>2, <1>6 DEF l

-----------------------------------------------------------------------------
(* The steps of the calls, one by one *)

\* A call as it begins.
NewCall(l, pc, op, a, cur, num, t, form) ==
  /\ l.pc = pc /\ l.op = op /\ l.artifact = a /\ l.current = cur /\ l.number = num
  /\ l.from = None /\ l.text = t /\ l.data = t /\ l.form = form /\ l.seen = {} /\ l.links = {}

LEMMA NewStep ==
  ASSUME TInv, NEW c \in Clients, NEW call \in CallState, Begin(c, call),
         NEW pc, NEW op, NEW a \in {None, artifact.id}, NEW cur \in {None, artifact.current},
         NEW num \in 0..ops, NEW t, NEW form, NewCall(call, pc, op, a, cur, num, t, form),
         pc \in {"legacy", "write"} => InFile(form),
         \/ op = "register" /\ pc \in {"write", "commit"}
         \/ op = "migrate" /\ pc \in {"legacy", "commit"} /\ a # None
         \/ op = "update" /\ pc \in {"write", "commit"} /\ a # None /\ cur # None
         \/ op = "rollback" /\ pc = "target" /\ a # None /\ cur # None
         \/ op = "publish" /\ pc = "active" /\ a # None /\ cur # None
  PROVE  /\ CallStep(c) /\ client[c] = Idle /\ client'[c].n = ops + 1
         /\ NewCall(client'[c], pc, op, a, cur, num, t, form)
<1> DEFINE l == [call EXCEPT !.n = ops + 1]
<1>1. /\ l.n = ops + 1 /\ NewCall(l, pc, op, a, cur, num, t, form)
  BY DEF CallState, NewCall
<1>2. ops \in Nat BY ArtifactConstants DEF TInv, Types
<1>3. call.artifact = a /\ call.current = cur /\ call.from = None /\ call.links = {}
  BY DEF NewCall
<1>4. Begin(c, call) OBVIOUS
<1> HIDE DEF l
<1>5. l.n # None /\ l.number < l.n BY <1>1, <1>2 DEF None, NewCall
<1>6. Shape(l) BY <1>1, <1>5 DEF Shape, NewCall
<1>7. CallStep(c) /\ client[c] = Idle /\ client'[c] = l
  BY <1>3, <1>4, <1>6, BegunStep DEF l
<1> QED BY <1>1, <1>7

LEMMA LookupCall ==
  ASSUME TInv, NEW c \in Clients, Lookup(c)
  PROVE  /\ CallStep(c) /\ client[c] = Idle /\ client'[c].n = ops + 1
         /\ \E t \in Texts, form \in Forms :
              NewCall(client'[c], IF InFile(form) THEN "write" ELSE "commit", "register",
                      None, None, 0, t, form)
<1>1. PICK t \in Texts, form \in Forms :
        Begin(c, [Idle EXCEPT !.pc = IF InFile(form) THEN "write" ELSE "commit",
                              !.op = "register", !.text = t, !.data = t, !.form = form])
  BY DEF Lookup
<1> DEFINE pc == IF InFile(form) THEN "write" ELSE "commit"
           call == [Idle EXCEPT !.pc = pc, !.op = "register", !.text = t, !.data = t,
                                !.form = form]
<1>2. Begin(c, call) BY <1>1
<1>3. pc \in {"write", "commit"} /\ (pc = "write" => InFile(form)) OBVIOUS
<1>4. ops \in Nat /\ 0 \in 0..ops BY ArtifactConstants DEF TInv, Types
<1> HIDE DEF pc
<1>5. NewCall(call, pc, "register", None, None, 0, t, form) BY DEF Idle, NewCall
<1>6. call \in CallState
  BY <1>3, IdleType DEF CallState, Contents
<1> HIDE DEF call
<1>7. /\ CallStep(c) /\ client[c] = Idle /\ client'[c].n = ops + 1
      /\ NewCall(client'[c], pc, "register", None, None, 0, t, form)
  BY <1>2, <1>3, <1>4, <1>5, <1>6, NewStep
<1> QED BY <1>7 DEF pc

LEMMA CandidateCall ==
  ASSUME TInv, NEW c \in Clients, Candidate(c)
  PROVE  /\ CallStep(c) /\ client[c] = Idle /\ client'[c].n = ops + 1 /\ artifact.id # None
         /\ \E pc \in {"legacy", "commit"} :
              /\ pc = "commit" => ~InFile(artifact.form)
              /\ NewCall(client'[c], pc, "migrate", artifact.id, None, 0, artifact.text,
                         artifact.form)
<1> DEFINE pc == IF InFile(artifact.form) THEN "legacy" ELSE "commit"
           call == [Idle EXCEPT !.pc = pc, !.op = "migrate", !.artifact = artifact.id,
                                !.text = artifact.text, !.data = artifact.text,
                                !.form = artifact.form]
<1>2. artifact.id # None /\ Begin(c, call) BY DEF Candidate
<1>3. pc \in {"legacy", "commit"} /\ (pc = "commit" <=> ~InFile(artifact.form)) OBVIOUS
<1>4. /\ ops \in Nat /\ 0 \in 0..ops /\ artifact.text \in Contents /\ artifact.form \in Forms
      /\ artifact.id \in 0..MaxOps
  BY ArtifactConstants DEF TInv, Types, ArtifactRow
<1> HIDE DEF pc
<1>5. NewCall(call, pc, "migrate", artifact.id, None, 0, artifact.text, artifact.form)
  BY DEF Idle, NewCall
<1>6. call \in CallState
  BY <1>3, <1>4, IdleType DEF CallState
<1> HIDE DEF call
<1>7. /\ CallStep(c) /\ client[c] = Idle /\ client'[c].n = ops + 1
      /\ NewCall(client'[c], pc, "migrate", artifact.id, None, 0, artifact.text, artifact.form)
  BY <1>2, <1>3, <1>4, <1>5, <1>6, NewStep
<1> QED BY <1>2, <1>3, <1>7

LEMMA ReadCurrentCall ==
  ASSUME TInv, NEW c \in Clients, NEW op \in {"update", "rollback", "publish"},
         NEW pc, NEW t \in Contents, NEW form \in Forms, ReadCurrent(c, op, pc, t, form),
         \/ op = "update" /\ pc = IF InFile(form) THEN "write" ELSE "commit"
         \/ op = "rollback" /\ pc = "target"
         \/ op = "publish" /\ pc = "active"
  PROVE  /\ CallStep(c) /\ client[c] = Idle /\ client'[c].n = ops + 1
         /\ artifact.id # None /\ artifact.current \in Old
         /\ NewCall(client'[c], pc, op, artifact.id, artifact.current,
                    revisions[artifact.current].number, t, form)
<1>0. /\ ops \in Nat /\ MaxOps \in Nat /\ ops <= MaxOps
      /\ artifact.current \in Old /\ artifact.current \in Ids
      /\ artifact.id \in 0..MaxOps /\ artifact.current \in 0..MaxOps
  BY ArtifactConstants DEF ReadCurrent, TInv, Types, TableRefs, Known, Old, Ids, ArtifactRow
<1>1. revisions[artifact.current].number \in 0..ops
  <2>1. CASE Row(artifact.current)
    <3>1. revisions[artifact.current].number \in 1..artifact.current
      BY <1>0, <2>1 DEF TInv, TableRefs
    <3>2. artifact.current \in 1..ops BY <1>0 DEF Old
    <3> QED BY <1>0, <3>1, <3>2
  <2>2. CASE ~Row(artifact.current)
    <3>1. revisions[artifact.current] = NoRevision BY <1>0, <2>2 DEF TInv, TableRefs
    <3> QED BY <1>0, <3>1 DEF NoRevision
  <2> QED BY <2>1, <2>2
<1>2. pc \in {"write", "commit", "target", "active"} /\ (pc = "write" => InFile(form))
  OBVIOUS
<1> DEFINE num == revisions[artifact.current].number
           call == [Idle EXCEPT !.pc = pc, !.op = op, !.artifact = artifact.id,
                                !.current = artifact.current, !.number = num,
                                !.text = t, !.data = t, !.form = form]
<1>3. artifact.id # None /\ artifact.current # None /\ Begin(c, call)
  BY DEF ReadCurrent
<1>4. \/ op = "update" /\ pc \in {"write", "commit"}
      \/ op = "rollback" /\ pc = "target"
      \/ op = "publish" /\ pc = "active"
  OBVIOUS
<1>n. num \in 0..ops /\ num \in 0..MaxOps BY <1>0, <1>1
<1> HIDE DEF num
<1>5. NewCall(call, pc, op, artifact.id, artifact.current, num, t, form)
  BY DEF Idle, NewCall
<1>6. call \in CallState
  BY <1>0, <1>n, <1>2, IdleType DEF CallState
<1> HIDE DEF call
<1>7. /\ CallStep(c) /\ client[c] = Idle /\ client'[c].n = ops + 1
      /\ NewCall(client'[c], pc, op, artifact.id, artifact.current, num, t, form)
  BY <1>n, <1>2, <1>3, <1>4, <1>5, <1>6, NewStep
<1> QED BY <1>0, <1>3, <1>7 DEF num

-----------------------------------------------------------------------------
(* What a step may do to what the other calls know *)

\* Rows of operations that are over change only by disappearing, an id is never taken
\* twice, and what goes with an artifact goes for all.
Rely ==
  /\ \A x \in Old : Row(x)' => revisions'[x] = revisions[x]
  /\ artifact'.id \in Old => artifact'.id = artifact.id /\ artifact'.text = artifact.text
  /\ artifact'.id # artifact.id => \A x \in Old : ~Row(x)'
  /\ \A p \in Old : published'[p].artifact \in {None, published[p].artifact}

\* The files of call d.
OwnFiles(d) ==
  client[d].n # None => /\ items'[client[d].n] = items[client[d].n]
                        /\ snapshots'[client[d].n] = snapshots[client[d].n]

\* A call keeps what it has read while it moves on.
Same(l, m) ==
  /\ m.op = l.op /\ m.n = l.n /\ m.artifact = l.artifact /\ m.current = l.current
  /\ m.number = l.number /\ m.from = l.from /\ m.text = l.text /\ m.form = l.form

LEMMA ReadsKept ==
  ASSUME TInv, NEW d \in Clients, Reads(d), Rely, Same(client[d], client'[d]),
         client'[d].pc = "erase" => client[d].pc = "erase" \/ artifact'.id # client[d].artifact
  PROVE  Reads(d)'
<1> DEFINE l == client[d]  m == client'[d]
<1>0. /\ l.artifact # None => l.artifact \in Old
      /\ l.current # None => l.current \in Old
      /\ l.from # None => l.from \in Old
  BY DEF TInv, CallRefs, Known
<1>1. /\ m.op = l.op /\ m.artifact = l.artifact /\ m.current = l.current
      /\ m.number = l.number /\ m.from = l.from /\ m.text = l.text /\ m.form = l.form
  BY DEF Same
<1> HIDE DEF m
<1>2. m.artifact # None => m.artifact = artifact'.id \/ revisions'[m.artifact].artifact = None
  <2>1. CASE l.artifact = artifact.id
    BY <1>0, <1>1, <2>1 DEF Rely, Row
  <2>2. CASE l.artifact # artifact.id
    <3>1. l.artifact # None => ~Row(l.artifact) BY <2>2 DEF Reads
    <3> QED BY <1>0, <1>1, <3>1 DEF Rely, Row
  <2> QED BY <2>1, <2>2
<1>3. m.pc = "erase" => artifact'.id # m.artifact
  <2>1. CASE l.pc = "erase" /\ m.pc = "erase"
    <3>1. artifact.id # l.artifact /\ l.artifact # None /\ l.artifact \in Old
      BY <1>0, <2>1 DEF Reads, TInv, Shape, Idle
    <3> QED BY <1>1, <3>1 DEF Rely
  <2> QED BY <1>1, <2>1 DEF m
<1>4. m.op = "migrate" /\ artifact'.id = m.artifact => m.text = artifact'.text
  <2>1. ASSUME l.op = "migrate" PROVE l.artifact # None
    BY <2>1 DEF TInv, Shape, Idle
  <2> QED BY <1>0, <1>1, <2>1 DEF Rely, Reads
<1>5. m.current # None /\ revisions'[m.current].artifact # None =>
       /\ m.number = revisions'[m.current].number
       /\ m.op = "publish" => /\ m.text = revisions'[m.current].text
                              /\ m.form = revisions'[m.current].form
  BY <1>0, <1>1 DEF Rely, Reads, Row
<1>6. m.from # None /\ revisions'[m.from].artifact # None => m.text = revisions'[m.from].text
  BY <1>0, <1>1 DEF Rely, Reads, Row
<1> QED BY <1>2, <1>3, <1>4, <1>5, <1>6 DEF Reads, Row, m

LEMMA HoldsKept ==
  ASSUME TInv, NEW d \in Clients, Holds(d), Rely, OwnFiles(d), client'[d] = client[d]
  PROVE  Holds(d)'
<1> DEFINE l == client[d]
<1>0. l.links \subseteq Old /\ (l.current # None => l.current \in Old)
  BY DEF TInv, CallRefs, Known
<1>1. l.pc \in {"commit", "register"} => l.n # None
  BY DEF TInv, Shape, Idle
<1>2. l.pc \in {"copy", "register"} => l.current # None
  BY DEF TInv, Shape, Idle
<1>3. /\ l.pc = "purge" => \A p \in l.links : published'[p].artifact \in {None, l.artifact}
      /\ l.pc = "unlink" => \A p \in l.links : published'[p].artifact = None
  BY <1>0 DEF Holds, Rely
<1>4. l.pc \in {"copy", "register"} /\ Row(l.current)' => Row(l.current)
  BY <1>0, <1>2 DEF Rely, Row
<1>5. l.pc = "commit" /\ InFile(l.form) => items'[l.n] = l.data
  BY <1>1 DEF Holds, OwnFiles
<1>6. l.pc = "register" /\ l.form = "binary" /\ Row(l.current)' => snapshots'[l.n] = l.data
  BY <1>1, <1>4 DEF Holds, OwnFiles
<1>7. l.pc \in {"copy", "register"} /\ Row(l.current)' => l.data = Public(l.text, l.form)
  BY <1>4 DEF Holds
<1>8. l.pc \in {"write", "commit"} => l.data = l.text BY DEF Holds
<1> HIDE DEF l
<1> QED BY <1>3, <1>5, <1>6, <1>7, <1>8 DEF Holds, l

LEMMA OthersKnow ==
  ASSUME TInv, NEW c \in Clients, CallStep(c), Rely,
         \A d \in Clients : Reads(d) /\ Holds(d), \A d \in Clients \ {c} : OwnFiles(d),
         Reads(c)', Holds(c)'
  PROVE  \A d \in Clients : Reads(d)' /\ Holds(d)'
<1> SUFFICES ASSUME NEW d \in Clients \ {c} PROVE Reads(d)' /\ Holds(d)'
  OBVIOUS
<1>1. client'[d] = client[d] BY DEF CallStep
<1>2. Same(client[d], client'[d]) BY <1>1 DEF Same
<1>3. Reads(d)' BY <1>1, <1>2, ReadsKept
<1>4. Holds(d)' BY <1>1, HoldsKept
<1> QED BY <1>3, <1>4

\* A call that is over knows nothing.
LEMMA IdleKnows ==
  ASSUME NEW c \in Clients, client'[c] = Idle PROVE Reads(c)' /\ Holds(c)'
BY DEF Reads, Holds, Idle, None

\* While the files are as they were, the calls still own theirs.
LEMMA OwnedKept ==
  ASSUME Owned, NEW c \in Clients, CallStep(c), left \subseteq left',
         UNCHANGED <<artifact, revisions, published, items, snapshots>>,
         \A n \in Ids \ left' : /\ items[n] # None /\ ItemOf(c, n) => ItemOf(c, n)'
                                /\ snapshots[n] # None /\ SnapshotOf(c, n) => SnapshotOf(c, n)'
  PROVE  Owned'
<1> SUFFICES ASSUME NEW n \in Ids \ left'
             PROVE  /\ items'[n] # None =>
                         Row(n)' \/ n = artifact'.id \/ \E d \in Clients : ItemOf(d, n)'
                    /\ snapshots'[n] # None =>
                         published'[n].status # "none" \/ \E d \in Clients : SnapshotOf(d, n)'
  BY DEF Owned
<1>1. \A d \in Clients : /\ items[n] # None /\ ItemOf(d, n) => ItemOf(d, n)'
                         /\ snapshots[n] # None /\ SnapshotOf(d, n) => SnapshotOf(d, n)'
  BY DEF CallStep, ItemOf, SnapshotOf
<1>2. Row(n) => Row(n)' BY DEF Row
<1>3. n \in Ids \ left OBVIOUS
<1> QED BY <1>1, <1>2, <1>3 DEF Owned

\* The history, as a statement about its rows.
RowSet == {r \in Ids : Row(r)}
Linear(R, rev, a) ==
  /\ \A r \in R : rev[r].artifact = a.id
  /\ {rev[r].number : r \in R} = 1..Cardinality(R)
  /\ (R = {}) = (a.current = None)
  /\ \A r \in R : (r = a.current) = (rev[r].number = Cardinality(R))
  /\ \A r \in R : IF rev[r].number = 1 THEN rev[r].parent = None /\ rev[r].text = a.text
                  ELSE rev[r].parent \in R /\ rev[rev[r].parent].number = rev[r].number - 1
  /\ \A r \in R : rev[r].from # None => rev[r].text = rev[rev[r].from].text

LEMMA HistoryParts ==
  /\ HistoryIsLinear <=> Linear(RowSet, revisions, artifact)
  /\ HistoryIsLinear' <=> Linear(RowSet', revisions', artifact')
BY DEF HistoryIsLinear, Linear, RowSet, Row

LEMMA SameTables ==
  ASSUME UNCHANGED <<artifact, revisions, published, items, snapshots>>
  PROVE  /\ RevisionsReadable => RevisionsReadable'
         /\ HistoryIsLinear => HistoryIsLinear'
         /\ RollbacksInside => RollbacksInside'
         /\ Links => Links'
         /\ LinksServe => LinksServe'
<1>1. /\ \A x : Row(x)' = Row(x) /\ \A a : Active(a)' = Active(a)
      /\ {r \in Ids : Row(r)}' = {r \in Ids : Row(r)}
  BY DEF Row, Active, Linked
<1>2. HistoryIsLinear => HistoryIsLinear'
  BY HistoryParts DEF RowSet, Row
<1>3. LinksServe => LinksServe'
  BY <1>1 DEF LinksServe
<1>4. /\ RevisionsReadable => RevisionsReadable'
      /\ RollbacksInside => RollbacksInside'
      /\ Links => Links'
  BY <1>1 DEF RevisionsReadable, RollbacksInside, Links
<1> QED BY <1>2, <1>3, <1>4

LEMMA SameForOthers ==
  ASSUME UNCHANGED <<artifact, revisions, published, items, snapshots>>
  PROVE  Rely /\ \A d \in Clients : OwnFiles(d)
BY DEF Rely, OwnFiles, Row

\* A step that leaves the tables alone.
LEMMA Quiet ==
  ASSUME TInv, KInv, NEW c \in Clients, CallStep(c), Leaves(c),
         UNCHANGED <<artifact, revisions, published, items, snapshots>>,
         Reads(c)', Holds(c)',
         \A n \in Ids \ left' : /\ items[n] # None /\ ItemOf(c, n) => ItemOf(c, n)'
                                /\ snapshots[n] # None /\ SnapshotOf(c, n) => SnapshotOf(c, n)'
  PROVE  TInv' /\ KInv'
<1>0. left \subseteq left' /\ left' \subseteq Old' BY LeftRefer
<1>1. TInv' BY <1>0, TablesKept DEF TInv, Types
<1>2. \A d \in Clients : Reads(d)' /\ Holds(d)'
  BY OthersKnow, SameForOthers DEF KInv
<1>3. Owned' BY <1>0, OwnedKept DEF KInv
<1> QED BY <1>1, <1>2, <1>3, SameTables DEF KInv

-----------------------------------------------------------------------------
(* Steps that leave the tables alone *)

LEMMA NoFiles ==
  ASSUME NEW c \in Clients, client[c].pc \notin {"commit", "discard", "register"}
  PROVE  \A n \in Ids : ~ItemOf(c, n) /\ ~SnapshotOf(c, n)
BY DEF ItemOf, SnapshotOf

LEMMA IdleHasNoFiles ==
  ASSUME NEW c \in Clients, client[c] = Idle
  PROVE  \A n \in Ids : ~ItemOf(c, n) /\ ~SnapshotOf(c, n)
BY NoFiles DEF Idle

LEMMA LookupQuiet ==
  ASSUME TInv, KInv, NEW c \in Clients, Lookup(c) PROVE TInv' /\ KInv'
<1>1. PICK t \in Texts, form \in Forms :
        NewCall(client'[c], IF InFile(form) THEN "write" ELSE "commit", "register",
                None, None, 0, t, form)
  BY LookupCall
<1>2. CallStep(c) /\ client[c] = Idle BY LookupCall
<1>3. UNCHANGED <<artifact, revisions, published, items, snapshots, left>> BY DEF Lookup
<1>4. Reads(c)' BY <1>1 DEF NewCall, Reads, None
<1>5. Holds(c)' BY <1>1 DEF NewCall, Holds
<1> QED BY <1>2, <1>3, <1>4, <1>5, Quiet, IdleHasNoFiles DEF Leaves

LEMMA CandidateQuiet ==
  ASSUME TInv, KInv, NEW c \in Clients, Candidate(c) PROVE TInv' /\ KInv'
<1>1. PICK pc \in {"legacy", "commit"} :
        /\ pc = "commit" => ~InFile(artifact.form)
        /\ NewCall(client'[c], pc, "migrate", artifact.id, None, 0, artifact.text, artifact.form)
  BY CandidateCall
<1>2. CallStep(c) /\ client[c] = Idle BY CandidateCall
<1>3. UNCHANGED <<artifact, revisions, published, items, snapshots, left>> BY DEF Candidate
<1>4. Reads(c)' BY <1>1, <1>3 DEF NewCall, Reads
<1>5. Holds(c)' BY <1>1, <1>3 DEF NewCall, Holds
<1> QED BY <1>2, <1>3, <1>4, <1>5, Quiet, IdleHasNoFiles DEF Leaves

LEMMA ReadCurrentQuiet ==
  ASSUME TInv, KInv, NEW c \in Clients, NEW op \in {"update", "rollback", "publish"},
         NEW pc, NEW t \in Contents, NEW form \in Forms, ReadCurrent(c, op, pc, t, form),
         \/ op = "update" /\ pc = IF InFile(form) THEN "write" ELSE "commit"
         \/ op = "rollback" /\ pc = "target"
         \/ /\ op = "publish" /\ pc = "active"
            /\ t = revisions[artifact.current].text /\ form = revisions[artifact.current].form,
         UNCHANGED <<artifact, revisions, published, items, snapshots, left>>
  PROVE  TInv' /\ KInv'
<1>1. NewCall(client'[c], pc, op, artifact.id, artifact.current,
              revisions[artifact.current].number, t, form)
  BY ReadCurrentCall
<1>2. CallStep(c) /\ client[c] = Idle BY ReadCurrentCall
<1>4. Reads(c)' BY <1>1 DEF NewCall, Reads
<1>5. Holds(c)' BY <1>1 DEF NewCall, Holds
<1> QED BY <1>2, <1>4, <1>5, Quiet, IdleHasNoFiles DEF Leaves

LEMMA UpdateQuiet ==
  ASSUME TInv, KInv, NEW c \in Clients, Update(c) PROVE TInv' /\ KInv'
<1>1. PICK t \in Texts, form \in Forms :
        ReadCurrent(c, "update", IF InFile(form) THEN "write" ELSE "commit", t, form)
  BY DEF Update
<1>2. t \in Contents BY DEF Contents
<1> QED BY <1>1, <1>2, ReadCurrentQuiet DEF Update

LEMMA RollbackQuiet ==
  ASSUME TInv, KInv, NEW c \in Clients, Rollback(c) PROVE TInv' /\ KInv'
<1>1. None \in Contents /\ "inline" \in Forms BY DEF Contents, Forms
<1> QED BY <1>1, ReadCurrentQuiet DEF Rollback

LEMMA PublishQuiet ==
  ASSUME TInv, KInv, NEW c \in Clients, Publish(c) PROVE TInv' /\ KInv'
<1> DEFINE rev == revisions[artifact.current]
<1>1. artifact.current \in Ids
  BY ArtifactConstants DEF Publish, TInv, TableRefs, Known, Old, Ids, Types
<1>2. rev.text \in Contents /\ rev.form \in Forms BY <1>1 DEF TInv, Types, RevisionRow
<1>3. ReadCurrent(c, "publish", "active", rev.text, rev.form) BY DEF Publish
<1> QED BY <1>2, <1>3, ReadCurrentQuiet DEF Publish

LEMMA DeleteQuiet ==
  ASSUME TInv, KInv, NEW c \in Clients, Delete(c) PROVE TInv' /\ KInv'
<1> DEFINE call == [Idle EXCEPT !.pc = "links", !.op = "delete", !.artifact = artifact.id,
                                !.form = artifact.form]
<1>0. /\ client[c].pc = "idle" /\ artifact.id # None
      /\ client' = [client EXCEPT ![c] = call]
      /\ UNCHANGED <<artifact, revisions, published, items, snapshots, ops, left>>
  BY DEF Delete
<1>1. client[c] = Idle BY <1>0, IdleShape DEF TInv
<1>2. /\ call.pc = "links" /\ call.op = "delete" /\ call.artifact = artifact.id /\ call.n = None
      /\ call.current = None /\ call.from = None /\ call.links = {}
  BY DEF Idle
<1>3. call \in CallState
  <2>1. artifact.id \in 0..MaxOps /\ artifact.form \in Forms BY DEF TInv, Types, ArtifactRow
  <2> QED BY <2>1, IdleType DEF CallState
<1> HIDE DEF call
<1>4. /\ client' \in [Clients -> CallState] /\ client'[c] = call
      /\ \A d \in Clients \ {c} : client'[d] = client[d]
  BY <1>0, <1>3 DEF TInv, Types
<1>5. Shape(call) BY <1>0, <1>2 DEF Shape
<1>6. CallStep(c) BY <1>0, <1>2, <1>4, <1>5 DEF CallStep
<1>7. Reads(c)' BY <1>0, <1>2, <1>4 DEF Reads
<1>8. Holds(c)' BY <1>2, <1>4 DEF Holds
<1> QED BY <1>0, <1>1, <1>6, <1>7, <1>8, IdleHasNoFiles, Quiet DEF Leaves

\* A call that ends where it is leaves its file, if it has one, behind.
LEMMA LeavingQuiet ==
  ASSUME TInv, KInv, NEW c \in Clients, End(c), left' = LeftBy(client[c].n),
         UNCHANGED <<artifact, revisions, published, items, snapshots, ops>>
  PROVE  TInv' /\ KInv'
<1>1. CallStep(c) /\ client'[c] = Idle BY EndStep DEF TInv
<1>2. Leaves(c) BY <1>1 DEF Leaves, Idle
<1>3. \A n \in Ids \ left' : /\ items[n] # None => n # client[c].n
                             /\ snapshots[n] # None => n # client[c].n
  BY DEF LeftBy
<1> QED BY <1>1, <1>2, <1>3, IdleKnows, Quiet DEF ItemOf, SnapshotOf

LEMMA StopQuiet ==
  ASSUME TInv, KInv, NEW c \in Clients, Stop(c) PROVE TInv' /\ KInv'
BY LeavingQuiet DEF Stop

LEMMA RefuseQuiet ==
  ASSUME TInv, KInv, NEW c \in Clients, Refuse(c) PROVE TInv' /\ KInv'
BY LeavingQuiet DEF Refuse

\* A call that is over, and owned no file, leaves everything as it was.
LEMMA EndQuiet ==
  ASSUME TInv, KInv, NEW c \in Clients, End(c),
         client[c].pc \notin {"commit", "discard", "register"},
         UNCHANGED <<artifact, revisions, published, items, snapshots, ops, left>>
  PROVE  TInv' /\ KInv'
<1>1. CallStep(c) /\ client'[c] = Idle BY EndStep DEF TInv
<1> QED BY <1>1, IdleKnows, NoFiles, Quiet DEF Leaves

\* A call that only moves on: where it may go.
LEMMA MoveStep ==
  ASSUME TInv, NEW c \in Clients, NEW pc, Goto(c, pc), ops' = ops,
         \/ client[c].pc = "write" /\ pc = "commit"
         \/ /\ client[c].pc \in {"commit", "register"} /\ pc = "discard" /\ InFile(client[c].form)
            /\ client[c].op = "publish" => client[c].form = "binary"
         \/ client[c].pc = "copy" /\ pc = "register"
         \/ client[c].pc = "purge" /\ pc = "unlink"
         \/ client[c].pc = "unlink" /\ pc = "remove"
         \/ client[c].pc = "remove" /\ pc = "erase"
  PROVE  /\ CallStep(c) /\ Same(client[c], client'[c]) /\ client'[c].pc = pc
         /\ client'[c].data = client[c].data /\ client'[c].links = client[c].links
<1> DEFINE l == client[c]  m == [l EXCEPT !.pc = pc]
<1>0. l \in CallState /\ Shape(l) BY DEF TInv, Types
<1>1. Same(l, m) /\ m.pc = pc /\ m.data = l.data /\ m.links = l.links
  BY <1>0 DEF CallState, Same
<1> HIDE DEF m
<1>2. Shape(m) BY <1>0, <1>1 DEF Shape, Same, Idle
<1>3. CallStep(c) /\ client'[c] = m BY <1>2, GotoStep DEF m
<1> QED BY <1>1, <1>3

LEMMA RaiseQuiet ==
  ASSUME TInv, KInv, NEW c \in Clients, Raise(c) PROVE TInv' /\ KInv'
<1>1. /\ client[c].pc \in {"commit", "register"} /\ InFile(client[c].form)
      /\ client[c].op = "publish" => client[c].form = "binary"
      /\ Goto(c, "discard")
      /\ UNCHANGED <<artifact, revisions, published, items, snapshots, ops, left>>
  BY DEF Raise
<1>2. CallStep(c) /\ Same(client[c], client'[c]) /\ client'[c].pc = "discard"
  BY <1>1, MoveStep
<1>3. Reads(c)' BY <1>1, <1>2, ReadsKept, SameForOthers DEF KInv
<1>4. Holds(c)' BY <1>2 DEF Holds
<1>5. \A n \in Ids : /\ ItemOf(c, n) => ItemOf(c, n)'
                     /\ SnapshotOf(c, n) => SnapshotOf(c, n)'
  BY <1>2 DEF Same, ItemOf, SnapshotOf
<1> QED BY <1>1, <1>2, <1>3, <1>4, <1>5, Quiet DEF Leaves

\* A call that reads and writes nothing down but what it has read.
LEMMA ReadStep ==
  ASSUME TInv, NEW c \in Clients, NEW m \in CallState,
         client' = [client EXCEPT ![c] = m], ops' = ops, Shape(m),
         m.n = client[c].n, m.artifact = client[c].artifact, m.current = client[c].current,
         m.from = client[c].from \/ (m.from \in Ids /\ Row(m.from)),
         m.links \subseteq client[c].links \union {p \in Ids : published[p].status # "none"}
  PROVE  CallStep(c) /\ client'[c] = m
<1>1. /\ client' \in [Clients -> CallState] /\ client'[c] = m
      /\ \A d \in Clients \ {c} : client'[d] = client[d]
  BY DEF TInv, Types
<1> QED BY <1>1 DEF CallStep

LEMMA ReadLegacyQuiet ==
  ASSUME TInv, KInv, NEW c \in Clients, ReadLegacy(c) PROVE TInv' /\ KInv'
<1> DEFINE l == client[c]
           m == [l EXCEPT !.pc = "write", !.data = items[l.artifact]]
<1>0. /\ l.pc = "legacy"
      /\ UNCHANGED <<artifact, revisions, published, items, snapshots, ops, left>>
      /\ l \in CallState /\ Shape(l)
  BY DEF ReadLegacy, TInv, Types
<1>1. CASE ~LegacyIsIntact(l)
  BY <1>0, <1>1, EndQuiet DEF ReadLegacy
<1>2. CASE LegacyIsIntact(l)
  <2>1. client' = [client EXCEPT ![c] = m]
    BY <1>2 DEF ReadLegacy, TInv, Types
  <2>2. items[l.artifact] = l.text BY <1>2 DEF LegacyIsIntact
  <2>3. /\ m \in CallState /\ m.pc = "write" /\ Same(l, m) /\ m.data = l.text
        /\ m.links = l.links
    BY <1>0, <2>2 DEF CallState, Same
  <2>4. l.op = "migrate" /\ l.n # None /\ l.artifact # None /\ l.number < l.n
    BY <1>0 DEF Shape, Idle
  <2> HIDE DEF m
  <2>5. InFile(l.form)
    BY <1>0 DEF Shape, Idle
  <2>6. Shape(m) BY <2>3, <2>4, <2>5 DEF Shape, Same
  <2>7. CallStep(c) /\ client'[c] = m BY <1>0, <2>1, <2>3, <2>6, ReadStep DEF Same
  <2>8. Reads(c)' BY <1>0, <2>3, <2>7, ReadsKept, SameForOthers DEF KInv
  <2>9. Holds(c)' BY <2>3, <2>7 DEF Holds, Same
  <2> QED BY <1>0, <2>3, <2>4, <2>7, <2>8, <2>9, NoFiles, Quiet DEF Leaves
<1> QED BY <1>1, <1>2

LEMMA GetActiveQuiet ==
  ASSUME TInv, KInv, NEW c \in Clients, GetActive(c) PROVE TInv' /\ KInv'
<1> DEFINE l == client[c]
           seen == {published[p].text : p \in Active(l.artifact)}
           m == [l EXCEPT !.pc = "content", !.seen = seen]
<1>0. /\ l.pc = "active"
      /\ UNCHANGED <<artifact, revisions, published, items, snapshots, ops, left>>
      /\ l \in CallState /\ Shape(l)
  BY DEF GetActive, TInv, Types
<1>1. client' = [client EXCEPT ![c] = m]
  BY DEF GetActive, TInv, Types
<1>2. seen \subseteq Contents
  <2>1. Active(l.artifact) \subseteq Ids BY DEF Active, Linked
  <2> QED BY <2>1 DEF TInv, Types, LinkRow
<1> HIDE DEF seen
<1>3. m \in CallState /\ m.pc = "content" /\ Same(l, m) /\ m.links = l.links
  BY <1>0, <1>2 DEF CallState, Same
<1>4. /\ l.op = "publish" /\ l.n # None /\ l.artifact # None /\ l.current # None
      /\ l.number < l.n
  BY <1>0 DEF Shape, Idle
<1> HIDE DEF m
<1>6. Shape(m) BY <1>3, <1>4 DEF Shape, Same
<1>7. CallStep(c) /\ client'[c] = m BY <1>0, <1>1, <1>3, <1>6, ReadStep DEF Same
<1>8. Reads(c)' BY <1>0, <1>3, <1>7, ReadsKept, SameForOthers DEF KInv
<1>9. Holds(c)' BY <1>3, <1>7 DEF Holds, Same
<1> QED BY <1>0, <1>3, <1>4, <1>7, <1>8, <1>9, NoFiles, Quiet DEF Leaves

LEMMA ListPublishedQuiet ==
  ASSUME TInv, KInv, NEW c \in Clients, ListPublished(c) PROVE TInv' /\ KInv'
<1> DEFINE l == client[c]
           links == Linked(l.artifact)
           pc == IF links = {} THEN "remove" ELSE "purge"
           m == [l EXCEPT !.pc = pc, !.links = links]
<1>0. /\ l.pc = "links"
      /\ UNCHANGED <<artifact, revisions, published, items, snapshots, ops, left>>
      /\ l \in CallState /\ Shape(l)
  BY DEF ListPublished, TInv, Types
<1>1. client' = [client EXCEPT ![c] = m]
  BY DEF ListPublished, TInv, Types
<1>2. /\ links \subseteq {p \in Ids : published[p].status # "none"}
      /\ \A p \in links : published[p].artifact = l.artifact
      /\ pc \in {"remove", "purge"}
  BY DEF Linked
<1> HIDE DEF links, pc
<1>3. m \in CallState /\ m.pc = pc /\ Same(l, m) /\ m.links = links
  BY <1>0, <1>2 DEF CallState, Same
<1>4. l.op = "delete" /\ l.n = None /\ l.artifact # None
  BY <1>0 DEF Shape, Idle
<1> HIDE DEF m
<1>6. Shape(m) BY <1>2, <1>3, <1>4 DEF Shape, Same
<1>7. CallStep(c) /\ client'[c] = m BY <1>0, <1>1, <1>2, <1>3, <1>6, ReadStep DEF Same
<1>8. Reads(c)' BY <1>0, <1>2, <1>3, <1>7, ReadsKept, SameForOthers DEF KInv
<1>9. Holds(c)' BY <1>0, <1>2, <1>3, <1>7 DEF Holds, Same
<1> QED BY <1>0, <1>7, <1>8, <1>9, NoFiles, Quiet DEF Leaves

LEMMA ReadTargetQuiet ==
  ASSUME TInv, KInv, NEW c \in Clients, ReadTarget(c) PROVE TInv' /\ KInv'
<1> DEFINE l == client[c]
<1>0. /\ l.pc = "target"
      /\ UNCHANGED <<artifact, revisions, published, items, snapshots, ops, left>>
      /\ l \in CallState /\ Shape(l)
  BY DEF ReadTarget, TInv, Types
<1>1. PICK r \in {r \in Ids : revisions[r].artifact = l.artifact} :
        LET form == revisions[r].form IN
        /\ InFile(form) => items[r] # None
        /\ client' = [client EXCEPT ![c] =
             [l EXCEPT !.pc = IF InFile(form) THEN "write" ELSE "commit",
                       !.from = r, !.text = revisions[r].text, !.form = form,
                       !.data = IF InFile(form) THEN items[r] ELSE revisions[r].text]]
  BY DEF ReadTarget
<1> DEFINE form == revisions[r].form
           text == revisions[r].text
           pc == IF InFile(form) THEN "write" ELSE "commit"
           data == IF InFile(form) THEN items[r] ELSE text
           m == [l EXCEPT !.pc = pc, !.from = r, !.text = text, !.form = form, !.data = data]
<1>2. client' = [client EXCEPT ![c] = m] BY <1>1
<1>3. /\ l.op = "rollback" /\ l.n # None /\ l.artifact # None /\ l.current # None
      /\ l.number < l.n
  BY <1>0 DEF Shape, Idle
<1>4. Row(r) BY <1>1, <1>3 DEF Row
<1>r. r \in Ids OBVIOUS
<1>5. data = text BY <1>r, <1>4 DEF KInv, RevisionsReadable
<1>6. /\ text \in Contents /\ form \in Forms /\ r \in 0..MaxOps
      /\ pc \in {"write", "commit"} /\ (pc = "write" <=> InFile(form))
  <2>1. text \in Contents /\ form \in Forms BY <1>r DEF TInv, Types, RevisionRow
  <2>2. r \in 0..MaxOps BY <1>r, ArtifactConstants DEF Ids
  <2> QED BY <2>1, <2>2
<1> HIDE DEF data, pc
<1>7. /\ m \in CallState /\ m.pc = pc /\ m.op = l.op /\ m.n = l.n /\ m.artifact = l.artifact
      /\ m.current = l.current /\ m.number = l.number /\ m.from = r /\ m.text = text
      /\ m.form = form /\ m.data = text /\ m.links = l.links
  BY <1>0, <1>5, <1>6 DEF CallState
<1> HIDE DEF m, form, text
<1>8. Shape(m) BY <1>3, <1>6, <1>7 DEF Shape
<1>9. r \in Ids /\ Row(r) BY <1>4
<1>10. CallStep(c) /\ client'[c] = m BY <1>0, <1>2, <1>7, <1>8, <1>9, ReadStep
<1>11. Reads(c)'
  <2>1. Reads(c) BY DEF KInv
  <2>2. revisions[r].text = text BY DEF text
  <2> QED BY <1>0, <1>3, <1>6, <1>7, <1>10, <2>1, <2>2 DEF Reads, Row
<1>12. Holds(c)' BY <1>6, <1>7, <1>10 DEF Holds
<1> QED BY <1>0, <1>3, <1>7, <1>10, <1>11, <1>12, NoFiles, Quiet DEF Leaves

\* The content a publish is shown: if its revision is still there, that revision's.
LEMMA ContentRead ==
  ASSUME TInv, KInv, NEW c \in Clients, client[c].op = "publish", client[c].current # None,
         Row(client[c].current), InFile(client[c].form)
  PROVE  items[client[c].current] = client[c].text
<1>1. client[c].current \in Ids
  BY ArtifactConstants DEF TInv, Types, CallRefs, Known, Old, Ids
<1>2. /\ client[c].text = revisions[client[c].current].text
      /\ client[c].form = revisions[client[c].current].form
  BY DEF KInv, Reads
<1> QED BY <1>1, <1>2 DEF KInv, RevisionsReadable

LEMMA ReadContentQuiet ==
  ASSUME TInv, KInv, NEW c \in Clients, ReadContent(c) PROVE TInv' /\ KInv'
<1> DEFINE l == client[c]
           data == IF InFile(l.form) THEN items[l.current] ELSE l.text
           public == Public(data, l.form)
           pc == IF l.form = "binary" THEN "copy" ELSE "register"
           m == [l EXCEPT !.pc = pc, !.data = public, !.seen = {}]
<1>0. /\ l.pc = "content"
      /\ UNCHANGED <<artifact, revisions, published, items, snapshots, ops, left>>
      /\ l \in CallState /\ Shape(l)
  BY DEF ReadContent, TInv, Types
<1>1. CASE public \in l.seen
  BY <1>0, <1>1, EndQuiet DEF ReadContent
<1>2. CASE public \notin l.seen
  <2>1. client' = [client EXCEPT ![c] = m]
    BY <1>2 DEF ReadContent, TInv, Types
  <2>2. /\ l.op = "publish" /\ l.n # None /\ l.artifact # None /\ l.current # None
        /\ l.number < l.n
    BY <1>0 DEF Shape, Idle
  <2>3. l.current \in Ids BY <2>2, ArtifactConstants DEF TInv, Types, CallRefs, Known, Old, Ids
  <2>4. data \in Contents BY <1>0, <2>3 DEF TInv, Types, CallState
  <2>5. public \in Contents BY <2>4 DEF Public, Redacted, Contents, None
  <2>6. Row(l.current) => public = Public(l.text, l.form)
    BY <2>2, ContentRead
  <2>7. pc \in {"copy", "register"} /\ (pc = "copy" <=> l.form = "binary") OBVIOUS
  <2> HIDE DEF public, pc
  <2>8. /\ m \in CallState /\ m.pc = pc /\ Same(l, m) /\ m.data = public /\ m.links = l.links
    BY <1>0, <2>5, <2>7 DEF CallState, Same
  <2> HIDE DEF m
  <2>9. Shape(m) BY <2>2, <2>7, <2>8 DEF Shape, Same
  <2>10. CallStep(c) /\ client'[c] = m BY <1>0, <2>1, <2>8, <2>9, ReadStep DEF Same
  <2>11. Reads(c)' BY <1>0, <2>7, <2>8, <2>10, ReadsKept, SameForOthers DEF KInv
  <2>12. Holds(c)' BY <1>0, <2>6, <2>7, <2>8, <2>10 DEF Holds, Same, Row
  <2> QED BY <1>0, <2>2, <2>8, <2>10, <2>11, <2>12, NoFiles, Quiet DEF Leaves
<1> QED BY <1>1, <1>2

-----------------------------------------------------------------------------
(* Steps that write or delete a file *)

\* The ids of calls under way are nobody's rows.
LEMMA Unborn ==
  ASSUME TInv, NEW n \in Ids, n \notin Old
  PROVE  ~Row(n) /\ published[n].status = "none" /\ n # artifact.id
BY DEF TInv, TableRefs, Known, Ids, None

LEMMA OthersId ==
  ASSUME TInv, NEW c \in Clients, NEW d \in Clients \ {c}, client[d].n # None
  PROVE  client[d].n # client[c].n /\ client[d].n \in Ids /\ client[d].n \notin Old
BY OwnId DEF TInv, CallRefs

\* A step that changes files but no row: files of its own, or of what has been deleted.
LEMMA Filing ==
  ASSUME TInv, KInv, NEW c \in Clients, CallStep(c), left' = left,
         UNCHANGED <<artifact, revisions, published>>,
         items' \in [Ids -> Contents], snapshots' \in [Ids -> Contents],
         \A n \in Ids : \/ n = client[c].n
                        \/ /\ items'[n] = items[n] \/ (n \in Old /\ items'[n] = None)
                           /\ \/ snapshots'[n] = snapshots[n]
                              \/ n \in Old /\ snapshots'[n] = None,
         \A n \in Ids : Row(n) => items'[n] = items[n],
         \A p \in Ids : published[p].artifact # None => snapshots'[p] = snapshots[p],
         Reads(c)', Holds(c)',
         \A n \in Ids : n = client[c].n =>
           /\ items'[n] # None => ItemOf(c, n)'
           /\ snapshots'[n] # None => SnapshotOf(c, n)'
  PROVE  TInv' /\ KInv'
<1>0. left' \subseteq Old' BY LeftRefer DEF Leaves
<1>1. TInv' BY <1>0, TablesKept DEF TInv, Types
<1>2. Rely BY DEF Rely, Row
<1>3. \A d \in Clients \ {c} : OwnFiles(d)
  BY OthersId DEF OwnFiles
<1>4. \A d \in Clients : Reads(d)' /\ Holds(d)'
  BY <1>2, <1>3, OthersKnow DEF KInv
<1>5. RevisionsReadable'
  BY DEF KInv, RevisionsReadable, Row
<1>6. HistoryIsLinear' /\ RollbacksInside' /\ Links'
  <2>1. HistoryIsLinear' BY HistoryParts DEF KInv, RowSet, Row
  <2> QED BY <2>1 DEF KInv, RollbacksInside, Links, Row
<1>7. LinksServe'
  <2>1. \A a \in Ids : Active(a)' = Active(a) /\ Active(a) \subseteq Ids
    BY DEF Active, Linked
  <2>2. \A a \in Ids : \A p \in Active(a) : published[p].artifact # None
    BY DEF Active, Linked, Ids, None
  <2> QED BY <2>1, <2>2 DEF KInv, LinksServe, Row
<1>8. Owned'
  <2> SUFFICES ASSUME NEW n \in Ids \ left
               PROVE  /\ items'[n] # None =>
                           Row(n)' \/ n = artifact'.id \/ \E d \in Clients : ItemOf(d, n)'
                      /\ snapshots'[n] # None =>
                           published'[n].status # "none" \/ \E d \in Clients : SnapshotOf(d, n)'
    BY DEF Owned
  <2>1. CASE n = client[c].n BY <2>1
  <2>2. CASE n # client[c].n
    <3>1. items'[n] \in {items[n], None} /\ snapshots'[n] \in {snapshots[n], None} BY <2>2
    <3>2. \A d \in Clients : /\ ItemOf(d, n) => ItemOf(d, n)'
                             /\ SnapshotOf(d, n) => SnapshotOf(d, n)'
      BY <2>2 DEF CallStep, ItemOf, SnapshotOf
    <3> QED BY <3>1, <3>2 DEF KInv, Owned, Row
  <2> QED BY <2>1, <2>2
<1> QED BY <1>1, <1>4, <1>5, <1>6, <1>7, <1>8 DEF KInv

\* A call has files of one kind only.
LEMMA NoSnapshot ==
  ASSUME TInv, KInv, NEW c \in Clients, client[c].n # None, client[c].op # "publish"
  PROVE  snapshots[client[c].n] = None
<1>1. client[c].n \in Ids /\ client[c].n \notin Old BY OwnId
<1>2. published[client[c].n].status = "none" BY <1>1, Unborn
<1>3. \A d \in Clients : ~SnapshotOf(d, client[c].n) BY OthersId DEF SnapshotOf
<1>4. client[c].n \notin left BY <1>1 DEF TInv, LeftRefs
<1> QED BY <1>1, <1>2, <1>3, <1>4 DEF KInv, Owned

LEMMA NoItem ==
  ASSUME TInv, KInv, NEW c \in Clients, client[c].n # None, client[c].op = "publish"
  PROVE  items[client[c].n] = None
<1>1. client[c].n \in Ids /\ client[c].n \notin Old BY OwnId
<1>2. ~Row(client[c].n) /\ client[c].n # artifact.id BY <1>1, Unborn
<1>3. \A d \in Clients : ~ItemOf(d, client[c].n) BY OthersId DEF ItemOf
<1>4. client[c].n \notin left BY <1>1 DEF TInv, LeftRefs
<1> QED BY <1>1, <1>2, <1>3, <1>4 DEF KInv, Owned

LEMMA WriteItemFiles ==
  ASSUME TInv, KInv, NEW c \in Clients, WriteItem(c) PROVE TInv' /\ KInv'
<1> DEFINE l == client[c]  m == client'[c]
<1>0. /\ l.pc = "write" /\ items' = [items EXCEPT ![l.n] = l.data] /\ Goto(c, "commit")
      /\ UNCHANGED <<artifact, revisions, published, snapshots, ops, left>>
      /\ l \in CallState /\ Shape(l)
  BY DEF WriteItem, TInv, Types
<1>1. CallStep(c) /\ Same(l, m) /\ m.pc = "commit" /\ m.data = l.data
  BY <1>0, MoveStep
<1>2. l.n # None /\ l.op # "publish" /\ InFile(l.form) BY <1>0 DEF Shape, Idle
<1>3. l.n \in Ids /\ l.n \notin Old BY <1>2, OwnId
<1>4. items' \in [Ids -> Contents] /\ items'[l.n] = l.data
      /\ \A n \in Ids \ {l.n} : items'[n] = items[n]
  BY <1>0, <1>3 DEF TInv, Types, CallState
<1>5. ~Row(l.n) BY <1>3, Unborn
<1>6. Rely BY <1>0 DEF Rely, Row
<1> HIDE DEF m
<1>7. Reads(c)' BY <1>1, <1>6, ReadsKept DEF KInv, m
<1>8. Holds(c)'
  <2>1. l.data = l.text BY <1>0 DEF KInv, Holds
  <2> QED BY <1>1, <1>4, <2>1 DEF Holds, Same, m
<1>9. \A n \in Ids : n = l.n => ItemOf(c, n)'
  BY <1>1, <1>2 DEF ItemOf, Same, m
<1>10. snapshots[l.n] = None BY <1>2, NoSnapshot
<1> QED BY <1>0, <1>1, <1>4, <1>5, <1>7, <1>8, <1>9, <1>10, Filing DEF TInv, Types

LEMMA DiscardFiles ==
  ASSUME TInv, KInv, NEW c \in Clients, Discard(c) PROVE TInv' /\ KInv'
<1> DEFINE l == client[c]
<1>0. /\ l.pc = "discard" /\ End(c) /\ UNCHANGED <<artifact, revisions, published, ops>>
      /\ l \in CallState /\ Shape(l)
  BY DEF Discard, TInv, Types
<1>1. CallStep(c) /\ client'[c] = Idle BY <1>0, EndStep DEF TInv
<1>2. Reads(c)' /\ Holds(c)' BY <1>1, IdleKnows
<1>3. l.n # None BY <1>0 DEF Shape, Idle
<1>4. l.n \in Ids /\ l.n \notin Old BY <1>3, OwnId
<1>5. ~Row(l.n) /\ published[l.n].artifact = None
  BY <1>4, Unborn DEF TInv, TableRefs, NoPublish
<1>7. CASE left' = LeftBy(l.n) /\ UNCHANGED <<items, snapshots>>
  BY <1>0, <1>7, LeavingQuiet
<1>8. CASE /\ l.op = "publish" /\ left' = left
           /\ snapshots' = [snapshots EXCEPT ![l.n] = None] /\ UNCHANGED items
  <2>1. /\ snapshots' \in [Ids -> Contents] /\ snapshots'[l.n] = None
        /\ \A n \in Ids \ {l.n} : snapshots'[n] = snapshots[n]
    BY <1>4, <1>8 DEF TInv, Types, Contents
  <2>2. items[l.n] = None BY <1>3, <1>8, NoItem
  <2> QED BY <1>0, <1>1, <1>2, <1>5, <1>8, <2>1, <2>2, Filing DEF TInv, Types
<1>9. CASE /\ l.op # "publish" /\ left' = left
           /\ items' = [items EXCEPT ![l.n] = None] /\ UNCHANGED snapshots
  <2>1. /\ items' \in [Ids -> Contents] /\ items'[l.n] = None
        /\ \A n \in Ids \ {l.n} : items'[n] = items[n]
    BY <1>4, <1>9 DEF TInv, Types, Contents
  <2>2. snapshots[l.n] = None BY <1>3, <1>9, NoSnapshot
  <2> QED BY <1>0, <1>1, <1>2, <1>5, <1>9, <2>1, <2>2, Filing DEF TInv, Types
<1> QED BY <1>7, <1>8, <1>9 DEF Discard

LEMMA CopySnapshotFiles ==
  ASSUME TInv, KInv, NEW c \in Clients, CopySnapshot(c) PROVE TInv' /\ KInv'
<1> DEFINE l == client[c]  m == client'[c]
<1>0. /\ l.pc = "copy" /\ snapshots' = [snapshots EXCEPT ![l.n] = items[l.current]]
      /\ Goto(c, "register")
      /\ UNCHANGED <<artifact, revisions, published, items, ops, left>>
      /\ l \in CallState /\ Shape(l)
  BY DEF CopySnapshot, TInv, Types
<1>1. CallStep(c) /\ Same(l, m) /\ m.pc = "register" /\ m.data = l.data
  BY <1>0, MoveStep
<1>2. l.n # None /\ l.op = "publish" /\ l.form = "binary" /\ l.current # None
  BY <1>0 DEF Shape, Idle
<1>3. l.n \in Ids /\ l.n \notin Old BY <1>2, OwnId
<1>c. l.current \in Ids
  BY <1>2, ArtifactConstants DEF TInv, Types, CallRefs, Known, Old, Ids
<1>4. /\ snapshots' \in [Ids -> Contents] /\ snapshots'[l.n] = items[l.current]
      /\ \A n \in Ids \ {l.n} : snapshots'[n] = snapshots[n]
  BY <1>0, <1>3, <1>c DEF TInv, Types
<1>5. published[l.n].artifact = None
  BY <1>3, Unborn DEF TInv, TableRefs, NoPublish
<1>6. Rely BY <1>0 DEF Rely, Row
<1> HIDE DEF m
<1>7. Reads(c)' BY <1>1, <1>6, ReadsKept DEF KInv, m
<1>8. Holds(c)'
  <2>1. Row(l.current) => l.data = Public(l.text, l.form) BY <1>0 DEF KInv, Holds
  <2>2. Row(l.current) => items[l.current] = l.text BY <1>2, ContentRead DEF InFile
  <2>3. Public(l.text, l.form) = l.text BY <1>2 DEF Public
  <2> QED BY <1>0, <1>1, <1>4, <2>1, <2>2, <2>3 DEF Holds, Same, Row, m
<1>9. \A n \in Ids : n = l.n => SnapshotOf(c, n)'
  BY <1>1, <1>2 DEF SnapshotOf, Same, m
<1>10. items[l.n] = None BY <1>2, NoItem
<1> QED BY <1>0, <1>1, <1>4, <1>5, <1>7, <1>8, <1>9, <1>10, Filing DEF TInv, Types

LEMMA UnlinkSnapshotsFiles ==
  ASSUME TInv, KInv, NEW c \in Clients, UnlinkSnapshots(c) PROVE TInv' /\ KInv'
<1> DEFINE l == client[c]  m == client'[c]
<1>0. /\ l.pc = "unlink" /\ Goto(c, "remove")
      /\ UNCHANGED <<artifact, revisions, published, items, ops, left>>
      /\ l \in CallState /\ Shape(l)
  BY DEF UnlinkSnapshots, TInv, Types
<1>g. PICK gone \in SUBSET l.links :
        snapshots' = [p \in Ids |-> IF p \in gone THEN None ELSE snapshots[p]]
  BY DEF UnlinkSnapshots
<1>1. CallStep(c) /\ Same(l, m) /\ m.pc = "remove"
  BY <1>0, MoveStep
<1>2. l.n = None BY <1>0 DEF Shape, Idle
<1>3. \A n \in Ids : n # l.n BY <1>2 DEF Ids, None
<1>4. /\ snapshots' \in [Ids -> Contents]
      /\ \A n \in Ids : (n \in gone /\ snapshots'[n] = None) \/ snapshots'[n] = snapshots[n]
  BY <1>g DEF TInv, Types, Contents
<1>5. \A p \in gone : p \in Old /\ published[p].artifact = None
  BY <1>0 DEF TInv, CallRefs, KInv, Holds
<1>6. Rely BY <1>0 DEF Rely, Row
<1> HIDE DEF m
<1>7. Reads(c)' BY <1>1, <1>6, ReadsKept DEF KInv, m
<1>8. Holds(c)' BY <1>1 DEF Holds, m
<1> QED BY <1>0, <1>1, <1>3, <1>4, <1>5, <1>7, <1>8, Filing DEF TInv, Types

LEMMA EraseContentFiles ==
  ASSUME TInv, KInv, NEW c \in Clients, EraseContent(c) PROVE TInv' /\ KInv'
<1> DEFINE l == client[c]
<1>0. /\ l.pc = "erase" /\ End(c)
      /\ UNCHANGED <<artifact, revisions, published, snapshots, ops, left>>
      /\ l \in CallState /\ Shape(l)
  BY DEF EraseContent, TInv, Types
<1>1. CASE UNCHANGED items BY <1>0, <1>1, EndQuiet
<1>2. CASE items' = [items EXCEPT ![l.artifact] = None]
  <2>1. CallStep(c) /\ client'[c] = Idle BY <1>0, EndStep DEF TInv
  <2>2. Reads(c)' /\ Holds(c)' BY <2>1, IdleKnows
  <2>3. l.n = None /\ l.artifact # None BY <1>0 DEF Shape, Idle
  <2>4. \A n \in Ids : n # l.n BY <2>3 DEF Ids, None
  <2>5. l.artifact \in Old /\ l.artifact \in Ids
    BY <2>3, ArtifactConstants DEF TInv, Types, CallRefs, Known, Old, Ids
  <2>6. ~Row(l.artifact) BY <1>0, <2>3 DEF KInv, Reads
  <2>7. /\ items' \in [Ids -> Contents]
        /\ \A n \in Ids : (n = l.artifact /\ items'[n] = None) \/ items'[n] = items[n]
    BY <1>2, <2>5 DEF TInv, Types, Contents
  <2> QED BY <1>0, <2>1, <2>2, <2>4, <2>5, <2>6, <2>7, Filing DEF TInv, Types
<1> QED BY <1>1, <1>2 DEF EraseContent

-----------------------------------------------------------------------------
(* Commits of revisions *)

LEMMA RowsFinite ==
  /\ IsFiniteSet(RowSet) /\ Cardinality(RowSet) \in Nat
  /\ \A n \in Ids : Row(n) <=> n \in RowSet
<1>1. IsFiniteSet(Ids) BY FS_Interval, ArtifactConstants DEF Ids
<1>2. RowSet \subseteq Ids BY DEF RowSet
<1> QED BY <1>1, <1>2, FS_Subset, FS_CardinalityType DEF RowSet

\* The current revision is the last of the history.
LEMMA CurrentIsLast ==
  ASSUME TInv, HistoryIsLinear, artifact.current # None
  PROVE  /\ artifact.current \in RowSet
         /\ revisions[artifact.current].number = Cardinality(RowSet)
         /\ revisions[artifact.current].artifact = artifact.id
<1>1. Linear(RowSet, revisions, artifact) BY HistoryParts
<1>2. Cardinality(RowSet) \in Nat /\ IsFiniteSet(RowSet) BY RowsFinite
<1>3. RowSet # {} BY <1>1 DEF Linear
<1>4. Cardinality(RowSet) # 0 BY <1>2, <1>3, FS_EmptySet
<1>5. Cardinality(RowSet) \in {revisions[r].number : r \in RowSet}
  BY <1>1, <1>2, <1>4 DEF Linear
<1>6. PICK r \in RowSet : revisions[r].number = Cardinality(RowSet) BY <1>5
<1>7. r = artifact.current BY <1>1, <1>6 DEF Linear
<1> QED BY <1>1, <1>6, <1>7 DEF Linear

\* One more row at the end keeps a history linear.
LEMMA LinearGrows ==
  ASSUME NEW R, IsFiniteSet(R), NEW rev, NEW a, Linear(R, rev, a),
         NEW n, n \notin R, n # None, NEW next, NEW b,
         \A r \in R : next[r] = rev[r] /\ rev[r].artifact = b.id,
         next[n].artifact = b.id, next[n].number = Cardinality(R) + 1, b.current = n,
         IF R = {} THEN next[n].parent = None /\ next[n].text = b.text
         ELSE next[n].parent = a.current /\ a.current \in R /\ b.text = a.text,
         \A r \in R : rev[r].from # None => rev[r].from \in R,
         next[n].from # None => next[n].from \in R /\ next[n].text = rev[next[n].from].text
  PROVE  Linear(R \union {n}, next, b)
<1> DEFINE k == Cardinality(R)  S == R \union {n}
<1>1. k \in Nat /\ Cardinality(S) = k + 1 BY FS_AddElement, FS_CardinalityType
<1>2. (R = {}) <=> k = 0 BY FS_EmptySet
<1>3. {rev[r].number : r \in R} = 1..k BY DEF Linear
<1>4. \A r \in R : rev[r].number \in 1..k BY <1>3
<1> HIDE DEF k
<1>5. {next[r].number : r \in S} = 1..(k + 1)
  <2>1. \A r \in R : next[r].number \in 1..k BY <1>4
  <2>2. next[n].number = k + 1 BY DEF k
  <2>3. \A r \in S : next[r].number \in 1..(k + 1) BY <1>1, <2>1, <2>2
  <2>4. ASSUME NEW i \in 1..(k + 1) PROVE \E r \in S : next[r].number = i
    <3>1. CASE i = k + 1 BY <2>2, <3>1
    <3>2. CASE i # k + 1
      <4>1. i \in 1..k BY <1>1, <3>2
      <4>2. PICK r \in R : rev[r].number = i BY <1>3, <4>1
      <4> QED BY <4>2
    <3> QED BY <3>1, <3>2
  <2> QED BY <2>3, <2>4
<1>6. ASSUME NEW r \in S
      PROVE  (r = b.current) = (next[r].number = k + 1)
  <2>1. CASE r = n BY <2>1 DEF k
  <2>2. CASE r # n
    <3>1. next[r].number \in 1..k BY <1>4, <2>2
    <3> QED BY <1>1, <2>2, <3>1
  <2> QED BY <2>1, <2>2
<1>7. ASSUME NEW r \in S
      PROVE  IF next[r].number = 1 THEN next[r].parent = None /\ next[r].text = b.text
             ELSE next[r].parent \in S /\ next[next[r].parent].number = next[r].number - 1
  <2>1. CASE r \in R
    <3>1. next[r] = rev[r] /\ R # {} BY <2>1
    <3>2. b.text = a.text BY <3>1
    <3>3. IF rev[r].number = 1 THEN rev[r].parent = None /\ rev[r].text = a.text
          ELSE rev[r].parent \in R /\ rev[rev[r].parent].number = rev[r].number - 1
      BY <2>1 DEF Linear
    <3> QED BY <3>1, <3>2, <3>3
  <2>2. CASE r = n /\ R = {} BY <1>1, <1>2, <2>2 DEF k
  <2>3. CASE r = n /\ R # {}
    <3>1. next[n].parent = a.current /\ a.current \in R BY <2>3
    <3>2. rev[a.current].number = k BY <3>1 DEF Linear, k
    <3>3. next[n].number = k + 1 /\ k # 0 BY <1>2, <2>3 DEF k
    <3> QED BY <1>1, <2>3, <3>1, <3>2, <3>3
  <2> QED BY <2>1, <2>2, <2>3
<1>8. ASSUME NEW r \in S, next[r].from # None
      PROVE  next[r].text = next[next[r].from].text
  <2>1. CASE r \in R
    <3>1. rev[r].from \in R /\ rev[r].text = rev[rev[r].from].text BY <1>8, <2>1 DEF Linear
    <3> QED BY <2>1, <3>1
  <2>2. CASE r = n BY <1>8, <2>2
  <2> QED BY <2>1, <2>2
<1>9. \A r \in S : next[r].artifact = b.id OBVIOUS
<1>10. (S = {}) = (b.current = None) OBVIOUS
<1> HIDE DEF S
<1>11. Linear(S, next, b)
  BY <1>1, <1>5, <1>6, <1>7, <1>8, <1>9, <1>10 DEF Linear
<1> QED BY <1>11 DEF S

\* A call commits its revision and is over.
Commits(c, row) ==
  LET l == client[c] IN
  /\ l.pc = "commit" /\ End(c)
  /\ UNCHANGED <<published, items, snapshots, ops, left>>
  /\ artifact' \in ArtifactRow /\ row \in RevisionRow
  /\ revisions' = [revisions EXCEPT ![l.n] = row]
  /\ artifact'.current = l.n /\ artifact'.id # None
  /\ row.artifact = artifact'.id /\ row.text = l.text /\ row.form = l.form

\* The first revision, of a row that is new or had none, ...
First(c, row) ==
  /\ RowSet = {} /\ row.number = 1 /\ row.parent = None /\ row.from = None
  /\ row.text = artifact'.text
  /\ \/ artifact'.id = artifact.id /\ artifact'.text = artifact.text
     \/ artifact.id = None /\ artifact'.id = client[c].n

\* ... or the next one.
Further(c, row) ==
  /\ artifact.current # None /\ artifact'.id = artifact.id /\ artifact'.text = artifact.text
  /\ row.parent = artifact.current
  /\ row.number = revisions[artifact.current].number + 1 /\ row.number <= client[c].n
  /\ row.from \in Known
  /\ row.from # None => Row(row.from) /\ row.text = revisions[row.from].text

LEMMA CommitTypes ==
  ASSUME TInv, HistoryIsLinear, NEW c \in Clients, NEW row, Commits(c, row),
         First(c, row) \/ Further(c, row)
  PROVE  /\ TInv' /\ CallStep(c) /\ client'[c] = Idle /\ Rely
         /\ client[c].n \in Ids /\ client[c].n \notin Old
         /\ \A r \in Ids \ {client[c].n} : revisions'[r] = revisions[r]
         /\ revisions'[client[c].n] = row /\ row.artifact # None
<1> DEFINE l == client[c]
<1>0. /\ l.pc = "commit" /\ End(c) /\ UNCHANGED <<published, items, snapshots, ops, left>>
      /\ artifact' \in ArtifactRow /\ row \in RevisionRow
      /\ revisions' = [revisions EXCEPT ![l.n] = row]
      /\ artifact'.current = l.n /\ artifact'.id # None /\ row.artifact = artifact'.id
  BY DEF Commits
<1>1. CallStep(c) /\ client'[c] = Idle BY <1>0, EndStep DEF TInv
<1>2. l.n # None BY <1>0 DEF TInv, Shape, Idle
<1>3. l.n \in Ids /\ l.n \notin Old BY <1>2, OwnId
<1>4. /\ \A r \in Ids \ {l.n} : revisions'[r] = revisions[r]
      /\ revisions'[l.n] = row /\ revisions' \in [Ids -> RevisionRow] /\ row.artifact # None
  BY <1>0, <1>3 DEF TInv, Types, Row
<1>5. Known \subseteq Known' /\ l.n \in Known' /\ l.n \in Old'
  <2>1. Old \subseteq Old' /\ l.n \in Known' BY <1>1, CallsRefer DEF Idle
  <2> QED BY <1>2, <2>1 DEF Known
<1>6. artifact'.id \in Known' /\ row.parent \in Known' /\ row.from \in Known'
  <2>1. artifact.id \in Known /\ artifact.current \in Known /\ None \in Known
    BY DEF TInv, TableRefs, Known
  <2> QED BY <1>5, <2>1 DEF First, Further
<1>7. row.number \in 1..l.n
  <2>1. CASE First(c, row) BY <1>3, <2>1, ArtifactConstants DEF First, Ids
  <2>2. CASE Further(c, row)
    <3>1. Cardinality(RowSet) \in Nat BY RowsFinite
    <3>2. revisions[artifact.current].number = Cardinality(RowSet)
      BY <2>2, CurrentIsLast DEF Further
    <3> QED BY <1>3, <2>2, <3>1, <3>2, ArtifactConstants DEF Further, Ids
  <2> QED BY <2>1, <2>2
<1>8. TableRefs'
  <2>1. {artifact'.id, artifact'.current} \subseteq Known' BY <1>0, <1>5, <1>6
  <2>2. ASSUME NEW r \in Ids
        PROVE IF Row(r)' THEN /\ r \in Old' /\ revisions'[r].number \in 1..r
                              /\ {revisions'[r].artifact, revisions'[r].parent,
                                  revisions'[r].from} \subseteq Known'
              ELSE revisions'[r] = NoRevision
    <3>1. CASE r = l.n BY <1>0, <1>4, <1>5, <1>6, <1>7, <3>1 DEF Row
    <3>2. CASE r # l.n
      <4>1. revisions'[r] = revisions[r] BY <1>4, <3>2
      <4>2. Old \subseteq Old' BY <1>1, CallsRefer
      <4> QED BY <1>5, <4>1, <4>2 DEF TInv, TableRefs, Row
    <3> QED BY <3>1, <3>2
  <2>3. ASSUME NEW p \in Ids
        PROVE IF published'[p].status = "none" THEN published'[p] = NoPublish
              ELSE p \in Old' /\ {published'[p].artifact, published'[p].revision} \subseteq Known'
    <3>1. Old \subseteq Old' BY <1>1, CallsRefer
    <3> QED BY <1>0, <1>5, <3>1 DEF TInv, TableRefs
  <2> QED BY <2>1, <2>2, <2>3 DEF TableRefs
<1>l. left' \subseteq Old' BY <1>0, <1>1, LeftRefer DEF Leaves
<1>9. TInv' BY <1>0, <1>1, <1>4, <1>8, <1>l, Kept DEF TInv, Types
<1>10. Rely
  <2>1. \A x \in Old : revisions'[x] = revisions[x]
    <3>1. Old \subseteq Ids \ {l.n}
      BY <1>3, ArtifactConstants DEF Old, Ids, TInv, Types
    <3> QED BY <1>4, <3>1
  <2>2. artifact'.id \in Old => artifact'.id = artifact.id /\ artifact'.text = artifact.text
    BY <1>3 DEF First, Further
  <2>3. artifact'.id # artifact.id => \A x \in Old : ~Row(x)'
    <3>1. Old \subseteq Ids BY ArtifactConstants DEF Old, Ids, TInv, Types
    <3> QED BY <2>1, <3>1 DEF First, Further, RowSet, Row
  <2> QED BY <1>0, <2>1, <2>2, <2>3 DEF Rely
<1> QED BY <1>1, <1>3, <1>4, <1>9, <1>10

LEMMA CommitHistory ==
  ASSUME TInv, KInv, NEW c \in Clients, NEW row, Commits(c, row),
         First(c, row) \/ Further(c, row)
  PROVE  HistoryIsLinear' /\ RollbacksInside'
<1> DEFINE n == client[c].n
<1>0. HistoryIsLinear /\ Linear(RowSet, revisions, artifact) /\ RollbacksInside
  BY HistoryParts DEF KInv
<1>1. /\ n \in Ids /\ n \notin Old /\ revisions'[n] = row /\ row.artifact # None
      /\ \A r \in Ids \ {n} : revisions'[r] = revisions[r]
  BY <1>0, CommitTypes
<1>2. n \notin RowSet /\ n # None BY <1>1, Unborn DEF RowSet, Ids, None
<1>3. RowSet' = RowSet \union {n} BY <1>1 DEF RowSet, Row
<1>4. IsFiniteSet(RowSet) /\ RowSet \subseteq Ids BY RowsFinite DEF RowSet
<1>5. artifact'.current = n /\ row.artifact = artifact'.id BY DEF Commits
<1>6. \A r \in RowSet : revisions'[r] = revisions[r] /\ revisions[r].artifact = artifact'.id
  <2>1. \A r \in RowSet : revisions'[r] = revisions[r] BY <1>1, <1>2, <1>4
  <2>2. RowSet # {} => artifact'.id = artifact.id BY DEF First, Further
  <2> QED BY <1>0, <2>1, <2>2 DEF Linear
<1>7. \A r \in RowSet : revisions[r].from # None => revisions[r].from \in RowSet
  <2>1. ASSUME NEW r \in RowSet, revisions[r].from # None PROVE revisions[r].from \in RowSet
    <3>1. Row(r) /\ r \in Ids BY DEF RowSet
    <3>2. Row(revisions[r].from) BY <1>0, <2>1, <3>1 DEF RollbacksInside
    <3>3. revisions[r].from \in Ids
      BY <2>1, <3>1, ArtifactConstants DEF TInv, Types, TableRefs, Known, Old, Ids
    <3> QED BY <3>2, <3>3 DEF RowSet
  <2> QED BY <2>1
<1>8. row.from # None => row.from \in RowSet /\ row.text = revisions[row.from].text
  <2>1. ASSUME row.from # None PROVE row.from \in Ids
    BY <2>1, ArtifactConstants DEF Commits, RevisionRow, Ids, None
  <2> QED BY <2>1 DEF First, Further, RowSet
<1>9. /\ row.number = Cardinality(RowSet) + 1
      /\ IF RowSet = {} THEN row.parent = None /\ row.text = artifact'.text
         ELSE /\ row.parent = artifact.current /\ artifact.current \in RowSet
              /\ artifact'.text = artifact.text
  <2>1. CASE First(c, row)
    <3>1. Cardinality(RowSet) = 0 BY <2>1, FS_EmptySet DEF First
    <3> QED BY <2>1, <3>1 DEF First
  <2>2. CASE Further(c, row)
    BY <1>0, <2>2, CurrentIsLast DEF Further
  <2> QED BY <2>1, <2>2
<1>10. Linear(RowSet \union {n}, revisions', artifact')
  BY <1>0, <1>1, <1>2, <1>4, <1>5, <1>6, <1>7, <1>8, <1>9, LinearGrows
<1>11. HistoryIsLinear' BY <1>3, <1>10, HistoryParts
<1>12. RollbacksInside'
  <2> SUFFICES ASSUME NEW r \in Ids, Row(r)', revisions'[r].from # None
               PROVE  revisions'[revisions'[r].from].artifact # None
    BY DEF RollbacksInside, Row
  <2>1. \A x \in RowSet : revisions'[x].artifact # None BY <1>6 DEF RowSet, Row
  <2>2. CASE r = n BY <1>1, <1>8, <2>1, <2>2
  <2>3. CASE r # n
    <3>1. revisions'[r] = revisions[r] /\ r \in RowSet BY <1>1, <2>3 DEF RowSet, Row
    <3> QED BY <1>7, <2>1, <3>1
  <2> QED BY <2>2, <2>3
<1> QED BY <1>11, <1>12

LEMMA Committed ==
  ASSUME TInv, KInv, NEW c \in Clients, NEW row, Commits(c, row),
         First(c, row) \/ Further(c, row)
  PROVE  TInv' /\ KInv'
<1> DEFINE l == client[c]  n == client[c].n
<1>0. HistoryIsLinear BY DEF KInv
<1>1. /\ TInv' /\ CallStep(c) /\ client'[c] = Idle /\ Rely
      /\ n \in Ids /\ n \notin Old /\ revisions'[n] = row /\ row.artifact # None
      /\ \A r \in Ids \ {n} : revisions'[r] = revisions[r]
  BY <1>0, CommitTypes
<1>2. HistoryIsLinear' /\ RollbacksInside' BY CommitHistory
<1>3. /\ l.pc = "commit" /\ UNCHANGED <<published, items, snapshots, ops, left>>
      /\ row.text = l.text /\ row.form = l.form
  BY DEF Commits
<1>4. \A d \in Clients : Reads(d)' /\ Holds(d)'
  <2>1. \A d \in Clients : OwnFiles(d) BY <1>3 DEF OwnFiles
  <2> QED BY <1>1, <2>1, IdleKnows, OthersKnow DEF KInv
<1>5. RevisionsReadable'
  <2> SUFFICES ASSUME NEW r \in Ids, Row(r)', InFile(revisions'[r].form)
               PROVE  items'[r] = revisions'[r].text
    BY DEF RevisionsReadable
  <2>1. CASE r = n
    <3>1. InFile(l.form) => items[n] = l.text BY <1>3 DEF KInv, Holds
    <3> QED BY <1>1, <1>3, <2>1, <3>1
  <2>2. CASE r # n
    <3>1. revisions'[r] = revisions[r] BY <1>1, <2>2
    <3> QED BY <1>3, <3>1 DEF KInv, RevisionsReadable, Row
  <2> QED BY <2>1, <2>2
<1>6. Links'
  <2>1. artifact.id # None => artifact'.id = artifact.id BY DEF First, Further
  <2> QED BY <1>3, <2>1 DEF KInv, Links
<1>7. LinksServe'
  <2>1. \A a \in Ids : Active(a)' = Active(a) /\ Active(a) \subseteq Ids
    BY <1>3 DEF Active, Linked
  <2>2. ASSUME NEW a \in Ids, NEW p \in Active(a), published[p].revision # None
        PROVE  revisions'[published[p].revision] = revisions[published[p].revision]
    <3>1. p \in Ids /\ published[p].status # "none" /\ published[p].artifact # None
      BY DEF Active, Linked, Ids, None
    <3>2. published[p].revision \in Old
      BY <2>2, <3>1 DEF TInv, TableRefs, Known
    <3>3. published[p].revision \in Ids \ {n}
      BY <1>1, <3>2, ArtifactConstants DEF Old, Ids, TInv, Types
    <3> QED BY <1>1, <3>3
  <2> QED BY <1>3, <2>1, <2>2 DEF KInv, LinksServe, Row
<1>8. Owned'
  <2> SUFFICES ASSUME NEW x \in Ids \ left
               PROVE  /\ items[x] # None =>
                           Row(x)' \/ x = artifact'.id \/ \E d \in Clients : ItemOf(d, x)'
                      /\ snapshots[x] # None =>
                           published[x].status # "none" \/ \E d \in Clients : SnapshotOf(d, x)'
    BY <1>3 DEF Owned
  <2>1. CASE x = n
    <3>1. \A d \in Clients : SnapshotOf(d, x) => SnapshotOf(d, x)'
      BY <1>1, <1>3 DEF CallStep, SnapshotOf
    <3>2. Row(x)' BY <1>1, <2>1 DEF Row
    <3> QED BY <3>1, <3>2 DEF KInv, Owned
  <2>2. CASE x # n
    <3>1. \A d \in Clients : /\ ItemOf(d, x) => ItemOf(d, x)'
                             /\ SnapshotOf(d, x) => SnapshotOf(d, x)'
      BY <1>1, <2>2 DEF CallStep, ItemOf, SnapshotOf
    <3>2. (Row(x) => Row(x)') /\ (x = artifact.id => x = artifact'.id)
      <4>1. Row(x) => Row(x)' BY <1>1, <2>2 DEF Row
      <4>2. artifact.id # None => artifact'.id = artifact.id BY DEF First, Further
      <4> QED BY <4>1, <4>2 DEF Ids, None
    <3> QED BY <3>1, <3>2 DEF KInv, Owned
  <2> QED BY <2>1, <2>2
<1> QED BY <1>1, <1>2, <1>4, <1>5, <1>6, <1>7, <1>8 DEF KInv

\* A commit that is refused leaves the rows alone; the call keeps its file to delete it.
LEMMA Refused ==
  ASSUME TInv, KInv, NEW c \in Clients, client[c].pc = "commit", AfterCommit(c, FALSE),
         UNCHANGED <<artifact, revisions, published, items, snapshots, ops, left>>
  PROVE  TInv' /\ KInv'
<1>0. client[c].op # "publish" BY DEF TInv, Shape, Idle
<1>1. CASE InFile(client[c].form)
  <2>1. Raise(c) BY <1>0, <1>1 DEF Raise, AfterCommit
  <2> QED BY <2>1, RaiseQuiet
<1>2. CASE ~InFile(client[c].form)
  <2>0. End(c) BY <1>2 DEF AfterCommit
  <2>1. CallStep(c) /\ client'[c] = Idle BY <2>0, EndStep DEF TInv
    <2>3. \A n \in Ids : ~ItemOf(c, n) /\ ~SnapshotOf(c, n)
    BY <1>2, <1>0 DEF ItemOf, SnapshotOf
  <2> QED BY <2>1, <2>3, IdleKnows, Quiet DEF Leaves
<1> QED BY <1>1, <1>2

LEMMA CreateCommits ==
  ASSUME TInv, KInv, NEW c \in Clients, CreateWithInitialRevision(c) PROVE TInv' /\ KInv'
<1> DEFINE l == client[c]
           row == [artifact |-> l.n, number |-> 1, parent |-> None, from |-> None,
                   text |-> l.text, form |-> l.form]
<1>0. /\ l.pc = "commit" /\ l.op = "register" /\ l \in CallState
      /\ UNCHANGED <<published, items, snapshots, ops, left>>
  BY DEF CreateWithInitialRevision, TInv, Types
<1>1. CASE artifact.id # None
  <2>1. UNCHANGED <<artifact, revisions>> /\ AfterCommit(c, FALSE)
    BY <1>1 DEF CreateWithInitialRevision, AfterCommit
  <2> QED BY <1>0, <2>1, Refused
<1>2. CASE artifact.id = None
  <2>1. /\ artifact' = [id |-> l.n, current |-> l.n, text |-> l.text, form |-> l.form]
        /\ revisions' = [revisions EXCEPT ![l.n] = row] /\ End(c)
    BY <1>2 DEF CreateWithInitialRevision, AfterCommit
  <2>2. l.n # None BY <1>0 DEF TInv, Shape, Idle
  <2>3. /\ l.n \in 0..MaxOps /\ l.text \in Contents /\ l.form \in Forms
        /\ None \in 0..MaxOps /\ 1 \in 0..MaxOps
    BY <1>0, ArtifactConstants DEF CallState, None
  <2>4. artifact' \in ArtifactRow /\ row \in RevisionRow
    BY <2>1, <2>3 DEF ArtifactRow, RevisionRow
  <2>5. RowSet = {}
    <3>1. Linear(RowSet, revisions, artifact) BY HistoryParts DEF KInv
    <3> QED BY <1>2, <3>1 DEF Linear, RowSet, Row
  <2>6. /\ row.artifact = l.n /\ row.number = 1 /\ row.parent = None /\ row.from = None
        /\ row.text = l.text /\ row.form = l.form
        /\ artifact'.id = l.n /\ artifact'.current = l.n /\ artifact'.text = l.text
    BY <2>1
  <2> HIDE DEF row
  <2>7. Commits(c, row) BY <1>0, <2>1, <2>2, <2>4, <2>6 DEF Commits
  <2>8. First(c, row) BY <1>2, <2>5, <2>6 DEF First
  <2> QED BY <2>7, <2>8, Committed
<1> QED BY <1>1, <1>2

LEMMA BackfillCommits ==
  ASSUME TInv, KInv, NEW c \in Clients, CommitBackfill(c) PROVE TInv' /\ KInv'
<1> DEFINE l == client[c]
           row == [artifact |-> l.artifact, number |-> 1, parent |-> None, from |-> None,
                   text |-> l.data, form |-> l.form]
           bare == artifact.id = l.artifact /\ artifact.current = None
<1>0. /\ l.pc = "commit" /\ l.op = "migrate" /\ l \in CallState
      /\ UNCHANGED <<published, items, snapshots, ops, left>>
  BY DEF CommitBackfill, TInv, Types
<1>1. CASE ~bare
  <2>1. UNCHANGED <<artifact, revisions>> /\ AfterCommit(c, FALSE)
    BY <1>1 DEF CommitBackfill, AfterCommit
  <2> QED BY <1>0, <2>1, Refused
<1>2. CASE bare
  <2>1. /\ artifact' = [artifact EXCEPT !.current = l.n]
        /\ revisions' = [revisions EXCEPT ![l.n] = row] /\ End(c)
    BY <1>2 DEF CommitBackfill, AfterCommit
  <2>2. l.n # None /\ l.artifact # None BY <1>0 DEF TInv, Shape, Idle
  <2>3. /\ l.n \in 0..MaxOps /\ l.artifact \in 0..MaxOps /\ l.data \in Contents
        /\ l.form \in Forms /\ None \in 0..MaxOps /\ 1 \in 0..MaxOps
    BY <1>0, ArtifactConstants DEF CallState, None
  <2>4. /\ artifact' \in ArtifactRow /\ row \in RevisionRow
        /\ artifact'.id = artifact.id /\ artifact'.current = l.n /\ artifact'.text = artifact.text
    BY <2>1, <2>3 DEF ArtifactRow, RevisionRow, TInv, Types
  <2>5. RowSet = {}
    <3>1. Linear(RowSet, revisions, artifact) BY HistoryParts DEF KInv
    <3> QED BY <1>2, <3>1 DEF Linear
  <2>6. /\ row.artifact = l.artifact /\ row.number = 1 /\ row.parent = None /\ row.from = None
        /\ row.text = l.data /\ row.form = l.form
    OBVIOUS
  <2>7. l.data = l.text /\ l.text = artifact.text
    BY <1>0, <1>2 DEF KInv, Holds, Reads
  <2> HIDE DEF row
  <2>8. Commits(c, row) BY <1>0, <1>2, <2>1, <2>2, <2>4, <2>6, <2>7 DEF Commits
  <2>9. First(c, row) BY <2>4, <2>5, <2>6, <2>7 DEF First
  <2> QED BY <2>8, <2>9, Committed
<1> QED BY <1>1, <1>2

LEMMA AppendCommits ==
  ASSUME TInv, KInv, NEW c \in Clients, AppendRevision(c) PROVE TInv' /\ KInv'
<1> DEFINE l == client[c]
           row == [artifact |-> l.artifact, number |-> l.number + 1, parent |-> l.current,
                   from |-> l.from, text |-> l.text, form |-> l.form]
<1>0. /\ l.pc = "commit" /\ l.op \in {"update", "rollback"} /\ l \in CallState
      /\ UNCHANGED <<published, items, snapshots, ops, left>>
  BY DEF AppendRevision, TInv, Types
<1>1. CASE ~AppendAccepted(l)
  <2>1. UNCHANGED <<artifact, revisions>> /\ AfterCommit(c, FALSE)
    BY <1>1 DEF AppendRevision, AfterCommit
  <2> QED BY <1>0, <2>1, Refused
<1>2. CASE AppendAccepted(l)
  <2>1. /\ artifact' = [artifact EXCEPT !.current = l.n]
        /\ revisions' = [revisions EXCEPT ![l.n] = row] /\ End(c)
    BY <1>2 DEF AppendRevision, AfterCommit
  <2>2. /\ artifact.id = l.artifact /\ artifact.current = l.current
        /\ l.from # None => revisions[l.from].artifact = l.artifact
    BY <1>2 DEF AppendAccepted
  <2>3. l.n # None /\ l.artifact # None /\ l.current # None /\ l.number < l.n
    BY <1>0 DEF TInv, Shape, Idle
  <2>4. /\ l.n \in 0..MaxOps /\ l.artifact \in 0..MaxOps /\ l.current \in 0..MaxOps
        /\ l.from \in 0..MaxOps /\ l.text \in Contents /\ l.form \in Forms
        /\ l.number \in 0..MaxOps /\ MaxOps \in Nat
    BY <1>0, ArtifactConstants DEF CallState
  <2>5. l.number + 1 \in 0..MaxOps /\ l.number + 1 <= l.n BY <2>3, <2>4
  <2>6. /\ artifact' \in ArtifactRow /\ row \in RevisionRow
        /\ artifact'.id = artifact.id /\ artifact'.current = l.n /\ artifact'.text = artifact.text
    BY <2>1, <2>4, <2>5 DEF ArtifactRow, RevisionRow, TInv, Types
  <2>7. /\ row.artifact = l.artifact /\ row.number = l.number + 1 /\ row.parent = l.current
        /\ row.from = l.from /\ row.text = l.text /\ row.form = l.form
    OBVIOUS
  <2>8. Row(l.current)
    BY <2>2, <2>3, CurrentIsLast DEF KInv, RowSet
  <2>9. l.number = revisions[l.current].number
    BY <2>3, <2>8 DEF KInv, Reads
  <2>10. l.from # None => Row(l.from) /\ l.text = revisions[l.from].text
    BY <2>2, <2>3 DEF KInv, Reads, Row
  <2>11. l.from \in Known BY DEF TInv, CallRefs
  <2> HIDE DEF row
  <2>12. Commits(c, row) BY <1>0, <2>1, <2>2, <2>3, <2>6, <2>7 DEF Commits
  <2>13. Further(c, row) BY <2>2, <2>3, <2>5, <2>6, <2>7, <2>9, <2>10, <2>11 DEF Further
  <2> QED BY <2>12, <2>13, Committed
<1> QED BY <1>1, <1>2

-----------------------------------------------------------------------------
(* Steps on public links *)

LEMMA SameRows ==
  ASSUME KInv, UNCHANGED <<artifact, revisions, items>>
  PROVE  RevisionsReadable' /\ HistoryIsLinear' /\ RollbacksInside'
<1>1. HistoryIsLinear' BY HistoryParts DEF KInv, RowSet, Row
<1>2. RevisionsReadable' /\ RollbacksInside'
  BY DEF KInv, RevisionsReadable, RollbacksInside, Row
<1> QED BY <1>1, <1>2

\* The links that are served.
Served(p) == published[p].status = "active" /\ published[p].artifact # None

LEMMA ServedLinks ==
  /\ \A a \in Ids : \A p \in Active(a) : p \in Ids /\ Served(p) /\ published[p].artifact = a
  /\ TInv => \A p \in Ids : Served(p) => /\ published[p].artifact \in Ids
                                         /\ p \in Active(published[p].artifact)
<1>1. \A a \in Ids : \A p \in Active(a) : p \in Ids /\ Served(p) /\ published[p].artifact = a
  BY DEF Active, Linked, Served, Ids, None
<1>2. ASSUME TInv, NEW p \in Ids, Served(p)
      PROVE published[p].artifact \in Ids /\ p \in Active(published[p].artifact)
  <2>1. published[p].artifact \in 0..MaxOps BY <1>2 DEF TInv, Types, LinkRow
  <2>2. published[p].artifact \in Ids
    BY <1>2, <2>1, ArtifactConstants DEF Served, Ids, None
  <2> QED BY <1>2, <2>2 DEF Active, Linked, Served
<1> QED BY <1>1, <1>2

\* Links that are no longer served, or as they were, harm nobody.
LEMMA FewerLinks ==
  ASSUME TInv, KInv, UNCHANGED <<artifact, revisions, snapshots>>,
         \A p \in Ids : published'[p] = published[p] \/ ~Served(p)',
         \A p \in Ids : published'[p].artifact # None =>
                          /\ published'[p].artifact = published[p].artifact
                          /\ published'[p].revision = published[p].revision
  PROVE  Links' /\ LinksServe'
<1>1. Links' BY DEF KInv, Links, Served
<1>2. LinksServe'
  <2> SUFFICES ASSUME NEW a \in Ids, NEW p \in Active(a)'
               PROVE  LET pub == published'[p] IN
                      /\ pub.form = "binary" => snapshots'[p] = pub.text
                      /\ IF pub.revision = None THEN p = Legacy
                         ELSE /\ revisions'[pub.revision].artifact # None
                              /\ pub.text = Public(revisions'[pub.revision].text,
                                                   revisions'[pub.revision].form)
    BY DEF LinksServe, Row
  <2>1. p \in Ids /\ published'[p].status = "active" /\ published'[p].artifact = a
        /\ published'[p].status # "none"
    BY DEF Active, Linked
  <2>2. Served(p)' BY <2>1 DEF Served, Ids, None
  <2>3. published'[p] = published[p] BY <2>1, <2>2
  <2>4. p \in Active(a) BY <2>1, <2>3 DEF Active, Linked
  <2> QED BY <2>3, <2>4 DEF KInv, LinksServe, Row
<1> QED BY <1>1, <1>2

LEMMA RevokeLinks ==
  ASSUME TInv, KInv, Revoke PROVE TInv' /\ KInv'
<1>0. /\ published' = [p \in Ids |-> IF p \in Active(artifact.id)
                                     THEN [published[p] EXCEPT !.status = "revoked"]
                                     ELSE published[p]]
      /\ UNCHANGED <<artifact, revisions, items, snapshots, client, ops, left>>
  BY DEF Revoke
<1>1. ASSUME NEW p \in Ids
      PROVE  /\ published'[p] \in LinkRow
             /\ published'[p].artifact = published[p].artifact
             /\ published'[p].revision = published[p].revision
             /\ published'[p].status = "none" <=> published[p].status = "none"
             /\ published'[p] = published[p] \/ ~Served(p)'
  <2>0. published[p] \in LinkRow BY DEF TInv, Types
  <2>1. CASE p \in Active(artifact.id)
    <3>1. published'[p] = [published[p] EXCEPT !.status = "revoked"] BY <1>0, <2>1
    <3>2. published[p].status = "active" BY <2>1 DEF Active
    <3> QED BY <2>0, <3>1, <3>2 DEF LinkRow, Served
  <2>2. CASE p \notin Active(artifact.id) BY <1>0, <2>0, <2>2
  <2> QED BY <2>1, <2>2
<1>2. published' \in [Ids -> LinkRow] BY <1>0, <1>1
<1>3. Old' = Old /\ Known' = Known BY <1>0 DEF Old, Known
<1>4. TableRefs'
  <2>1. ASSUME NEW p \in Ids
        PROVE IF published'[p].status = "none" THEN published'[p] = NoPublish
              ELSE p \in Old' /\ {published'[p].artifact, published'[p].revision} \subseteq Known'
    <3>1. CASE published[p].status = "none"
      <4>1. p \notin Active(artifact.id) BY <3>1 DEF Active
      <4> QED BY <1>0, <3>1, <4>1 DEF TInv, TableRefs
    <3>2. CASE published[p].status # "none"
      BY <1>1, <1>3, <3>2 DEF TInv, TableRefs
    <3> QED BY <3>1, <3>2
  <2> QED BY <1>0, <1>3, <2>1 DEF TInv, TableRefs, Row
<1>5. CallRefs' BY <1>0, <1>3 DEF TInv, CallRefs
<1>6. TInv' BY <1>0, <1>2, <1>3, <1>4, <1>5 DEF TInv, Types, LeftRefs
<1>7. Rely /\ \A d \in Clients : OwnFiles(d)
  <2>1. Old \subseteq Ids BY ArtifactConstants DEF Old, Ids, TInv, Types
  <2> QED BY <1>0, <1>1, <2>1 DEF Rely, OwnFiles, Row
<1>8. \A d \in Clients : Reads(d)' /\ Holds(d)'
  <2> SUFFICES ASSUME NEW d \in Clients PROVE Reads(d)' /\ Holds(d)'
    OBVIOUS
  <2>1. client'[d] = client[d] /\ Same(client[d], client'[d]) BY <1>0 DEF Same
  <2> QED BY <1>7, <2>1, ReadsKept, HoldsKept DEF KInv
<1>9. Links' /\ LinksServe' BY <1>0, <1>1, FewerLinks
<1>10. Owned'
  <2> SUFFICES ASSUME NEW x \in Ids \ left
               PROVE  /\ items[x] # None =>
                           Row(x)' \/ x = artifact'.id \/ \E d \in Clients : ItemOf(d, x)'
                      /\ snapshots[x] # None =>
                           published'[x].status # "none" \/ \E d \in Clients : SnapshotOf(d, x)'
    BY <1>0 DEF Owned
  <2>1. \A d \in Clients : /\ ItemOf(d, x) => ItemOf(d, x)'
                           /\ SnapshotOf(d, x) => SnapshotOf(d, x)'
    BY <1>0 DEF ItemOf, SnapshotOf
  <2>2. Row(x) => Row(x)' BY <1>0 DEF Row
  <2> QED BY <1>0, <1>1, <2>1, <2>2 DEF KInv, Owned
<1>12. RevisionsReadable' /\ HistoryIsLinear' /\ RollbacksInside' BY <1>0, SameRows
<1> QED BY <1>6, <1>8, <1>9, <1>10, <1>12 DEF KInv

LEMMA PurgeLinks ==
  ASSUME TInv, KInv, NEW c \in Clients, PurgePublished(c) PROVE TInv' /\ KInv'
<1> DEFINE l == client[c]  m == client'[c]
<1>0. /\ l.pc = "purge" /\ Goto(c, "unlink") /\ l \in CallState /\ Shape(l)
      /\ published' = [p \in Ids |-> IF p \in Linked(l.artifact) THEN NoPublish
                                     ELSE published[p]]
      /\ left' = left \union {p \in Linked(l.artifact) : snapshots[p] # None}
      /\ UNCHANGED <<artifact, revisions, items, snapshots, ops>>
  BY DEF PurgePublished, TInv, Types
<1>1. CallStep(c) /\ Same(l, m) /\ m.pc = "unlink" /\ m.links = l.links
  BY <1>0, MoveStep
<1>2. l.op = "delete" /\ l.artifact # None BY <1>0 DEF Shape, Idle
<1>3. left' \subseteq Old'
  <2>1. Linked(l.artifact) \subseteq Old BY DEF Linked, TInv, TableRefs
  <2>2. Old \subseteq Old' /\ left \subseteq Old BY <1>1, CallsRefer DEF TInv, LeftRefs
  <2> QED BY <1>0, <2>1, <2>2
<1>n. NoPublish \in LinkRow /\ NoPublish.artifact = None /\ NoPublish.status = "none"
  BY ArtifactConstants DEF NoPublish, LinkRow, None, Forms, Contents
<1>4. ASSUME NEW p \in Ids
      PROVE  /\ published'[p] \in LinkRow
             /\ published'[p] = published[p] \/ published'[p] = NoPublish
             /\ published[p].artifact = l.artifact => published'[p] = NoPublish
  <2>1. published[p].artifact = l.artifact => p \in Linked(l.artifact)
    BY <1>2, <1>n DEF Linked, TInv, TableRefs
  <2> QED BY <1>0, <1>n, <2>1 DEF TInv, Types
<1>5. published' \in [Ids -> LinkRow] BY <1>0, <1>4
<1>6. TableRefs'
  <2>1. Old \subseteq Old' /\ Known \subseteq Known' BY <1>1, CallsRefer DEF Known
  <2>2. ASSUME NEW p \in Ids
        PROVE IF published'[p].status = "none" THEN published'[p] = NoPublish
              ELSE p \in Old' /\ {published'[p].artifact, published'[p].revision} \subseteq Known'
    BY <1>4, <1>n, <2>1 DEF TInv, TableRefs
  <2> QED BY <1>0, <2>1, <2>2 DEF TInv, TableRefs, Row
<1>7. TInv' BY <1>0, <1>1, <1>3, <1>5, <1>6, Kept DEF TInv, Types
<1>o. Old \subseteq Ids BY ArtifactConstants DEF Old, Ids, TInv, Types
<1>8. Rely /\ \A d \in Clients : OwnFiles(d)
  BY <1>0, <1>4, <1>n, <1>o DEF Rely, OwnFiles, Row
<1> HIDE DEF m
<1>9. Reads(c)' BY <1>1, <1>8, ReadsKept DEF KInv, m
<1>10. Holds(c)'
  <2>1. \A p \in l.links : published'[p].artifact = None
    <3>1. \A p \in l.links : p \in Ids /\ published[p].artifact \in {None, l.artifact}
      BY <1>0, <1>o DEF KInv, Holds, TInv, CallRefs
    <3> QED BY <1>4, <1>n, <3>1
  <2> QED BY <1>1, <2>1 DEF Holds, m
<1>11. \A d \in Clients : Reads(d)' /\ Holds(d)'
  BY <1>1, <1>8, <1>9, <1>10, OthersKnow DEF KInv
<1>12. Links' /\ LinksServe'
  <2>1. \A p \in Ids : published'[p] = published[p] \/ ~Served(p)'
    BY <1>4, <1>n DEF Served
  <2>2. \A p \in Ids : published'[p].artifact # None => published'[p] = published[p]
    BY <1>4, <1>n
  <2> QED BY <1>0, <2>1, <2>2, FewerLinks
<1>13. Owned'
  <2> SUFFICES ASSUME NEW x \in Ids \ left'
               PROVE  /\ items[x] # None =>
                           Row(x)' \/ x = artifact'.id \/ \E d \in Clients : ItemOf(d, x)'
                      /\ snapshots[x] # None =>
                           published'[x].status # "none" \/ \E d \in Clients : SnapshotOf(d, x)'
    BY <1>0 DEF Owned
  <2>1. x \in Ids \ left /\ (snapshots[x] # None => x \notin Linked(l.artifact)) BY <1>0
  <2>2. \A d \in Clients : /\ ItemOf(d, x) => ItemOf(d, x)'
                           /\ SnapshotOf(d, x) => SnapshotOf(d, x)'
    BY <1>0, <1>1 DEF CallStep, ItemOf, SnapshotOf
  <2>3. Row(x) => Row(x)' BY <1>0 DEF Row
  <2>4. snapshots[x] # None => published'[x] = published[x] BY <1>0, <2>1
  <2> QED BY <1>0, <2>1, <2>2, <2>3, <2>4 DEF KInv, Owned
<1> QED BY <1>0, <1>7, <1>11, <1>12, <1>13, SameRows DEF KInv

LEMMA RegisterLinks ==
  ASSUME TInv, KInv, NEW c \in Clients, client[c].pc = "register", RegisterAccepted(client[c]),
         published' = Registered(client[c]), End(c),
         UNCHANGED <<artifact, revisions, items, snapshots, ops, left>>
  PROVE  TInv' /\ KInv'
<1> DEFINE l == client[c]  n == client[c].n
           new == [status |-> "active", artifact |-> l.artifact, revision |-> l.current,
                   text |-> l.data, form |-> l.form]
<1>0. l \in CallState /\ Shape(l) BY DEF TInv, Types
<1>1. CallStep(c) /\ client'[c] = Idle BY EndStep DEF TInv
<1>2. n # None /\ l.artifact # None /\ l.current # None /\ l.op = "publish"
  BY <1>0 DEF Shape, Idle
<1>3. n \in Ids /\ n \notin Old BY <1>2, OwnId
<1>4. artifact.id = l.artifact /\ artifact.current = l.current BY DEF RegisterAccepted
<1>5. /\ new \in LinkRow /\ new.status = "active" /\ new.artifact = l.artifact
      /\ new.revision = l.current /\ new.text = l.data /\ new.form = l.form
  BY <1>0 DEF CallState, LinkRow
<1>6. published' = [p \in Ids |-> IF p = n THEN new
                                  ELSE IF p \in Active(l.artifact)
                                  THEN [published[p] EXCEPT !.status = "revoked"]
                                  ELSE published[p]]
  BY DEF Registered
<1> HIDE DEF new
<1>7. published'[n] = new BY <1>3, <1>6
<1>8. ASSUME NEW p \in Ids \ {n}
      PROVE  /\ published'[p] \in LinkRow /\ ~Served(p)'
             /\ published'[p].artifact = published[p].artifact
             /\ published'[p].revision = published[p].revision
             /\ published'[p].status = "none" <=> published[p].status = "none"
             /\ published[p].status = "none" => published'[p] = published[p]
  <2>0. published[p] \in LinkRow BY DEF TInv, Types
  <2>1. CASE p \in Active(l.artifact)
    <3>1. published'[p] = [published[p] EXCEPT !.status = "revoked"] BY <1>6, <2>1
    <3>2. published[p].status = "active" BY <2>1 DEF Active
    <3> QED BY <2>0, <3>1, <3>2 DEF LinkRow, Served
  <2>2. CASE p \notin Active(l.artifact)
    <3>1. published'[p] = published[p] BY <1>6, <2>2
    <3>2. ~Served(p)
      BY <1>4, <2>2, ServedLinks DEF KInv, Links, Served
    <3> QED BY <2>0, <3>1, <3>2 DEF Served
  <2> QED BY <2>1, <2>2
<1>9. published' \in [Ids -> LinkRow] BY <1>5, <1>6, <1>7, <1>8
<1>10. Old \subseteq Old' /\ Known \subseteq Known' /\ n \in Old'
  <2>1. Old \subseteq Old' /\ n \in Known' BY <1>1, CallsRefer DEF Idle
  <2> QED BY <1>2, <2>1 DEF Known
<1>11. TableRefs'
  <2>1. ASSUME NEW p \in Ids
        PROVE IF published'[p].status = "none" THEN published'[p] = NoPublish
              ELSE p \in Old' /\ {published'[p].artifact, published'[p].revision} \subseteq Known'
    <3>1. CASE p = n
      <4>1. l.artifact \in Known /\ l.current \in Known BY DEF TInv, CallRefs
      <4> QED BY <1>5, <1>7, <1>10, <3>1, <4>1
    <3>2. CASE p # n
      BY <1>8, <1>10, <3>2 DEF TInv, TableRefs
    <3> QED BY <3>1, <3>2
  <2> QED BY <1>10, <2>1 DEF TInv, TableRefs, Row
<1>l. left' \subseteq Old' BY <1>1, LeftRefer DEF Leaves
<1>12. TInv' BY <1>1, <1>9, <1>11, <1>l, Kept DEF TInv, Types
<1>13. Rely /\ \A d \in Clients : OwnFiles(d)
  <2>1. Old \subseteq Ids \ {n} BY <1>3, ArtifactConstants DEF Old, Ids, TInv, Types
  <2> QED BY <1>8, <2>1 DEF Rely, OwnFiles, Row
<1>14. \A d \in Clients : Reads(d)' /\ Holds(d)'
  BY <1>1, <1>13, IdleKnows, OthersKnow DEF KInv
<1>15. Links'
  <2>1. \A p \in Ids : published'[p].artifact # None =>
                         /\ published'[p].artifact = artifact'.id
                         /\ published'[p].revision # None \/ p = Legacy
    BY <1>2, <1>4, <1>5, <1>7, <1>8 DEF KInv, Links
  <2>2. \A p \in Ids : Served(p)' => p = n BY <1>8
  <2> QED BY <2>1, <2>2 DEF Links, Served
<1>16. LinksServe'
  <2> SUFFICES ASSUME NEW a \in Ids, NEW p \in Active(a)'
               PROVE  LET pub == published'[p] IN
                      /\ pub.form = "binary" => snapshots'[p] = pub.text
                      /\ IF pub.revision = None THEN p = Legacy
                         ELSE /\ revisions'[pub.revision].artifact # None
                              /\ pub.text = Public(revisions'[pub.revision].text,
                                                   revisions'[pub.revision].form)
    BY DEF LinksServe, Row
  <2>1. p \in Ids /\ Served(p)' BY DEF Active, Linked, Served, Ids, None
  <2>2. p = n BY <1>8, <2>1
  <2>3. Row(l.current) BY <1>2, <1>4, CurrentIsLast DEF KInv, RowSet
  <2>4. /\ l.data = Public(l.text, l.form)
        /\ l.form = "binary" => snapshots[n] = l.data
    BY <2>3 DEF KInv, Holds
  <2>5. l.text = revisions[l.current].text /\ l.form = revisions[l.current].form
    BY <1>2, <2>3 DEF KInv, Reads
  <2> QED BY <1>2, <1>5, <1>7, <2>2, <2>3, <2>4, <2>5 DEF Row
<1>17. Owned'
  <2> SUFFICES ASSUME NEW x \in Ids \ left
               PROVE  /\ items[x] # None =>
                           Row(x)' \/ x = artifact'.id \/ \E d \in Clients : ItemOf(d, x)'
                      /\ snapshots[x] # None =>
                           published'[x].status # "none" \/ \E d \in Clients : SnapshotOf(d, x)'
    BY DEF Owned
  <2>1. \A d \in Clients : ItemOf(d, x) => ItemOf(d, x)'
    BY <1>1, <1>2 DEF CallStep, ItemOf
  <2>2. Row(x) => Row(x)' BY DEF Row
  <2>3. CASE x = n BY <1>5, <1>7, <2>1, <2>2, <2>3 DEF KInv, Owned
  <2>4. CASE x # n
    <3>1. \A d \in Clients : SnapshotOf(d, x) => SnapshotOf(d, x)'
      BY <1>1, <2>4 DEF CallStep, SnapshotOf
    <3> QED BY <1>8, <2>1, <2>2, <2>4, <3>1 DEF KInv, Owned
  <2> QED BY <2>3, <2>4
<1> QED BY <1>12, <1>14, <1>15, <1>16, <1>17, SameRows DEF KInv

LEMMA RegisterPublishLinks ==
  ASSUME TInv, KInv, NEW c \in Clients, RegisterPublish(c) PROVE TInv' /\ KInv'
<1> DEFINE l == client[c]
           reuse == \E p \in Active(l.artifact) : published[p].text = l.data
           own == RegisterAccepted(l) /\ ~reuse
<1>0. /\ l.pc = "register" /\ published' = IF own THEN Registered(l) ELSE published
      /\ AfterRegister(c, own) /\ UNCHANGED <<artifact, revisions, items, snapshots, ops, left>>
  BY DEF RegisterPublish
<1>1. l.op = "publish" BY <1>0 DEF TInv, Shape, Idle
<1>2. CASE own
  <2>1. published' = Registered(l) /\ End(c) BY <1>0, <1>2 DEF AfterRegister
  <2> QED BY <1>0, <1>2, <2>1, RegisterLinks
<1>3. CASE ~own /\ l.form = "binary"
  <2>1. Raise(c) BY <1>0, <1>3 DEF AfterRegister, Raise, InFile
  <2> QED BY <2>1, RaiseQuiet
<1>4. CASE ~own /\ l.form # "binary"
  <2>0. End(c) /\ published' = published BY <1>0, <1>4 DEF AfterRegister
  <2>1. CallStep(c) /\ client'[c] = Idle BY <1>0, <2>0, EndStep DEF TInv
    <2>3. \A n \in Ids : ~ItemOf(c, n) /\ ~SnapshotOf(c, n)
    BY <1>1, <1>4 DEF ItemOf, SnapshotOf
  <2> QED BY <1>0, <2>0, <2>1, <2>3, IdleKnows, Quiet DEF Leaves
<1> QED BY <1>2, <1>3, <1>4

-----------------------------------------------------------------------------
(* The end of an artifact *)

Unlink(pub) == [pub EXCEPT !.artifact = None, !.revision = None]

LEMMA UnlinkFields ==
  ASSUME NEW pub \in LinkRow
  PROVE  /\ Unlink(pub) \in LinkRow /\ Unlink(pub).artifact = None
         /\ Unlink(pub).revision = None /\ Unlink(pub).status = pub.status
<1>1. None \in 0..MaxOps BY ArtifactConstants DEF None
<1> QED BY <1>1 DEF Unlink, LinkRow

LEMMA RemoveRows ==
  ASSUME TInv, KInv, NEW c \in Clients, client[c].pc = "remove",
         CallStep(c), Reads(c)', Holds(c)',
         left' = left \union {n \in Ids : items[n] # None /\ (Row(n) \/ n = artifact.id)},
         artifact.id = client[c].artifact, artifact' = NoArtifact,
         revisions' = [n \in Ids |-> NoRevision],
         published' = [p \in Ids |-> IF p \in Linked(client[c].artifact)
                         THEN Unlink(published[p])
                         ELSE published[p]],
         UNCHANGED <<items, snapshots>>
  PROVE  TInv' /\ KInv'
<1> DEFINE l == client[c]
<1>0. /\ NoArtifact \in ArtifactRow /\ NoRevision \in RevisionRow /\ NoRevision.artifact = None
      /\ NoArtifact.id = None /\ NoArtifact.current = None /\ NoPublish.artifact = None
  BY ArtifactConstants
     DEF NoArtifact, NoRevision, NoPublish, ArtifactRow, RevisionRow, Forms, Contents, None
<1>1. \A r \in Ids : revisions'[r] = NoRevision /\ ~Row(r)' BY <1>0 DEF Row
<1>2. ASSUME NEW p \in Ids
      PROVE  /\ published'[p] \in LinkRow /\ published'[p].artifact = None
             /\ published'[p].status = published[p].status
             /\ published'[p] = published[p] \/ published'[p].revision = None
             /\ published[p].status = "none" => published'[p] = published[p]
  <2>0. published[p] \in LinkRow /\ None \in 0..MaxOps
    BY ArtifactConstants DEF TInv, Types, None
  <2>1. CASE p \in Linked(l.artifact)
    <3>1. published'[p] = Unlink(published[p]) BY <2>1
    <3>2. published[p].status # "none" BY <2>1 DEF Linked
    <3> QED BY <2>0, <3>1, <3>2, UnlinkFields
  <2>2. CASE p \notin Linked(l.artifact)
    <3>1. published'[p] = published[p] BY <2>2
    <3>2. published[p].artifact = None
      BY <1>0, <2>2 DEF Linked, KInv, Links, TInv, TableRefs
    <3> QED BY <2>0, <3>1, <3>2
  <2> QED BY <2>1, <2>2
<1>3. published' \in [Ids -> LinkRow] /\ revisions' \in [Ids -> RevisionRow]
  BY <1>0, <1>2
<1>4. TableRefs'
  <2>1. Old \subseteq Old' /\ Known \subseteq Known' /\ None \in Known'
    BY CallsRefer DEF Known
  <2>2. ASSUME NEW p \in Ids
        PROVE IF published'[p].status = "none" THEN published'[p] = NoPublish
              ELSE p \in Old' /\ {published'[p].artifact, published'[p].revision} \subseteq Known'
    <3>1. CASE published[p].status = "none" BY <1>2, <3>1 DEF TInv, TableRefs
    <3>2. CASE published[p].status # "none"
      <4>1. p \in Old /\ published[p].revision \in Known BY <3>2 DEF TInv, TableRefs
      <4>2. published'[p].revision \in {published[p].revision, None} BY <1>2
      <4> QED BY <1>2, <2>1, <3>2, <4>1, <4>2
    <3> QED BY <3>1, <3>2
  <2>3. {artifact'.id, artifact'.current} \subseteq Known' BY <1>0, <2>1
  <2> QED BY <1>1, <2>2, <2>3 DEF TableRefs
<1>l. left' \subseteq Old'
  <2>1. \A n \in Ids : Row(n) \/ n = artifact.id => n \in Old
    BY DEF TInv, TableRefs, Known, Ids, None
  <2>2. Old \subseteq Old' /\ left \subseteq Old BY CallsRefer DEF TInv, LeftRefs
  <2> QED BY <2>1, <2>2
<1>5. TInv' BY <1>0, <1>3, <1>4, <1>l, Kept DEF TInv, Types
<1>6. Rely /\ \A d \in Clients : OwnFiles(d)
  <2>1. Old \subseteq Ids /\ None \notin Old
    BY ArtifactConstants DEF Old, Ids, TInv, Types, None
  <2> QED BY <1>0, <1>1, <1>2, <2>1 DEF Rely, OwnFiles
<1>7. \A d \in Clients : Reads(d)' /\ Holds(d)'
  BY <1>6, OthersKnow DEF KInv
<1>8. Links' /\ LinksServe'
  <2>1. \A a \in Ids : Active(a)' = {} BY <1>2 DEF Active, Linked, Ids, None
  <2> QED BY <1>2, <2>1 DEF Links, LinksServe
<1>9. Owned'
  <2> SUFFICES ASSUME NEW x \in Ids \ left'
               PROVE  /\ items[x] # None => \E d \in Clients : ItemOf(d, x)'
                      /\ snapshots[x] # None =>
                           published'[x].status # "none" \/ \E d \in Clients : SnapshotOf(d, x)'
    BY DEF Owned
  <2>1. x \in Ids \ left /\ (items[x] # None => ~Row(x) /\ x # artifact.id) OBVIOUS
  <2>2. client[c].n = None /\ x # None BY DEF TInv, Shape, Idle, Ids, None
  <2>3. \A d \in Clients : /\ ItemOf(d, x) => ItemOf(d, x)'
                           /\ SnapshotOf(d, x) => SnapshotOf(d, x)'
    BY <2>2 DEF CallStep, ItemOf, SnapshotOf
  <2>4. published'[x].status = published[x].status BY <1>2
  <2> QED BY <2>1, <2>3, <2>4 DEF KInv, Owned
<1>10. HistoryIsLinear'
  <2>1. RowSet' = {} BY <1>1 DEF RowSet
  <2>2. Cardinality({}) = 0 BY FS_EmptySet
  <2>3. Linear({}, revisions', artifact') BY <1>0, <2>2 DEF Linear
  <2> QED BY <2>1, <2>3, HistoryParts
<1>11. RevisionsReadable' /\ RollbacksInside'
  BY <1>1 DEF RevisionsReadable, RollbacksInside
<1> QED BY <1>5, <1>7, <1>8, <1>9, <1>10, <1>11 DEF KInv

LEMMA RemoveArtifactRows ==
  ASSUME TInv, KInv, NEW c \in Clients, RemoveArtifact(c) PROVE TInv' /\ KInv'
<1> DEFINE l == client[c]  m == client'[c]
<1>0. /\ l.pc = "remove" /\ Shape(l) /\ UNCHANGED <<items, snapshots, ops>>
      /\ IF InFile(l.form) THEN Goto(c, "erase") ELSE End(c)
  BY DEF RemoveArtifact, TInv
<1>1. l.op = "delete" /\ l.artifact # None BY <1>0 DEF Shape, Idle
<1>s. ASSUME artifact.id = l.artifact
      PROVE  /\ artifact' = NoArtifact
             /\ left' = left \union {n \in Ids : items[n] # None /\ (Row(n) \/ n = artifact.id)}
             /\ revisions' = [n \in Ids |-> NoRevision]
             /\ published' = [p \in Ids |-> IF p \in Linked(l.artifact)
                                            THEN Unlink(published[p]) ELSE published[p]]
  BY <1>s, Zenon DEF RemoveArtifact, Unlink
<1>u. ASSUME artifact.id # l.artifact PROVE UNCHANGED <<artifact, revisions, published, left>>
  BY <1>u, Zenon DEF RemoveArtifact
<1>3. artifact'.id # l.artifact
  BY <1>1, <1>s, <1>u DEF NoArtifact
<1>r. Rely
  <2>1. CASE artifact.id # l.artifact
    BY <1>u, <2>1 DEF Rely, Row
  <2>2. CASE artifact.id = l.artifact
    <3>2. Old \subseteq Ids /\ None \notin Old
      BY ArtifactConstants DEF Old, Ids, TInv, Types, None
    <3>3. \A x \in Old : ~Row(x)' BY <1>s, <2>2, <3>2 DEF Row, NoRevision
    <3>4. artifact'.id \notin Old BY <1>s, <2>2, <3>2 DEF NoArtifact
    <3>5. \A p \in Ids : published'[p].artifact \in {None, published[p].artifact}
      BY <1>s, <2>2, UnlinkFields DEF TInv, Types
    <3> QED BY <3>2, <3>3, <3>4, <3>5 DEF Rely
  <2> QED BY <2>1, <2>2
<1>4. CallStep(c) /\ Reads(c)' /\ Holds(c)'
  <2>1. CASE InFile(l.form)
    <3>1. CallStep(c) /\ Same(l, m) /\ m.pc = "erase" BY <1>0, <2>1, MoveStep
    <3> HIDE DEF m
    <3>2. Reads(c)' BY <1>3, <1>r, <3>1, ReadsKept DEF KInv, m
    <3>3. Holds(c)' BY <3>1 DEF Holds, m
    <3> QED BY <3>1, <3>2, <3>3
  <2>2. CASE ~InFile(l.form)
    BY <1>0, <2>2, EndStep, IdleKnows DEF TInv
  <2> QED BY <2>1, <2>2
<1>5. CASE artifact.id # l.artifact
  BY <1>0, <1>4, <1>5, <1>u, NoFiles, Quiet DEF Leaves
<1>6. CASE artifact.id = l.artifact
  BY <1>0, <1>4, <1>6, <1>s, RemoveRows
<1> QED BY <1>5, <1>6

-----------------------------------------------------------------------------
(* The theorems *)

\* The link of a row from before revisions were kept.
LegacyLink(pub) ==
  /\ pub \in LinkRow /\ pub.status = "active" /\ pub.artifact = Legacy /\ pub.revision = None

LEMMA InitTables ==
  ASSUME Init
  PROVE  /\ ops \in {0, 1} /\ artifact.id = ops /\ artifact.current = None
         /\ artifact \in ArtifactRow /\ published \in [Ids -> LinkRow]
         /\ items \in [Ids -> Contents] /\ \A n \in Ids : items[n] # None => n = artifact.id
         /\ snapshots \in [Ids -> Contents]
         /\ \A p \in Ids : \/ published[p] = NoPublish /\ snapshots[p] = None
                           \/ /\ p = Legacy /\ ops = 1 /\ LegacyLink(published[p])
                              /\ published[p].form = "binary" => snapshots[p] = published[p].text
<1>0. /\ NoPublish \in LinkRow /\ NoPublish.form = "inline" /\ MaxOps \in Nat \ {0}
      /\ None \in Contents /\ None \in 0..MaxOps /\ Legacy \in 0..MaxOps
  BY ArtifactConstants DEF NoPublish, LinkRow, Contents, Forms, None, Legacy
<1>1. CASE /\ artifact = NoArtifact /\ published = [n \in Ids |-> NoPublish]
           /\ items = [n \in Ids |-> None] /\ snapshots = [n \in Ids |-> None] /\ ops = 0
  BY <1>0, <1>1 DEF NoArtifact, ArtifactRow, Contents, Forms, None
<1>2. ASSUME NEW t \in Texts, NEW form \in Forms,
             artifact = [id |-> Legacy, current |-> None, text |-> t, form |-> form],
             NEW u \in Texts \union {None},
             items = [n \in Ids |-> IF n = Legacy /\ InFile(artifact.form) THEN u ELSE None],
             ops = 1
      PROVE  /\ artifact.id = ops /\ artifact.current = None /\ artifact \in ArtifactRow
             /\ artifact.form \in Forms
             /\ items \in [Ids -> Contents] /\ \A n \in Ids : items[n] # None => n = artifact.id
  <2>1. artifact.id = ops /\ artifact.current = None /\ artifact \in ArtifactRow
        /\ artifact.form \in Forms
    BY <1>0, <1>2 DEF ArtifactRow, Contents, Legacy
  <2>2. \A n \in Ids : /\ items[n] = IF n = Legacy /\ InFile(artifact.form) THEN u ELSE None
    BY <1>2, Zenon
  <2>3. u \in Contents BY DEF Contents
  <2>4. items \in [Ids -> Contents] BY <1>0, <1>2, <2>3
  <2> QED BY <1>2, <2>1, <2>2, <2>4 DEF Legacy
<1>3. ASSUME snapshots = [n \in Ids |->
               IF published[n].form = "binary" THEN published[n].text ELSE None],
             published \in [Ids -> LinkRow]
      PROVE  /\ snapshots \in [Ids -> Contents]
             /\ \A p \in Ids : published[p] = NoPublish => snapshots[p] = None
             /\ \A p \in Ids : published[p].form = "binary" => snapshots[p] = published[p].text
  <2>1. \A n \in Ids : published[n].text \in Contents BY <1>3 DEF LinkRow
  <2> QED BY <1>0, <1>3, <2>1
<1>4. ASSUME NEW t \in Texts, artifact.form \in Forms,
             published = [n \in Ids |->
               IF n = Legacy
               THEN [status |-> "active", artifact |-> Legacy, revision |-> None,
                     text |-> Public(t, artifact.form), form |-> artifact.form]
               ELSE NoPublish]
      PROVE  /\ published \in [Ids -> LinkRow]
             /\ \A p \in Ids : published[p] = NoPublish \/ (p = Legacy /\ LegacyLink(published[p]))
  <2> DEFINE pub == [status |-> "active", artifact |-> Legacy, revision |-> None,
                     text |-> Public(t, artifact.form), form |-> artifact.form]
  <2>1. Public(t, artifact.form) \in Contents BY DEF Public, Redacted, Contents, None
  <2>2. LegacyLink(pub) BY <1>0, <1>4, <2>1 DEF LegacyLink, LinkRow
  <2>3. \A p \in Ids : published[p] = IF p = Legacy THEN pub ELSE NoPublish BY <1>4, Zenon
  <2> HIDE DEF pub
  <2>4. published = [n \in Ids |-> IF n = Legacy THEN pub ELSE NoPublish] BY <1>4, Zenon DEF pub
  <2> QED BY <1>0, <2>2, <2>3, <2>4 DEF LegacyLink
<1>5. CASE /\ \E t \in Texts, form \in Forms :
                artifact = [id |-> Legacy, current |-> None, text |-> t, form |-> form]
           /\ \E t \in Texts \union {None} :
                items = [n \in Ids |-> IF n = Legacy /\ InFile(artifact.form) THEN t ELSE None]
           /\ \/ published = [n \in Ids |-> NoPublish]
              \/ \E t \in Texts :
                   published = [n \in Ids |->
                     IF n = Legacy
                     THEN [status |-> "active", artifact |-> Legacy, revision |-> None,
                           text |-> Public(t, artifact.form), form |-> artifact.form]
                     ELSE NoPublish]
           /\ snapshots = [n \in Ids |->
                IF published[n].form = "binary" THEN published[n].text ELSE None]
           /\ ops = 1
  <2>1. /\ artifact.id = ops /\ artifact.current = None /\ artifact \in ArtifactRow
        /\ artifact.form \in Forms
        /\ items \in [Ids -> Contents] /\ \A n \in Ids : items[n] # None => n = artifact.id
    BY <1>2, <1>5
  <2>2. /\ published \in [Ids -> LinkRow]
        /\ \A p \in Ids : published[p] = NoPublish \/ (p = Legacy /\ LegacyLink(published[p]))
    <3>1. CASE published = [n \in Ids |-> NoPublish] BY <1>0, <3>1
    <3> QED BY <1>4, <1>5, <2>1, <3>1
  <2> QED BY <1>3, <1>5, <2>1, <2>2
<1> QED BY <1>1, <1>5 DEF Init

LEMMA InitInv == Init => TInv /\ KInv
<1> SUFFICES ASSUME Init PROVE TInv /\ KInv OBVIOUS
<1>0. /\ revisions = [n \in Ids |-> NoRevision] /\ client = [c \in Clients |-> Idle]
      /\ left = {} /\ MaxOps \in Nat \ {0}
  BY ArtifactConstants DEF Init
<1>1. /\ ops \in {0, 1} /\ artifact.id = ops /\ artifact.current = None
      /\ artifact \in ArtifactRow /\ published \in [Ids -> LinkRow]
      /\ items \in [Ids -> Contents] /\ \A n \in Ids : items[n] # None => n = artifact.id
      /\ snapshots \in [Ids -> Contents]
      /\ \A p \in Ids : \/ published[p] = NoPublish /\ snapshots[p] = None
                        \/ /\ p = Legacy /\ ops = 1 /\ LegacyLink(published[p])
                           /\ published[p].form = "binary" => snapshots[p] = published[p].text
  BY InitTables
<1>2. /\ NoRevision \in RevisionRow /\ NoRevision.artifact = None
      /\ NoPublish.artifact = None /\ NoPublish.status = "none"
      /\ Idle.n = None /\ Idle.artifact = None /\ Idle.current = None /\ Idle.from = None
      /\ Idle.links = {} /\ Idle.pc = "idle" /\ Idle.op = "none"
  BY <1>0 DEF NoRevision, RevisionRow, NoPublish, Idle, None, Forms, Contents
<1>3. \A r \in Ids : revisions[r] = NoRevision /\ ~Row(r)
  BY <1>0, <1>2 DEF Row
<1>4. Types BY <1>0, <1>1, <1>2, IdleType DEF Types
<1>5. Old = 1..ops /\ Known = 0..ops
  BY <1>0, <1>1, <1>2 DEF Old, Known, None
<1>6. CallRefs BY <1>0, <1>1, <1>2, <1>5 DEF CallRefs, None
<1>7. TableRefs
  <2>1. ASSUME NEW p \in Ids
        PROVE IF published[p].status = "none" THEN published[p] = NoPublish
              ELSE p \in Old /\ {published[p].artifact, published[p].revision} \subseteq Known
    BY <1>1, <1>2, <1>5 DEF LegacyLink, Legacy, None
  <2> QED BY <1>1, <1>3, <1>5, <2>1 DEF TableRefs, None
<1>8. TInv BY <1>0, <1>4, <1>6, <1>7, IdleType DEF TInv, LeftRefs
<1>9. \A c \in Clients : Reads(c) /\ Holds(c)
  BY <1>0, <1>2 DEF Reads, Holds
<1>10. RevisionsReadable /\ RollbacksInside BY <1>3 DEF RevisionsReadable, RollbacksInside
<1>11. HistoryIsLinear
  <2>1. RowSet = {} BY <1>3 DEF RowSet
  <2>2. Cardinality({}) = 0 BY FS_EmptySet
  <2>3. Linear({}, revisions, artifact) BY <1>1, <2>2 DEF Linear
  <2> QED BY <2>1, <2>3, HistoryParts
<1>12. Links
  BY <1>1, <1>2 DEF Links, LegacyLink, Legacy
<1>13. LinksServe
  BY <1>1, <1>2 DEF LinksServe, LegacyLink, Active, Linked
<1>14. Owned BY <1>1 DEF Owned, LegacyLink
<1> QED BY <1>8, <1>9, <1>10, <1>11, <1>12, <1>13, <1>14 DEF KInv

LEMMA StepInv == TInv /\ KInv /\ [Next]_vars => TInv' /\ KInv'
<1> SUFFICES ASSUME TInv, KInv, [Next]_vars PROVE TInv' /\ KInv' OBVIOUS
<1>1. CASE Revoke BY <1>1, RevokeLinks
<1>2. ASSUME NEW c \in Clients, Call(c) PROVE TInv' /\ KInv'
  <2>1. CASE Lookup(c) BY <2>1, LookupQuiet
  <2>2. CASE Candidate(c) BY <2>2, CandidateQuiet
  <2>3. CASE Update(c) BY <2>3, UpdateQuiet
  <2>4. CASE Rollback(c) BY <2>4, RollbackQuiet
  <2>5. CASE Publish(c) BY <2>5, PublishQuiet
  <2>6. CASE Delete(c) BY <2>6, DeleteQuiet
  <2>7. CASE WriteItem(c) BY <2>7, WriteItemFiles
  <2>8. CASE Discard(c) BY <2>8, DiscardFiles
  <2>9. CASE Raise(c) BY <2>9, RaiseQuiet
  <2>10. CASE Stop(c) BY <2>10, StopQuiet
  <2>11. CASE CreateWithInitialRevision(c) BY <2>11, CreateCommits
  <2>12. CASE ReadLegacy(c) BY <2>12, ReadLegacyQuiet
  <2>13. CASE CommitBackfill(c) BY <2>13, BackfillCommits
  <2>14. CASE ReadTarget(c) BY <2>14, ReadTargetQuiet
  <2>15. CASE AppendRevision(c) BY <2>15, AppendCommits
  <2>16. CASE GetActive(c) BY <2>16, GetActiveQuiet
  <2>17. CASE ReadContent(c) BY <2>17, ReadContentQuiet
  <2>18. CASE CopySnapshot(c) BY <2>18, CopySnapshotFiles
  <2>19. CASE RegisterPublish(c) BY <2>19, RegisterPublishLinks
  <2>20. CASE ListPublished(c) BY <2>20, ListPublishedQuiet
  <2>21. CASE PurgePublished(c) BY <2>21, PurgeLinks
  <2>22. CASE UnlinkSnapshots(c) BY <2>22, UnlinkSnapshotsFiles
  <2>23. CASE RemoveArtifact(c) BY <2>23, RemoveArtifactRows
  <2>24. CASE EraseContent(c) BY <2>24, EraseContentFiles
  <2>25. CASE Refuse(c) BY <2>25, RefuseQuiet
  <2> QED BY <1>2, <2>1, <2>2, <2>3, <2>4, <2>5, <2>6, <2>7, <2>8, <2>9, <2>10, <2>11, <2>12,
             <2>13, <2>14, <2>15, <2>16, <2>17, <2>18, <2>19, <2>20, <2>21, <2>22, <2>23, <2>24,
             <2>25
          DEF Call
<1>3. CASE UNCHANGED vars
  <2>1. UNCHANGED <<artifact, revisions, published, items, snapshots, client, ops, left>>
    BY <1>3 DEF vars
  <2>2. Old' = Old /\ Known' = Known BY <2>1 DEF Old, Known
  <2>3. TInv' BY <2>1, <2>2 DEF TInv, Types, CallRefs, TableRefs, LeftRefs, Row
  <2>4. \A d \in Clients : Reads(d)' /\ Holds(d)'
    <3> SUFFICES ASSUME NEW d \in Clients PROVE Reads(d)' /\ Holds(d)' OBVIOUS
    <3>1. client'[d] = client[d] /\ Same(client[d], client'[d]) BY <2>1 DEF Same
    <3> QED BY <2>1, <3>1, ReadsKept, HoldsKept, SameForOthers DEF KInv
  <2>5. Owned'
    BY <2>1 DEF KInv, Owned, ItemOf, SnapshotOf, Row
  <2> QED BY <2>1, <2>3, <2>4, <2>5, SameTables DEF KInv
<1> QED BY <1>1, <1>2, <1>3 DEF Next

\* What the rows, the files and the calls know of each other holds in every state.
THEOREM Invariants == Spec => [](TInv /\ KInv)
BY InitInv, StepInv, PTL DEF Spec

\* The content of every revision in the history can be read and is what its checksum
\* says, for any number of concurrent calls, contents and operations: commits, their
\* compensation, migration and deletion (update_revision, rollback, migrate_revisions,
\* delete_artifact) never take the file of a committed revision.
THEOREM ContentsAreReadable == Spec => []RevisionsReadable
BY Invariants, PTL DEF KInv

\* The revisions of an artifact are one line of descent, numbered without a gap, the
\* current one last, each rollback with the content of its target: what the compare-and-set
\* of append_revision, the unique source of create_artifact_with_initial_revision and the
\* check of commit_initial_revision_backfill establish together.
THEOREM HistoriesAreLinear == Spec => []HistoryIsLinear
BY Invariants, PTL DEF KInv

\* The active link of an artifact can be opened and shows the public form of the revision
\* it names, whatever is published, revoked, compensated or deleted beside it; only a link
\* from before revisions were kept names none (register_revision_publish, revoke_publish,
\* delete_artifact).
THEOREM LinksAreServed == Spec => []LinksServe
BY Invariants, PTL DEF KInv

\* A file that no row and no call under way answers for was left behind by a call that was
\* stopped, refused by a validation or whose cleanup failed, or by a deletion: every other
\* commit that was refused, raised or turned out redundant has deleted what it wrote
\* (_best_effort_delete in create_artifact, update_revision, rollback, migration and
\* publish_revision).
THEOREM FilesAreOwned == Spec => []NothingLeaks
<1>1. TInv /\ KInv => NothingLeaks
  <2> SUFFICES ASSUME TInv, KInv, NEW n \in Ids, n \notin left,
                      \A c \in Clients : client[c].n # n
               PROVE  /\ items[n] # None => Row(n) \/ n = artifact.id
                      /\ snapshots[n] # None => published[n].status # "none"
    BY DEF NothingLeaks
  <2>1. \A c \in Clients : ~ItemOf(c, n) /\ ~SnapshotOf(c, n) BY DEF ItemOf, SnapshotOf
  <2> QED BY <2>1 DEF KInv, Owned
<1> QED BY <1>1, Invariants, PTL

\* Rows, files and calls keep their types, every id is that of an operation begun, and an
\* artifact has at most one active link, as the partial unique index of
\* published_artifacts demands.
THEOREM TypeCorrect == Spec => []TypeOK
<1>1. TInv /\ KInv => TypeOK
  <2> SUFFICES ASSUME TInv, KInv PROVE TypeOK OBVIOUS
  <2>0. Types /\ ops \in Nat /\ Old \subseteq 1..ops /\ Known \subseteq 0..ops /\ 0 \in 0..ops
    BY ArtifactConstants DEF TInv, Types, Old, Known, None
  <2>1. artifact \in [id : 0..ops, current : 0..ops, text : Texts \union {None}, form : Forms]
    BY <2>0 DEF TInv, TableRefs, Types, ArtifactRow, Contents
  <2>2. revisions \in [Ids -> [artifact : 0..ops, number : 0..ops, parent : 0..ops,
                               from : 0..ops, text : Texts \union {None}, form : Forms]]
    <3> SUFFICES ASSUME NEW r \in Ids
                 PROVE revisions[r] \in [artifact : 0..ops, number : 0..ops, parent : 0..ops,
                                         from : 0..ops, text : Texts \union {None}, form : Forms]
      BY <2>0 DEF Types
    <3>0. revisions[r] \in RevisionRow BY <2>0 DEF Types
    <3>1. CASE Row(r)
      <4>1. r \in 1..ops /\ revisions[r].number \in 1..r
            /\ {revisions[r].artifact, revisions[r].parent, revisions[r].from} \subseteq 0..ops
        BY <2>0, <3>1 DEF TInv, TableRefs
      <4>2. revisions[r].number \in 0..ops BY <2>0, <4>1
      <4> QED BY <3>0, <4>1, <4>2 DEF RevisionRow, Contents
    <3>2. CASE ~Row(r)
      <4>1. revisions[r] = NoRevision BY <3>2 DEF TInv, TableRefs
      <4> QED BY <2>0, <4>1 DEF NoRevision, None, Forms
    <3> QED BY <3>1, <3>2
  <2>3. published \in [Ids -> [status : {"none", "active", "revoked"}, artifact : 0..ops,
                               revision : 0..ops, text : Texts \union {None}, form : Forms]]
    <3> SUFFICES ASSUME NEW p \in Ids
                 PROVE published[p] \in [status : {"none", "active", "revoked"},
                         artifact : 0..ops, revision : 0..ops, text : Texts \union {None},
                         form : Forms]
      BY <2>0 DEF Types
    <3>0. published[p] \in LinkRow BY <2>0 DEF Types
    <3>1. CASE published[p].status # "none"
      <4>1. {published[p].artifact, published[p].revision} \subseteq 0..ops
        BY <2>0, <3>1 DEF TInv, TableRefs
      <4> QED BY <3>0, <4>1 DEF LinkRow, Contents
    <3>2. CASE published[p].status = "none"
      <4>1. published[p] = NoPublish BY <3>2 DEF TInv, TableRefs
      <4> QED BY <2>0, <4>1 DEF NoPublish, None, Forms
    <3> QED BY <3>1, <3>2
  <2>4. \A c \in Clients : client[c].n \in 0..ops /\ client[c].links \subseteq 1..ops
    BY <2>0 DEF TInv, CallRefs
  <2>5. ASSUME NEW a \in Ids PROVE Cardinality(Active(a)) <= 1
    <3>1. \A p, q \in Active(a) : p = q
      BY ServedLinks DEF Served, KInv, Links
    <3>2. CASE Active(a) = {} BY <3>2, FS_EmptySet
    <3>3. CASE Active(a) # {}
      <4>1. PICK p \in Active(a) : TRUE BY <3>3
      <4>2. Active(a) = {p} BY <3>1, <4>1
      <4>3. Cardinality({p}) = 1 BY FS_Singleton
      <4> QED BY <4>2, <4>3
    <3> QED BY <3>2, <3>3
  <2>6. {items, snapshots} \subseteq [Ids -> Texts \union {None}]
    BY <2>0 DEF Types, Contents
  <2>7. left \subseteq Ids BY <2>0, ArtifactConstants DEF TInv, LeftRefs, Types, Ids
  <2> QED BY <2>0, <2>1, <2>2, <2>3, <2>4, <2>5, <2>6, <2>7 DEF TypeOK, Types
<1> QED BY <1>1, Invariants, PTL

\* What becomes public is the revision that is current at that very moment, in its public
\* form: the check of register_revision_publish in its transaction makes good for the
\* content having been read and released long before.
THEOREM PublishedIsCurrent == Spec => PublishedWasCurrent
<1> DEFINE A == \A p \in Ids :
       published'[p].status = "active" /\ published[p].status # "active" =>
         /\ published'[p].artifact = artifact.id
         /\ published'[p].revision = artifact.current
         /\ published'[p].text = Public(revisions[artifact.current].text,
                                        revisions[artifact.current].form)
<1>1. TInv /\ KInv /\ [Next]_vars => [A]_vars
  <2> SUFFICES ASSUME TInv, KInv, Next PROVE A BY DEF vars
  <2>1. ASSUME \A p \in Ids : published'[p] = published[p] \/ published'[p].status # "active"
                              \/ published'[p].status = published[p].status
        PROVE  A
    BY <2>1
  <2>2. CASE Revoke
    <3>1. \A p \in Ids : published'[p] = published[p] \/ published'[p].status # "active"
      BY <2>2 DEF Revoke, TInv, Types, LinkRow
    <3> QED BY <2>1, <3>1
  <2>3. ASSUME NEW c \in Clients, Call(c) PROVE A
    <3> DEFINE l == client[c]
    <3>1. CASE published' = published BY <2>1, <3>1
    <3>2. CASE PurgePublished(c)
      <4>1. \A p \in Ids : published'[p] = published[p] \/ published'[p].status # "active"
        BY <3>2 DEF PurgePublished, NoPublish
      <4> QED BY <2>1, <4>1
    <3>3. CASE RemoveArtifact(c)
      <4>1. CASE artifact.id # l.artifact
        <5>1. published' = published BY <3>3, <4>1, Zenon DEF RemoveArtifact
        <5> QED BY <2>1, <5>1
      <4>2. CASE artifact.id = l.artifact
        <5>1. published' = [p \in Ids |-> IF p \in Linked(l.artifact)
                                          THEN Unlink(published[p]) ELSE published[p]]
          BY <3>3, <4>2, Zenon DEF RemoveArtifact, Unlink
        <5>2. \A p \in Ids : published'[p].status = published[p].status
          BY <5>1, UnlinkFields DEF TInv, Types
        <5> QED BY <2>1, <5>2
      <4> QED BY <4>1, <4>2
    <3>4. CASE RegisterPublish(c) /\ published' # published
      <4>1. /\ l.pc = "register" /\ RegisterAccepted(l) /\ published' = Registered(l)
        BY <3>4 DEF RegisterPublish
      <4>2. l.op = "publish" /\ l.current # None BY <4>1 DEF TInv, Shape, Idle
      <4>3. artifact.id = l.artifact /\ artifact.current = l.current
        BY <4>1 DEF RegisterAccepted
      <4>4. Row(l.current) BY <4>2, <4>3, CurrentIsLast DEF KInv, RowSet
      <4>5. l.data = Public(revisions[l.current].text, revisions[l.current].form)
        BY <4>1, <4>2, <4>4 DEF KInv, Holds, Reads
      <4>6. \A p \in Ids :
              \/ published'[p] = [status |-> "active", artifact |-> l.artifact,
                                  revision |-> l.current, text |-> l.data, form |-> l.form]
              \/ published'[p] = published[p] \/ published'[p].status # "active"
        BY <4>1 DEF Registered, TInv, Types, LinkRow
      <4> QED BY <4>3, <4>5, <4>6
    <3>5. \/ published' = published \/ PurgePublished(c) \/ RemoveArtifact(c)
          \/ RegisterPublish(c)
      BY <2>3 DEF Call, Lookup, Candidate, Update, Rollback, Publish, Delete, WriteItem,
         Discard, Raise, Refuse, Stop, CreateWithInitialRevision, ReadLegacy, CommitBackfill,
         ReadTarget, AppendRevision, GetActive, ReadContent, CopySnapshot, ListPublished,
         UnlinkSnapshots, EraseContent
    <3> QED BY <3>1, <3>2, <3>3, <3>4, <3>5
  <2> QED BY <2>2, <2>3 DEF Next
<1> QED BY <1>1, Invariants, PTL DEF Spec, PublishedWasCurrent

=============================================================================
