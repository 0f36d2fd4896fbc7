----------------------------- MODULE Documents -----------------------------
(***************************************************************************)
(* Documents and decisions (src/backlog_py/core/documents.py and           *)
(* decisions.py): numbered Markdown files that are created, updated and    *)
(* moved under the project write lock, and edited by hand between these.   *)
(*                                                                         *)
(* An edit by hand may leave a file that no longer parses; then its id is  *)
(* salvaged from its front matter or, where that fails, only the number in *)
(* its name is left.  A number stands for an id of the form DOC-n.         *)
(***************************************************************************)
EXTENDS Integers

CONSTANTS Births,    \* documents and decisions
          Folders,   \* directories under docs/
          Decisions, \* the directory of the decisions
          Slugs,     \* titles as they appear in file names
          MaxId,     \* bound on ids
          MaxRev,    \* bound on the updates of a document
          MaxFaults, \* bound on failing calls and deaths
          NoOp

DocumentsAssumption ==
  MaxId \in Nat /\ MaxRev \in Nat /\ MaxFaults \in Nat /\ Decisions \notin Folders

VARIABLES file,      \* file[p]: the content of each path p there is
          op,        \* the move that is under way
          known,     \* known[b]: the latest revision of b that an operation has reported
          loose,     \* documents whose id allocation could not know at some time
          faults

docVars == <<file, op, known, loose, faults>>

\* The number in a generated name; 0: the caller chose the name.
Path    == [dir : Folders \cup {Decisions}, num : 0..MaxId, slug : Slugs]
Content == [born : Births, id : 0..MaxId, rev : 0..MaxRev,
            form : {"parses", "salvaged", "opaque"}]

DocumentsTypeOK ==
  /\ DOMAIN file \subseteq Path /\ \A p \in DOMAIN file : file[p] \in Content
  /\ known \in [Births -> 0..MaxRev] /\ loose \subseteq Births /\ faults \in 0..MaxFaults

DocsInit ==
  /\ file = [p \in {} |-> NoOp] /\ op = NoOp
  /\ known = [b \in Births |-> 0] /\ loose = {} /\ faults = 0

Docs     == {p \in DOMAIN file : p.dir \in Folders}
Records  == {p \in DOMAIN file : p.dir = Decisions}
Put(p, content) == file' = [q \in DOMAIN file \cup {p} |-> IF q = p THEN content ELSE file[q]]
Idle     == op = NoOp
Fault    == faults < MaxFaults /\ faults' = faults + 1

\* Mutant: what does not parse claims nothing.
ReservedIds_Parsed(ps) == {file[p].id : p \in {q \in ps : file[q].form = "parses"}} \ {0}

\* _reserved_document_ids, _reserved_decision_ids.
ReservedIds(ps) == {file[p].id : p \in {q \in ps : file[q].form # "opaque"}} \ {0}

\* _next_document_id, _next_decision_id: the numbers in names are reserved too.
NextId(ps) ==
  LET ns == {0} \cup ReservedIds(ps) \cup {p.num : p \in ps}
  IN 1 + CHOOSE n \in ns : \A m \in ns : m <= n

Unborn(b) == \A p \in DOMAIN file : file[p].born # b
New(b, id) == [born |-> b, id |-> id, rev |-> 0, form |-> "parses"]

\* create_document_from_title.
CreateFromTitle(b, dir, slug) ==
  /\ Idle /\ Unborn(b) /\ NextId(Docs) <= MaxId
  /\ LET p == [dir |-> dir, num |-> NextId(Docs), slug |-> slug] IN
       p \notin DOMAIN file /\ Put(p, New(b, NextId(Docs)))
  /\ UNCHANGED <<op, known, loose, faults>>

\* create_document: a path the caller chooses, and perhaps an id, which
\* _document_id_exists does not look for in names.
CreateAt(b, dir, slug) ==
  /\ Idle /\ Unborn(b)
  /\ LET p == [dir |-> dir, num |-> 0, slug |-> slug] IN
       /\ p \notin DOMAIN file
       /\ \E id \in {NextId(Docs)} \cup ((1..MaxId) \ ReservedIds(Docs)) :
            /\ id <= MaxId /\ Put(p, New(b, id))
            /\ loose' = IF \E q \in Docs : q.num = id THEN loose \cup {b} ELSE loose
  /\ UNCHANGED <<op, known, faults>>

\* create_decision.
CreateDecision(b, slug) ==
  /\ Idle /\ Unborn(b) /\ NextId(Records) <= MaxId
  /\ LET p == [dir |-> Decisions, num |-> NextId(Records), slug |-> slug] IN
       p \notin DOMAIN file /\ Put(p, New(b, NextId(Records)))
  /\ UNCHANGED <<op, known, loose, faults>>

\* The documents a reference may lead to: a path, or the id of one that parses.
Viewed(p) == p \in Docs /\ file[p].form = "parses"

\* What update_document writes: metadata may hold another id.
Updated(p, new) ==
  /\ file[p].rev < MaxRev
  /\ \E id \in {file[p].id, 0} \cup ReservedIds(Docs) :
       new = [file[p] EXCEPT !.rev = @ + 1, !.id = id]
Loosened(p, new) == IF new.id = file[p].id THEN loose ELSE loose \cup {file[p].born}

UpdateDocument(p) ==
  /\ Idle /\ Viewed(p)
  /\ \E new \in Content :
       /\ Updated(p, new) /\ Put(p, new)
       /\ known' = [known EXCEPT ![new.born] = new.rev]
       /\ loose' = Loosened(p, new)
  /\ UNCHANGED <<op, faults>>

\* update_document with a directory, and the first step of _move_document: the
\* new content goes to the old path.
BeginMove(p, dir) ==
  /\ Idle /\ Viewed(p) /\ dir # p.dir /\ [p EXCEPT !.dir = dir] \notin DOMAIN file
  /\ \E new \in Content :
       /\ Updated(p, new) /\ Put(p, new)
       /\ op' = [pc |-> "rename", src |-> p, dst |-> [p EXCEPT !.dir = dir], new |-> new]
       /\ loose' = Loosened(p, new)
  /\ UNCHANGED <<known, faults>>

At(pc)    == ~Idle /\ op.pc = pc
Drop(p)   == file' = [q \in DOMAIN file \ {p} |-> file[q]]
Report(b, rev) == known' = [known EXCEPT ![b] = rev]

\* os.replace; where it fails the content is copied.
Rename ==
  /\ At("rename")
  /\ \/ /\ file' = [q \in (DOMAIN file \ {op.src}) \cup {op.dst} |->
                      IF q = op.dst THEN file[op.src] ELSE file[q]]
        /\ op' = NoOp /\ Report(op.new.born, op.new.rev) /\ UNCHANGED faults
     \/ Fault /\ op' = [op EXCEPT !.pc = "copy"] /\ UNCHANGED <<file, known>>
  /\ UNCHANGED loose

\* The write of the copy may fail: the move raises, with the new content in the
\* old place.
Copy ==
  /\ At("copy")
  /\ \/ Put(op.dst, op.new) /\ op' = [op EXCEPT !.pc = "unlink"] /\ UNCHANGED faults
     \/ Fault /\ op' = NoOp /\ UNCHANGED file
  /\ UNCHANGED <<known, loose>>

\* The old file is removed, best effort.
Unlink ==
  /\ At("unlink")
  /\ \/ Drop(op.src) /\ UNCHANGED faults
     \/ Fault /\ UNCHANGED file
  /\ op' = NoOp /\ Report(op.new.born, op.new.rev) /\ UNCHANGED loose

Die ==
  /\ ~Idle /\ Fault /\ op' = NoOp
  /\ UNCHANGED <<file, known, loose>>

\* A user breaks the front matter of a file, or repairs it.
HandEdit(p) ==
  /\ Idle
  /\ \E form \in {"parses", "salvaged", "opaque"} \ {file[p].form} :
       /\ Put(p, [file[p] EXCEPT !.form = form])
       /\ loose' = IF form = "opaque" /\ p.num # file[p].id THEN loose \cup {file[p].born} ELSE loose
  /\ UNCHANGED <<op, known, faults>>

DocsNext ==
  \/ \E b \in Births, slug \in Slugs :
       \/ \E dir \in Folders : CreateFromTitle(b, dir, slug) \/ CreateAt(b, dir, slug)
       \/ CreateDecision(b, slug)
  \/ \E p \in DOMAIN file :
       UpdateDocument(p) \/ HandEdit(p) \/ \E dir \in Folders : BeginMove(p, dir)
  \/ Rename \/ Copy \/ Unlink \/ Die

Spec == DocsInit /\ [][DocsNext]_docVars

-----------------------------------------------------------------------------
(* Properties. *)

Homes(b) == {p \in DOMAIN file : file[p].born = b}

\* Whatever fails or dies, a document that was created is somewhere, in a
\* revision no older than the last one an operation has reported (_move_document,
\* documents.py:251-270).
KeepsDocuments ==
  \A b \in Births :
    Homes(b) # {} => \E p \in Homes(b)' : file'[p].rev >= known'[b]
DocumentsKept == [][KeepsDocuments]_docVars

\* An id that was issued, or accepted from a caller, is of one document, also
\* when files were broken and repaired in between.  Left out are what nobody
\* checks: ids that an update changes, ids that a caller chooses although they are
\* in a name, and files whose id is readable nowhere.
IdsNameOneDocument ==
  \A ps \in {Docs, Records} : \A p, q \in ps :
    /\ file[p].id = file[q].id /\ file[p].id # 0 /\ file[p].born # file[q].born
    => {file[p].born, file[q].born} \cap loose # {}

-----------------------------------------------------------------------------
(* What the steps keep, from which the properties follow. *)

\* A move that is under way: its content is in the old place, and from the copy on
\* in the new one too, where nothing was.
MoveInv ==
  ~Idle =>
    /\ op \in [pc : {"rename", "copy", "unlink"}, src : Path, dst : Path, new : Content]
    /\ op.src \in Docs /\ file[op.src] = op.new /\ op.new.form = "parses"
    /\ op.dst # op.src /\ op.dst.dir \in Folders
    /\ IF op.pc = "unlink" THEN op.dst \in DOMAIN file /\ file[op.dst] = op.new
                           ELSE op.dst \notin DOMAIN file

\* Each document is somewhere as it was last reported.
KeptInv ==
  \A b \in Births :
    /\ Homes(b) # {} => \E p \in Homes(b) : file[p].rev >= known[b]
    /\ Homes(b) = {} => known[b] = 0

\* Where an id is not in the file it is in the name, or the document is loose.
IdsInv == \A p \in DOMAIN file : file[p].form = "opaque" => p.num = file[p].id \/ file[p].born \in loose

DocsInv == DocumentsTypeOK /\ MoveInv /\ KeptInv /\ IdsInv /\ IdsNameOneDocument
=============================================================================
