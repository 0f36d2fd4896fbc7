------------------------------ MODULE TaskText ------------------------------
(***************************************************************************)
(* The text of a task file (src/backlog_py/markdown/task_parser.py, the    *)
(* edits of core/repository.py and the repair of core/doctor.py).  A file  *)
(* is a sequence of lines: headings, the markers that begin and end a      *)
(* section or a checklist, checklist items, and text.  Blank lines, line   *)
(* ends and the frontmatter are left out.                                  *)
(*                                                                         *)
(* People and other programs change the file too: they delete a line,      *)
(* write a heading into a section, or leave out what this program writes.  *)
(***************************************************************************)
EXTENDS Integers, FiniteSets, Sequences

CONSTANTS MaxHand, MaxEdits, MaxRepairs \* bounds

VARIABLES doc,
          asked,  \* what the last edit was asked for
          hand, edits, repairs

textVars == <<doc, asked, hand, edits, repairs>>

Line(kind, name) == [kind |-> kind, name |-> name, done |-> FALSE]
Heading(n)  == Line("head", n)
Begin(n) == Line("begin", n)
End(n)   == Line("end", n)
Text(v)  == Line("text", v)
Item(v)  == Line("item", v)

Lists    == {"AC", "DOD"}
Sections == {"DESCRIPTION", "PLAN", "IMPLEMENTATION_NOTES", "NOTES", "FINAL_SUMMARY"}

Range(s)     == {s[i] : i \in DOMAIN s}
Pick(s, S)   == LET at == SelectSeq([i \in 1..Len(s) |-> i], LAMBDA i : i \in S) IN [k \in 1..Len(at) |-> s[at[k]]]
FirstIn(S)   == CHOOSE i \in S : \A j \in S : i <= j
LastIn(S)    == CHOOSE i \in S : \A j \in S : j <= i
Upto(s, i)   == SubSeq(s, 1, i)
From(s, i)   == SubSeq(s, i, Len(s))
Where(s, l)  == {i \in 1..Len(s) : s[i] = l}

-----------------------------------------------------------------------------
(* The parser: blocks in the order of the file.  A marker inside an open   *)
(* block is a line of that block, and of two blocks of a name the first    *)
(* counts.                                                                 *)

\* The block that begins at i: its last line is that of the first END after it, 0
\* if there is none.
Block(d, i) ==
  LET ends == {j \in Where(d, End(d[i].name)) : j > i} IN
    [name |-> d[i].name, first |-> i, last |-> IF ends = {} THEN 0 ELSE FirstIn(ends)]

Parse(d) ==
  LET Rest[i \in 1..(Len(d) + 1)] ==
        IF i > Len(d) THEN <<>>
        ELSE IF d[i].kind # "begin" THEN Rest[i + 1]
        ELSE LET b == Block(d, i) IN <<b>> \o (IF b.last = 0 THEN <<>> ELSE Rest[b.last + 1])
  IN Rest[1]

Parses(d) == \A b \in Range(Parse(d)) : b.last # 0

Blocks(d, n)  == SelectSeq(Parse(d), LAMBDA b : b.name = n /\ b.last # 0)
Has(d, n)     == Blocks(d, n) # <<>>
Inside(d, bs) == IF bs = <<>> THEN <<>> ELSE SubSeq(d, bs[1].first + 1, bs[1].last - 1)
Content(d, n) == Inside(d, Blocks(d, n))
Items(d, n)   == SelectSeq(Content(d, n), LAMBDA l : l.kind = "item")

-----------------------------------------------------------------------------
(* Sections.                                                               *)

\* _SECTION_NAME_ALIASES, in the order they are looked up
Names(n) == IF n = "IMPLEMENTATION_NOTES" THEN <<n, "NOTES">> ELSE <<n>>

\* _find_section: the name under which the file has the section, or ""
Known(d, n) == (SelectSeq(Names(n), LAMBDA m : Has(d, m)) \o <<"">>)[1]

IsMarkerOf(l, n)  == l.kind \in {"begin", "end"} /\ l.name \in Range(Names(n))
WithoutMarkers(s, n) == SelectSeq(s, LAMBDA l : ~IsMarkerOf(l, n))
ForEdit(d, n)     == WithoutMarkers(Content(d, Known(d, n)), n)

Rendered(n, content) == <<Begin(n)>> \o content \o <<End(n)>>

\* _section_replace_end: the END lines left over after the section go with it.
PastEnds(d, i, n) ==
  LET more == {j \in (i + 1)..Len(d) : ~(d[j].kind = "end" /\ d[j].name \in Range(Names(n)))} IN
    IF more = {} THEN Len(d) + 1 ELSE FirstIn(more)

Splice(d, i, new) == Upto(d, i - 1) \o new \o From(d, i)

\* _extract_marker_block: the first BEGIN anywhere, and the first END after it
Raw(d, n) ==
  LET begins == Where(d, Begin(n))
      ends   == {j \in Where(d, End(n)) : begins # {} /\ j > FirstIn(begins)} IN
    IF ends = {} THEN <<>> ELSE <<FirstIn(begins), FirstIn(ends)>>

Insert(d, n, content) ==
  LET block == <<Heading(n)>> \o Rendered(n, content)
      dod   == Where(d, Heading("DOD"))
      at    == IF n = "PLAN" /\ Raw(d, "AC") # <<>> THEN Raw(d, "AC")[2] + 1
               ELSE IF n = "FINAL_SUMMARY" /\ dod # {} THEN FirstIn(dod)
               ELSE Len(d) + 1 IN
    Splice(d, at, block)

\* _replace_section
ReplaceBlock(d, b, n, content) ==
  Upto(d, b.first - 1) \o Rendered(n, content) \o From(d, PastEnds(d, b.last, n))

Replace(d, n, content) ==
  IF Known(d, n) # "" THEN ReplaceBlock(d, Blocks(d, Known(d, n))[1], n, content)
                      ELSE Insert(WithoutMarkers(d, n), n, content)

\* _replace_or_insert_section
ReplaceOrInsert(d, n, content) == IF Has(d, n) THEN Replace(d, n, content) ELSE Insert(d, n, content)

\* _remove_section: with its heading, the last of that name before it
RemoveBlock(d, b, n) ==
  LET heads == {i \in Where(d, Heading(n)) : i < b.first} IN
    Upto(d, (IF heads = {} THEN b.first ELSE LastIn(heads)) - 1) \o From(d, b.last + 1)

RemoveSection(d, n) == IF ~Has(d, n) THEN d ELSE RemoveBlock(d, Blocks(d, n)[1], n)

-----------------------------------------------------------------------------
(* Checklists: an item is addressed by its position.                       *)

Fails == <<>>   \* the edit is refused (no file is empty)

\* Where the items at these positions of the list are.
At(d, n, ks) ==
  LET raw == Raw(d, n) IN
    {i \in raw[1]..raw[2] : d[i].kind = "item" /\ Cardinality({j \in raw[1]..i : d[j].kind = "item"}) \in ks}

InRange(d, n, ks) == (\A k \in ks : k \in 1..Len(Items(d, n))) /\ Raw(d, n) # <<>>

Mark(d, n, ks, done) ==
  IF ~InRange(d, n, ks) THEN Fails
  ELSE LET at == At(d, n, ks) IN [i \in 1..Len(d) |-> IF i \in at THEN [d[i] EXCEPT !.done = done] ELSE d[i]]

RemoveItems(d, n, ks) == IF ~InRange(d, n, ks) THEN Fails ELSE Pick(d, 1..Len(d) \ At(d, n, ks))

AddItem(d, n, v) == IF Raw(d, n) = <<>> THEN Fails ELSE Splice(d, Raw(d, n)[2], <<Item(v)>>)

ReplaceItems(d, n, v) ==
  LET raw == Raw(d, n) IN
    IF raw = <<>> THEN Fails ELSE Upto(d, raw[1] - 1) \o Rendered(n, <<Item(v)>>) \o From(d, raw[2] + 1)

-----------------------------------------------------------------------------
(* edit_task: what one call asks for, in the order it is done.             *)

Change(of, how, ks) == [of |-> of, how |-> how, ks |-> ks]

\* Mutant: items are removed before others are ticked.
Order_RemovesFirst ==
  <<<<"DESCRIPTION", "set">>, <<"PLAN", "set">>, <<"PLAN", "append">>, <<"PLAN", "clear">>,
    <<"IMPLEMENTATION_NOTES", "set">>, <<"IMPLEMENTATION_NOTES", "append">>,
    <<"FINAL_SUMMARY", "set">>, <<"FINAL_SUMMARY", "append">>, <<"FINAL_SUMMARY", "clear">>,
    <<"AC", "set">>, <<"AC", "remove">>, <<"DOD", "remove">>, <<"AC", "check">>, <<"DOD", "check">>,
    <<"AC", "uncheck">>, <<"DOD", "uncheck">>, <<"AC", "add">>, <<"DOD", "add">>>>

Order ==
  <<<<"DESCRIPTION", "set">>, <<"PLAN", "set">>, <<"PLAN", "append">>, <<"PLAN", "clear">>,
    <<"IMPLEMENTATION_NOTES", "set">>, <<"IMPLEMENTATION_NOTES", "append">>,
    <<"FINAL_SUMMARY", "set">>, <<"FINAL_SUMMARY", "append">>, <<"FINAL_SUMMARY", "clear">>,
    <<"AC", "set">>, <<"AC", "check">>, <<"DOD", "check">>, <<"AC", "uncheck">>, <<"DOD", "uncheck">>,
    <<"AC", "remove">>, <<"DOD", "remove">>, <<"AC", "add">>, <<"DOD", "add">>>>

Do(d, c) ==
  LET n == c.of
      appended == ForEdit(d, n) \o <<Text("more")>> IN
    CASE n \in Lists /\ c.how = "set"     -> ReplaceItems(d, n, "new")
      [] n \in Lists /\ c.how = "check"   -> Mark(d, n, c.ks, TRUE)
      [] n \in Lists /\ c.how = "uncheck" -> Mark(d, n, c.ks, FALSE)
      [] n \in Lists /\ c.how = "remove"  -> RemoveItems(d, n, c.ks)
      [] n \in Lists /\ c.how = "add"     -> AddItem(d, n, "new")
      [] n = "PLAN" /\ c.how = "set"      -> ReplaceOrInsert(d, n, <<Text("new")>>)
      [] n = "PLAN" /\ c.how = "append"   -> ReplaceOrInsert(d, n, appended)
      [] n = "PLAN" /\ c.how = "clear"    -> RemoveSection(d, n)
      [] OTHER -> Replace(d, n, CASE c.how = "set" -> <<Text("new")>> [] c.how = "append" -> appended [] OTHER -> <<>>)

\* A text that no longer parses is refused as well, after every change.
Checked(d)  == IF d # Fails /\ Parses(d) THEN d ELSE Fails
Make(d, c)  == IF d = Fails THEN Fails ELSE Checked(Do(d, c))

Apply(d, changes) ==
  LET steps == SelectSeq(Order, LAMBDA o : \E c \in changes : o = <<c.of, c.how>>)
      After[i \in 0..Len(steps)] ==
        IF i = 0 THEN d ELSE Make(After[i - 1], CHOOSE c \in changes : steps[i] = <<c.of, c.how>>)
  IN After[Len(steps)]

-----------------------------------------------------------------------------
(* doctor --fix: repair_task_source.                                       *)

\* Mutant: a section ends at the next heading, whether or not it has an END.
ClosedBy_NextHeading(d, i) ==
  {j \in Where(d, End(d[i].name)) : j > i /\ \A h \in i..j : d[h].kind # "head"}

\* _find_section_end
ClosedBy(d, i) == {j \in Where(d, End(d[i].name)) : j > i}

\* _close_unterminated_sections: the BEGINs whose END is missing, and the text
\* with it before the next heading.  Of two for the same place the later one is
\* put there.
Unclosed(d) ==
  LET Rest[i \in 1..(Len(d) + 1)] ==
        CASE i > Len(d) -> {}
          [] i <= Len(d) /\ (d[i].kind # "begin" \/ d[i].name \in Lists) -> Rest[i + 1]
          [] OTHER -> IF ClosedBy(d, i) = {} THEN {i} \cup Rest[i + 1] ELSE Rest[FirstIn(ClosedBy(d, i)) + 1]
  IN Rest[1]

Close(d) ==
  LET Stop(i)  == FirstIn({j \in (i + 1)..Len(d) : d[j].kind = "head"} \cup {Len(d) + 1})
      open     == Unclosed(d)
      Ends(j)  == LET here == {i \in open : Stop(i) = j} IN
                    IF here = {} THEN <<>> ELSE <<End(d[LastIn(here)].name)>>
      Before[j \in 0..Len(d)] == IF j = 0 THEN <<>> ELSE Before[j - 1] \o Ends(j) \o <<d[j]>>
  IN Before[Len(d)] \o Ends(Len(d) + 1)

\* Until it parses, or nothing is left to close: then the file stays.
Closer(d) == IF Parses(d) THEN d ELSE Close(d)
Outcome(d, last) == IF Parses(last) THEN last ELSE d

Repaired(d) ==
  LET Pass[n \in 0..(Len(d) + 1)] == IF n = 0 THEN d ELSE Closer(Pass[n - 1])
  IN Outcome(d, Pass[Len(d) + 1])

-----------------------------------------------------------------------------
(* The file and those who change it.                                       *)

Section(n, content) == <<Heading(n)>> \o Rendered(n, content)

\* _new_task_source; other programs call the notes NOTES and leave out sections.
NewDoc(plan, notes, final) ==
  Section("DESCRIPTION", <<Text("t")>>) \o Section("AC", <<Item("x"), [Item("y") EXCEPT !.done = TRUE]>>)
  \o (IF plan THEN Section("PLAN", <<Text("t")>>) ELSE <<>>)
  \o (IF notes = "" THEN <<>> ELSE Section(notes, <<Text("t")>>))
  \o (IF final THEN Section("FINAL_SUMMARY", <<Text("t")>>) ELSE <<>>)
  \o Section("DOD", <<Item("z")>>)

TextInit ==
  /\ \E plan, final \in BOOLEAN, notes \in {"IMPLEMENTATION_NOTES", "NOTES", ""} : doc = NewDoc(plan, notes, final)
  /\ asked = {} /\ hand = 0 /\ edits = 0 /\ repairs = 0

\* What one call may ask for: one change of a section, or up to two of a list.
SectionChanges ==
  {Change(n, how, {}) : n \in {"DESCRIPTION"}, how \in {"set"}}
  \cup {Change(n, how, {}) : n \in {"PLAN", "FINAL_SUMMARY"}, how \in {"set", "append", "clear"}}
  \cup {Change(n, how, {}) : n \in {"IMPLEMENTATION_NOTES"}, how \in {"set", "append"}}

ListChanges ==
  {Change("AC", how, {k}) : how \in {"check", "uncheck", "remove"}, k \in {1, 2}}
  \cup {Change("AC", how, {}) : how \in {"set", "add"}}

Requests ==
  {{c} : c \in SectionChanges}
  \cup {{c, e} : c, e \in ListChanges}
  \cup {{Change("DOD", how, {1})} : how \in {"check", "uncheck", "remove"}} \cup {{Change("DOD", "add", {})}}

\* A call names each of its options once.
Calls == {r \in Requests : \A c, e \in r : c.how = e.how => c = e}

EditTask(r) ==
  /\ edits < MaxEdits /\ edits' = edits + 1
  /\ Parses(doc)
  /\ doc' = Apply(doc, r) /\ doc' # Fails
  /\ asked' = r
  /\ UNCHANGED <<hand, repairs>>

Repair ==
  /\ repairs < MaxRepairs /\ ~Parses(doc) /\ repairs' = repairs + 1
  /\ doc' = Repaired(doc)
  /\ UNCHANGED <<asked, hand, edits>>

DeleteLine(i) ==
  /\ hand < MaxHand /\ hand' = hand + 1
  /\ i \in 1..Len(doc) /\ Len(doc) > 1
  /\ doc' = Pick(doc, 1..Len(doc) \ {i})
  /\ UNCHANGED <<asked, edits, repairs>>

\* A heading in a section, other than the one of the Definition of Done, before
\* which a missing Final Summary is put wherever it is.
InsertHeading(i) ==
  /\ hand < MaxHand /\ hand' = hand + 1
  /\ i \in 1..Len(doc) /\ doc[i].kind = "end"
  /\ doc' = Splice(doc, i, <<Heading("more"), Text("t")>>)
  /\ UNCHANGED <<asked, edits, repairs>>

TextNext ==
  \/ \E r \in Calls : EditTask(r)
  \/ Repair
  \/ \E i \in 1..Len(doc) : DeleteLine(i) \/ InsertHeading(i)

TextSpec == TextInit /\ [][TextNext]_textVars

-----------------------------------------------------------------------------
(* Properties.                                                             *)

Main == Sections \ {"NOTES"}

\* What a call means, whatever order its changes are made in: positions are
\* those in the list as it was (or, if it is replaced, in the new one).
Meant(items, cs) ==
  LET base    == IF \E c \in cs : c.how = "set" THEN <<Item("new")>> ELSE items
      Of(how) == UNION {c.ks : c \in {e \in cs : e.how = how}}
      marked  == [i \in 1..Len(base) |->
                    [base[i] EXCEPT !.done = i \notin Of("uncheck") /\ (@ \/ i \in Of("check"))]] IN
    Pick(marked, 1..Len(base) \ Of("remove"))
    \o (IF \E c \in cs : c.how = "add" THEN <<Item("new")>> ELSE <<>>)

MeantText(content, cs) ==
  IF \E c \in cs : c.how = "clear" THEN <<>>
  ELSE IF \E c \in cs : c.how = "set" THEN <<Text("new")>>
  ELSE IF \E c \in cs : c.how = "append" THEN content \o <<Text("more")>>
  ELSE content

\* An edit that is carried out changes the sections and items it names as it was
\* asked to, and nothing else that a reader sees.
EditsOnlyWhatIsAsked ==
  edits' > edits =>
    LET Of(n) == {c \in asked' : c.of = n} IN
      /\ \A n \in Lists : Of(n) # {} \/ Has(doc, n) => Items(doc', n) = Meant(Items(doc, n), Of(n))
      /\ \A n \in Main : Of(n) # {} \/ Known(doc, n) # "" => ForEdit(doc', n) = MeantText(ForEdit(doc, n), Of(n))
EditIsLocal == [][EditsOnlyWhatIsAsked]_textVars

\* A repair keeps every line and only adds ENDs, until the file parses; a section
\* with its heading and its END has the content it had.
RepairsFaithfully ==
  repairs' > repairs /\ doc' # doc =>
    LET lines(d) == SelectSeq(d, LAMBDA l : l.kind # "end")
        whole == {n \in Sections : \E i, j \in 2..Len(doc) :
                    i < j /\ doc[i - 1].kind = "head" /\ doc[i] = Begin(n) /\ doc[j] = End(n)}
        own(n) == LET i == FirstIn(Where(doc, Begin(n))) IN
                    SubSeq(doc, i + 1, FirstIn({j \in Where(doc, End(n)) : j > i}) - 1) IN
      /\ Parses(doc') /\ lines(doc') = lines(doc)
      /\ \A n \in whole : Has(doc', n) /\ Content(doc', n) = own(n)
RepairIsFaithful == [][RepairsFaithfully]_textVars
=============================================================================
