------------------------------ MODULE PlanText ------------------------------
(***************************************************************************)
(* From a plan's text to the task list a run is frozen on: the markdown     *)
(* reader (plan/mod.rs, plan/markdown.rs), the graph checks of validate.rs  *)
(* and the reporting order of engine.rs.                                    *)
(*                                                                         *)
(* A document is the sequence of blocks the CommonMark parser reports:      *)
(*   [b |-> "heading", level, quoted, title, inline]                        *)
(*   [b |-> "para", header, hints]   header: its text labels criteria       *)
(*   [b |-> "list", ordered, items]  items of [title, box, inline]          *)
(*   [b |-> "comment", tokens]       a tactus annotation                    *)
(*   [b |-> "code"]                                                         *)
(* A title is [text, slug, words, header]; a slug and an id are sequences   *)
(* (<<"a", 2>> is "a-2"), so that a derived id can collide with a written   *)
(* one.  An optional value is a sequence of at most one element.            *)
(***************************************************************************)
EXTENDS Naturals, Sequences, FiniteSets
LOCAL INSTANCE SequencesExt

First(S) == CHOOSE x \in S : \A y \in S : x <= y
PushNew(s, x) == IF x \in ToSet(s) THEN s ELSE Append(s, x)

(* ------------------------------ annotations ----------------------------- *)

NoAnnotation == [id |-> <<>>, kind |-> "", depends |-> <<>>, tier |-> 0,
                 min |-> 0, needs |-> <<>>, out |-> <<>>, paths |-> <<>>]

\* A token is [key, value, known]: an unknown key or value is ignored with a
\* warning; a repeated key overwrites.
ParseAnnotation(tokens) ==
    FoldLeft(LAMBDA a, t : IF t.known /\ t.key \in DOMAIN a
                           THEN [a EXCEPT ![t.key] = t.value] ELSE a,
             NoAnnotation, tokens)

\* The first annotation of a section or item stands.
Accept(ann, tokens) ==
    IF ann = <<>> /\ tokens # <<>> THEN <<ParseAnnotation(tokens[1])>> ELSE ann

(* ------------------------------- sections ------------------------------- *)

IsBoundary(x) ==
    x.b = "heading" /\ x.level \in {2, 3} /\ ~x.quoted /\ ~x.title.header

Boundaries(doc) == {i \in DOMAIN doc : IsBoundary(doc[i])}

SectionEnd(doc, i) ==
    LET later == {j \in Boundaries(doc) : j > i}
    IN  IF later = {} THEN Len(doc) ELSE First(later) - 1

\* A header arms the next list, prose, code and a list disarm it, and headings
\* and comments in between do not.
Arms_NotPastComments(armed, x) ==
    \/ x.b = "heading" /\ (armed \/ x.title.header)
    \/ x.b = "para" /\ x.header

Arms(armed, x) ==
    \/ x.b = "heading" /\ (armed \/ x.title.header)
    \/ x.b = "para" /\ x.header
    \/ x.b = "comment" /\ armed

\* One block.  (An annotation inline in a paragraph is a comment beside it;
\* criteria that are empty once stripped are none.)
Read(d, x) ==
    [d EXCEPT !.armed = Arms(@, x),
              !.ann = CASE x.b = "heading" -> Accept(@, x.inline)
                        [] x.b = "comment" -> Accept(@, <<x.tokens>>)
                        [] x.b = "list" -> FoldLeft(LAMBDA a, it : Accept(a, it.inline), @, x.items)
                        [] OTHER -> @,
              !.hints = IF x.b = "para" THEN FoldLeft(PushNew, @, x.hints) ELSE @,
              !.acceptance = IF x.b = "list" /\ d.armed
                             THEN LET said == SelectSeq(x.items, LAMBDA it : it.title.text # "")
                                  IN  @ \o [k \in DOMAIN said |-> said[k].title.text]
                             ELSE @]

SectionDraft(doc, i) ==
    FoldLeft(Read,
             [title |-> doc[i].title, ann |-> Accept(<<>>, doc[i].inline),
              acceptance |-> <<>>, hints |-> <<>>, armed |-> FALSE],
             SubSeq(doc, i + 1, SectionEnd(doc, i)))

\* Without sections: the top-level items of ordered lists, and the checkbox
\* items of unordered ones, are the tasks.
ChecklistDrafts(doc) ==
    LET items(x) == IF x.b # "list" THEN <<>>
                    ELSE SelectSeq(x.items, LAMBDA it : (x.ordered \/ it.box) /\ it.title.text # "")
        draft(it) == [title |-> it.title, ann |-> Accept(<<>>, it.inline),
                      acceptance |-> <<>>, hints |-> <<>>, armed |-> FALSE]
    IN  FoldLeft(LAMBDA out, x : out \o [k \in DOMAIN items(x) |-> draft(items(x)[k])],
                 <<>>, doc)

Drafts(doc) ==
    IF Boundaries(doc) = {} THEN ChecklistDrafts(doc)
    ELSE LET all == [i \in DOMAIN doc |-> i]
             starts == SelectSeq(all, LAMBDA i : i \in Boundaries(doc))
         IN  [k \in DOMAIN starts |-> SectionDraft(doc, starts[k])]

(* ------------------------------- assembly ------------------------------- *)

\* Heuristic kinds in the order they are tried; anything else implements.
KindWords == << <<"fix", {"fix", "bug"}>>, <<"test", {"test", "coverage"}>>,
                <<"docs", {"docs", "readme"}>>, <<"refactor", {"refactor"}>>,
                <<"design", {"design", "spec"}>>, <<"chore", {"chore", "bump"}>> >>

HeuristicKind(words) ==
    LET hits == {k \in DOMAIN KindWords : KindWords[k][2] \cap words # {}}
    IN  IF hits = {} THEN "implement" ELSE KindWords[First(hits)][1]

UniqueSlug(base, taken) ==
    IF base \notin taken THEN base
    ELSE base \o <<First({n \in 2 .. Cardinality(taken) + 2 : base \o <<n>> \notin taken})>>

\* A plausible slip: only the ids of earlier tasks are avoided.
Reserved_Earlier(drafts) == {}

\* The ids no derived one may take: every id written in the document.
Reserved(drafts) ==
    {drafts[k].ann[1].id : k \in {j \in DOMAIN drafts : drafts[j].ann # <<>>}} \ {<<>>}

Assemble(drafts) ==
    LET step(s, d) ==
          LET a  == IF d.ann = <<>> THEN NoAnnotation ELSE d.ann[1]
              id == IF a.id # <<>> THEN a.id ELSE UniqueSlug(d.title.slug, s.taken)
              task == [id |-> id,
                       kind |-> IF a.kind # "" THEN a.kind ELSE HeuristicKind(d.title.words),
                       depends |-> IF a.depends # <<>> THEN a.depends[1]
                                   ELSE IF s.tasks = <<>> THEN <<>>
                                   ELSE <<s.tasks[Len(s.tasks)].id>>,
                       acceptance |-> d.acceptance,
                       hints |-> FoldLeft(PushNew, a.paths, d.hints),
                       suggested |-> a.tier, min |-> a.min,
                       needs |-> a.needs, out |-> a.out]
          IN  [tasks |-> Append(s.tasks, task),
               taken |-> IF a.id # <<>> THEN s.taken ELSE s.taken \cup {id}]
    IN  FoldLeft(step, [tasks |-> <<>>, taken |-> Reserved(drafts)], drafts).tasks

\* A plan that declares no artifact gets a conventions brief from its first
\* design task.
WithBrief(tasks) ==
    LET designs == {i \in DOMAIN tasks : tasks[i].kind = "design"}
    IN  IF designs = {} \/ \E i \in DOMAIN tasks : tasks[i].out # <<>> THEN tasks
        ELSE [tasks EXCEPT ![First(designs)].out = <<"conventions-brief">>]

Producer(tasks, a) ==
    LET by == {i \in DOMAIN tasks : a \in ToSet(tasks[i].out)}
    IN  IF by = {} THEN 0 ELSE First(by)

\* The text, recognized as a plan by its reader (a text no reader recognizes is
\* refused before), is read and assembled; no task is a refusal.
ParsePlan(doc) == WithBrief(Assemble(Drafts(doc)))

(* ----------------------------- graph checks ----------------------------- *)

Ids(tasks) == {tasks[i].id : i \in DOMAIN tasks}
IndexOf(tasks, id) == First({i \in DOMAIN tasks : tasks[i].id = id})

HasDuplicates(tasks) == Cardinality(Ids(tasks)) # Len(tasks)
HasUnknown(tasks) == \E i \in DOMAIN tasks : ~(ToSet(tasks[i].depends) \subseteq Ids(tasks))

RECURSIVE Visit(_, _, _)
\* The depth-first search: [color, cycle] after visiting task i.
Visit(tasks, i, color) ==
    LET follow(s, d) ==
          LET n == IndexOf(tasks, d)
          IN  IF s.cycle THEN s
              ELSE IF s.color[n] = "gray" THEN [s EXCEPT !.cycle = TRUE]
              ELSE IF s.color[n] = "white" THEN Visit(tasks, n, s.color) ELSE s
        seen == FoldLeft(follow, [color |-> [color EXCEPT ![i] = "gray"], cycle |-> FALSE],
                         tasks[i].depends)
    IN  IF seen.cycle THEN seen ELSE [seen EXCEPT !.color[i] = "black"]

\* A plausible slip: only two tasks that wait on each other are found.
FindCycle_PairsOnly(tasks) ==
    \E i, j \in DOMAIN tasks : tasks[i].id \in ToSet(tasks[j].depends)
                               /\ tasks[j].id \in ToSet(tasks[i].depends)

FindCycle(tasks) ==
    FoldLeft(LAMBDA s, i : IF s.cycle \/ s.color[i] # "white" THEN s
                           ELSE Visit(tasks, i, s.color),
             [color |-> [i \in DOMAIN tasks |-> "white"], cycle |-> FALSE],
             [i \in DOMAIN tasks |-> i]).cycle

\* Cycles are only looked for in a graph whose edges all resolve.
GraphAccepted(tasks) ==
    ~HasDuplicates(tasks) /\ ~HasUnknown(tasks) /\ ~FindCycle(tasks)

\* A plausible slip: everything earlier in the plan counts as upstream.
Upstream_PlanOrder(tasks, i) == 1 .. i - 1

\* What task i depends on, directly or transitively: the worklist of
\* depends_transitively, one generation of edges per round.
Upstream(tasks, i) ==
    LET edges(S) == {IndexOf(tasks, d) : d \in UNION {ToSet(tasks[j].depends) : j \in S}}
    IN  FoldLeft(LAMBDA S, k : S \cup edges(S), edges({i}), tasks)

\* The artifacts a task reads without depending on their producer: a warning.
Miswired(tasks) ==
    {<<i, a>> \in (DOMAIN tasks) \X UNION {ToSet(tasks[i].needs) : i \in DOMAIN tasks} :
        /\ a \in ToSet(tasks[i].needs)
        /\ LET p == Producer(tasks, a)
           IN  p # 0 /\ p # i /\ p \notin Upstream(tasks, i)}

\* Stable topological order: the lowest ready index first, and plan order for
\* what nothing can reach.
TopoOrder(tasks) ==
    LET known(d, order) == d \notin Ids(tasks) \/ IndexOf(tasks, d) \in ToSet(order)
        next(order, k) ==
          LET left  == DOMAIN tasks \ ToSet(order)
              ready == {i \in left : \A d \in ToSet(tasks[i].depends) : known(d, order)}
          IN  IF left = {} THEN order
              ELSE IF ready # {} THEN Append(order, First(ready))
              ELSE order \o SelectSeq([i \in DOMAIN tasks |-> i], LAMBDA i : i \in left)
    IN  FoldLeft(next, <<>>, tasks)
=============================================================================
