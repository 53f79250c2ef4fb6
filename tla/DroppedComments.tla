---------------------------- MODULE DroppedComments ----------------------------
(***************************************************************************)
(* The last pass of a compilation with jsc.preserveAllComments: comments   *)
(* whose nodes are gone move to the nodes that are left.                   *)
(* Source: dropped_comments_preserver.rs of src/vendor-crates/swc/src.     *)
(*                                                                         *)
(* Positions are numbers, 0 the dummy position.  Comments are numbered in  *)
(* the order collect_existing_comments gives them: by position, and at one *)
(* position the leading ones first; their text is left out.                *)
(***************************************************************************)
EXTENDS Naturals, Sequences, FiniteSets

CONSTANTS
  MaxPos,      \* bound: positions
  MaxSpans,    \* bound: spans the pass visits
  MaxComments  \* bound: comments

ASSUME CommentsAssumption == MaxPos \in Nat /\ MaxSpans \in Nat /\ MaxComments \in Nat

VARIABLES
  where,   \* the position of each comment in the source
  visited, \* the spans the pass visits, in its order; the first is the program's own
  next,    \* the one it visits next; is_first_span is next = 1
  known,   \* known_spans, in the order of the visit
  todo,    \* the known spans, sorted, that were not looked at yet
  phase,   \* "visit", "leading", "done"
  rest,    \* existing_comments: what is left of them
  leads,   \* the comments that lead each position
  trail    \* the comments put behind the last span: [at, comments]

commentVars == <<where, visited, next, known, todo, phase, rest, leads, trail>>

Positions == 1..MaxPos
Dummy == [lo |-> 0, hi |-> 0]
KnownSpans == {s \in [lo : Positions, hi : Positions] : s.lo <= s.hi}
Spans == KnownSpans \union {Dummy}
SeqsUpTo(S, n) == UNION {[1..k -> S] : k \in 0..n}

\* visit_mut_span
VisitSpan ==
  /\ phase = "visit" /\ next <= Len(visited)
  /\ known' = IF next = 1 \/ visited[next] = Dummy THEN known ELSE Append(known, visited[next])
  /\ next' = next + 1
  /\ UNCHANGED <<where, visited, todo, phase, rest, leads, trail>>

\* (Mutant) the spans stay in the order of the visit.
InVisitOrder(spans) == spans

\* sort_by_key, which is stable.
Sorted(spans) ==
  LET order ==
        CHOOSE p \in [DOMAIN spans -> DOMAIN spans] :
          /\ {p[i] : i \in DOMAIN spans} = DOMAIN spans
          /\ \A i, j \in DOMAIN spans : i < j =>
               \/ spans[p[i]].lo < spans[p[j]].lo
               \/ spans[p[i]].lo = spans[p[j]].lo /\ p[i] < p[j]
  IN [i \in DOMAIN spans |-> spans[order[i]]]

\* The end of visit_mut_module or visit_mut_script: the spans are sorted, the comments drained.
Collect ==
  /\ phase = "visit" /\ next > Len(visited)
  /\ todo' = Sorted(known)
  /\ rest' = [k \in 1..Len(where) |-> k]
  /\ phase' = "leading"
  /\ UNCHANGED <<where, visited, next, known, leads, trail>>

\* partition_point, over comments that are sorted by position.
CutPoint(at) ==
  CHOOSE n \in 0..Len(rest) : \A i \in 1..Len(rest) : i <= n <=> where[rest[i]] <= at

\* shift_leading_comments: one span takes what is left up to its start.
ShiftLeading ==
  LET at == Head(todo).lo
      cut == CutPoint(at) IN
  /\ phase = "leading" /\ todo # << >>
  /\ leads' = [leads EXCEPT ![at] = @ \o SubSeq(rest, 1, cut)]
  /\ rest' = SubSeq(rest, cut + 1, Len(rest))
  /\ todo' = Tail(todo)
  /\ UNCHANGED <<where, visited, next, known, phase, trail>>

\* The highest end of a known span, that of the dummy span if there is none.
LastEnd ==
  LET ends == {known[i].hi : i \in DOMAIN known} IN
  IF ends = {} THEN Dummy.hi ELSE CHOOSE p \in ends : \A q \in ends : q <= p

\* shift_trailing_comments: the rest goes behind the span that ends last.
ShiftTrailing ==
  /\ phase = "leading" /\ todo = << >>
  /\ trail' = [at |-> LastEnd, comments |-> rest]
  /\ rest' = << >> /\ phase' = "done"
  /\ UNCHANGED <<where, visited, next, known, todo, leads>>

CommentsStart(w, v) ==
  /\ where = w /\ visited = v
  /\ next = 1 /\ known = << >>
  /\ todo = << >> /\ phase = "visit" /\ rest = << >>
  /\ leads = [p \in Positions |-> << >>]
  /\ trail = [at |-> 0, comments |-> << >>]

CommentsInit ==
  \E w \in SeqsUpTo(Positions, MaxComments), v \in SeqsUpTo(Spans, MaxSpans) \ {<< >>} :
    (\A i, j \in DOMAIN w : i <= j => w[i] <= w[j]) /\ CommentsStart(w, v)

CommentsNext == VisitSpan \/ Collect \/ ShiftLeading \/ ShiftTrailing

-----------------------------------------------------------------------------
\* The spans of the program that a comment can be put next to.
Known == {visited[k] : k \in 2..Len(visited)} \ {Dummy}

\* Where the comments end up: in front of each position, and last behind the last span.
Places == 1..(MaxPos + 1)
Pile(p) == IF p \in Positions THEN leads[p] ELSE trail.comments
In(k, s) == \E i \in DOMAIN s : s[i] = k

\* A program that has a known span keeps every comment, once and in the source's order, each in
\* front of the closest known span that starts where the comment is or later; what is behind all
\* of them trails the span that ends last.
CommentsKept ==
  phase = "done" /\ Known # {} =>
    /\ \A k \in 1..Len(where) : \E p \in Places : In(k, Pile(p))
    /\ \A p, q \in Places : \A i \in DOMAIN Pile(p), j \in DOMAIN Pile(q) :
         p < q \/ (p = q /\ i < j) => Pile(p)[i] < Pile(q)[j]
    /\ \A k \in 1..Len(where) :
         LET later == {s.lo : s \in {t \in Known : t.lo >= where[k]}} IN
         IF later = {} THEN In(k, trail.comments) /\ \E s \in Known : s.hi = trail.at
         ELSE \A p \in later : (\A q \in later : p <= q) => In(k, leads[p])
    /\ \A s \in Known : s.hi <= trail.at
=============================================================================
