------------------------------ MODULE PivotGraph ------------------------------
(***************************************************************************)
(* The pivots as src/pivotgraph.c keeps them, under the solver of          *)
(* src/policies/cks.c: every pivot is an array of edges, and every edge    *)
(* refers to two operands of src/operand.c, its coefficient and a numeric  *)
(* stand-in for it.  Operands are linked into expressions, baked, counted  *)
(* and discarded by hand.  The solver walks through the array while it     *)
(* deletes from it, in the order in which results happen to arrive.        *)
(*                                                                         *)
(* Module CKS is the same solver with rows that have no order, no operands *)
(* and no waiting; Abstract below says what of this one corresponds to it. *)
(* Neither saving nor loading is modelled again here.                      *)
(*                                                                         *)
(* When a worker finishes is open (module AEF); what the frontend can see  *)
(* of it is that a terminal it waits for, or asks for, is finished.  So    *)
(* terminals finish here when that is seen, with all they depend on.       *)
(***************************************************************************)
EXTENDS Integers, Sequences, FiniteSets, SequencesExt, FiniteSetsExt

CONSTANTS Integral, Pivot, Order, P, MaxDespair, Systems, None,   \* as in CKS
          Requests      \* the integrals in the input

Coefficient == 0 .. (P - 1)
Row == UNION {[heads -> Coefficient] : heads \in SUBSET Integral}

ASSUME PivotAssumption == IsFiniteSet(Integral) /\ Pivot \subseteq Integral /\ None \notin Integral
ASSUME NoneAssumption == None \notin [Pivot -> Row]
ASSUME OrderAssumption == Order \in [Pivot -> Nat]
ASSUME PrimeAssumption ==
  P \in Nat /\ P > 1 /\ \A a \in 1 .. (P - 1) : \E b \in Coefficient : (a * b) % P = 1
ASSUME DespairAssumption == MaxDespair \in Nat \ {0}
ASSUME SystemAssumption == Systems \subseteq [Pivot -> Row]
ASSUME RequestAssumption == Requests \subseteq Pivot

VARIABLES
  refs,           \* target->refs of each pivot: its edges
  op,             \* the operands there are
  order, solved, touched, consideration,     \* QsMetadata
  stack,          \* the calls of cks(), see Call
  elimination,    \* info->elimination; quicksolve never sets ELIMINATE_NONE
  request, terminate, aborted, system,       \* as in CKS
  ended           \* None, or what the rows were when the graph was destroyed

metaVars == <<order, solved, touched, consideration>>
controlVars == <<elimination, terminate, system>>
vars == <<refs, op, metaVars, stack, request, aborted, controlVars, ended>>

MinusOne == P - 1
Reciprocal(a) == CHOOSE b \in Coefficient : (a * b) % P = 1

-----------------------------------------------------------------------------
(* Counting *)

\* The sum of f over the members of S.
SumOf(f, S) == MapThenSumSet(LAMBDA x : f[x], S)

\* f where it is defined, and g elsewhere.  Comparing it changes nothing, but has TLC
\* evaluate the function once and not at each of its applications.
Merge(f, g) ==
  LET merged == [x \in DOMAIN f \cup DOMAIN g |-> IF x \in DOMAIN f THEN f[x] ELSE g[x]]
  IN IF merged = g THEN g ELSE merged

\* How often o occurs in a sequence.
Occurrences(seq, o) == Cardinality({k \in DOMAIN seq : seq[k] = o})

\* What a set becomes that grows until it does not any more.
Limit(grown, start) ==
  LET limit[F \in DOMAIN grown] == IF grown[F] = F THEN F ELSE limit[grown[F]]
  IN limit[start]

-----------------------------------------------------------------------------
(* Operands.  s is what there is before, the operators tell what there is afterwards. *)

One == 0      \* g->one

\* The least number that is not in use.
Fresh(s) == CHOOSE o \in 0 .. Cardinality(DOMAIN s) : o \notin DOMAIN s

IsTerminal(s, o) == s[o].kind = "terminal"

Ref(s, o) == [s EXCEPT ![o].count = @ + 1]

\* How often the expressions of the operands in F refer to o.
Uses(s, F, o) == SumOf([n \in F |-> Occurrences(s[n].args, o)], F)

\* The references that are left on o when back[o] were given back and the operands in F went.
Left(s, back, F, o) == s[o].count - back[o] - Uses(s, F, o)

\* Those that go then.  The assertion is that a terminal has its result; one that has not
\* stays here with a count of zero.
Spent(s, back, F) ==
  {o \in DOMAIN s : /\ s[o].count > 0 /\ Left(s, back, F, o) <= 0
                    /\ IsTerminal(s, o) => s[o].done}

\* qs_operand_unref for several references at once.  An expression goes with its operand.
Release(s, back) ==
  LET gone == Limit([F \in SUBSET DOMAIN s |-> F \cup Spent(s, back, F)], {})
      kept == DOMAIN s \ gone
      less == {o \in kept : Left(s, back, gone, o) # s[o].count}
  IN Merge([o \in less |-> [s[o] EXCEPT !.count = Left(s, back, gone, o)]], [o \in kept |-> s[o]])

\* qs_operand_unref
Unref(s, o) == Release(s, [n \in DOMAIN s |-> IF n = o THEN 1 ELSE 0])

\* An expression takes a reference on each operand, and uses it.
New(s, kind, args, val) ==
  LET new == [kind |-> kind, args |-> args, val |-> val % P, count |-> 1,
              done |-> FALSE, dropped |-> FALSE, uses |-> 0]
  IN Merge([o \in {Fresh(s)} |-> new],
           [o \in DOMAIN s |->
              [s[o] EXCEPT !.count = @ + Occurrences(args, o),
                           !.uses  = @ + (IF IsTerminal(s, o) THEN 0 ELSE Occurrences(args, o))]])

Link(s, args, val) == New(s, "link", args, val)
Bake(s, args, val) == New(s, "terminal", args, val)

\* Terminate with a mistake: the reference to what was baked is kept.
TerminateReferring(s, o) == IF IsTerminal(s, o) THEN s ELSE Bake(s, <<o>>, s[o].val)

\* qs_operand_terminate: which operand it returns, and what it does.
Terminated(s, o) == IF IsTerminal(s, o) THEN o ELSE Fresh(s)
Terminate(s, o) == IF IsTerminal(s, o) THEN s ELSE Unref(Bake(s, <<o>>, s[o].val), o)

\* o and all it depends on, as long as that is not finished.
Below(s, o) ==
  Limit([N \in SUBSET DOMAIN s |-> N \cup UNION {ToSet(s[n].args) : n \in N}], {o})

\* A worker finishes o, and before that what it depends on.  The references of their
\* expressions are given back, and discarded terminals are dropped.
Finish(s, o) ==
  LET D == {n \in Below(s, o) : IsTerminal(s, n) /\ ~s[n].done}
      complete == Merge([n \in D |-> [s[n] EXCEPT !.done = TRUE, !.args = <<>>]], s)
      back == [n \in DOMAIN s |-> Uses(s, D, n) + IF n \in D /\ s[n].dropped THEN 1 ELSE 0]
  IN Release(complete, back)

\* Discard with a mistake: it does not wait for the result.
DiscardAtOnce(s, o, arrived) == Unref(s, o)

\* qs_operand_discard; arrived tells whether the result was there already.
Discard(s, o, arrived) ==
  IF s[o].done \/ arrived THEN Unref(Finish(s, o), o)
  ELSE [s EXCEPT ![o].dropped = TRUE]

-----------------------------------------------------------------------------
(* Edges.  g is a graph: its edges in refs, and its operands in op. *)

Edge(head, coefficient, numeric) ==
  [head |-> head, coefficient |-> coefficient, numeric |-> numeric]

Graph == [refs |-> refs, op |-> op]

Coefficients(edges) == [k \in DOMAIN edges |-> edges[k].coefficient]
Numerics(edges)     == [k \in DOMAIN edges |-> edges[k].numeric]

\* How often edges refer to o.
EdgeUses(edges, o) == Occurrences(Coefficients(edges), o) + Occurrences(Numerics(edges), o)

\* The references of these edges are given back.
ReleaseEdges(s, edges) == Release(s, [o \in DOMAIN s |-> EdgeUses(edges, o)])

\* The last edge takes the place of the one at j.
Moved(edges, j) == Front([edges EXCEPT ![j] = Last(edges)])

\* Where the first edge to this head is, and whether there is one.
IndexOf(edges, head) == SelectInSeq(edges, LAMBDA e : e.head = head)

\* index_by_operand, for a numeric or a symbolic coefficient.
IndexByNumeric(edges, o) == SelectInSeq(edges, LAMBDA e : e.numeric = o)
IndexByCoefficient(edges, o) == SelectInSeq(edges, LAMBDA e : e.coefficient = o)

\* TerminateEdge with a mistake: only the numeric is.
TerminateHalf(g, i, j) ==
  LET o == g.refs[i][j].numeric IN
  [refs |-> [g.refs EXCEPT ![i][j].numeric = Terminated(g.op, o)], op |-> Terminate(g.op, o)]

\* qs_pivot_graph_terminate_nth
TerminateNumeric(g, i, j) ==
  LET o == g.refs[i][j].numeric IN
  [refs |-> [g.refs EXCEPT ![i][j].numeric = Terminated(g.op, o)], op |-> Terminate(g.op, o)]
TerminateCoefficient(g, i, j) ==
  LET o == g.refs[i][j].coefficient IN
  [refs |-> [g.refs EXCEPT ![i][j].coefficient = Terminated(g.op, o)], op |-> Terminate(g.op, o)]

\* Both operands of an edge are terminated.
TerminateEdge(g, i, j) == TerminateNumeric(TerminateCoefficient(g, i, j), i, j)

\* The product of the edge e with the base becomes an edge of tail.
AddProduct(h, tail, e, base) ==
  LET a == Link(h.op, <<e.coefficient, base.coefficient>>,
                h.op[e.coefficient].val * h.op[base.coefficient].val)
      b == Link(a, <<e.numeric, base.numeric>>, h.op[e.numeric].val * h.op[base.numeric].val)
  IN [refs |-> [h.refs EXCEPT ![tail] = Append(@, Edge(e.head, Fresh(h.op), Fresh(a)))],
      op   |-> b]

\* The loop of qs_pivot_graph_relay: what relaying over the k-th edge of head yields.
RelayLimb(g, tail, head, k, base) ==
  LET h == TerminateEdge(g, head, k)
  IN IF g.refs[head][k].head = head THEN g ELSE AddProduct(h, tail, h.refs[head][k], base)
RelayLimbs(g, tail, head, base) ==
  LET n == Len(g.refs[head])
      limbs[k \in 0 .. n] ==
        IF k = 0 THEN g ELSE RelayLimb(limbs[k - 1], tail, head, k, base)
  IN limbs[n]

\* Without further edges of head the base was never used.
ReleaseBase(g, base, used) ==
  LET spent == IF used THEN Unref(g.op, base.coefficient)
               ELSE Discard(g.op, base.coefficient, FALSE)
  IN [g EXCEPT !.op = Unref(spent, base.numeric)]

\* qs_pivot_graph_relay
Relay(g, tail, head) ==
  LET j == IndexOf(g.refs[tail], head)
      h == TerminateEdge(g, tail, j)
      base == h.refs[tail][j]
      rest == [h EXCEPT !.refs[tail] = Moved(h.refs[tail], j)]
  IN IF j = 0 THEN g
     ELSE ReleaseBase(RelayLimbs(rest, tail, head, base), base, Len(g.refs[head]) > 1)

\* The loop of qs_pivot_graph_collect at the edge z.j: z.found are the edges to head so
\* far, of which the first stays where it is.
Gather(z, head) ==
  LET e == z.edges[z.j] IN
  IF e.head # head THEN [z EXCEPT !.j = @ + 1]
  ELSE IF z.found = <<>> THEN [z EXCEPT !.j = @ + 1, !.found = <<e>>]
  ELSE [z EXCEPT !.edges = Moved(@, z.j), !.found = Append(@, e)]
Gathered(edges, head) ==
  LET n == Len(edges)
      gather[k \in 0 .. n] ==
        IF k = 0 THEN [edges |-> edges, j |-> 1, found |-> <<>>] ELSE Gather(gather[k - 1], head)
  IN gather[n]

Sum(s, os) == SumOf([k \in DOMAIN os |-> s[os[k]].val], DOMAIN os)

\* qs_pivot_graph_collect
Collect(g, tail, head) ==
  LET got == Gathered(g.refs[tail], head)
      cs  == Coefficients(got.found)
      ns  == Numerics(got.found)
      a   == Link(g.op, cs, Sum(g.op, cs))
      b   == Link(a, ns, Sum(g.op, ns))
      j   == IndexOf(got.edges, head)
  IN IF Len(got.found) < 2 THEN g
     ELSE [refs |-> [g.refs EXCEPT ![tail] =
                       [got.edges EXCEPT ![j] = Edge(head, Fresh(g.op), Fresh(a))]],
           op   |-> ReleaseEdges(b, got.found)]

\* CollectAll with a mistake: the edges that were appended are taken for single ones.
CollectFirst(g, tail) ==
  IF g.refs[tail] = <<>> THEN g ELSE Collect(g, tail, g.refs[tail][1].head)

\* What cks() does after a relay: the number of edges shrinks while it goes through them.
CollectNth(g, tail, k) ==
  IF k > Len(g.refs[tail]) THEN g ELSE Collect(g, tail, g.refs[tail][k].head)
CollectAll(g, tail) ==
  LET n == Len(g.refs[tail])
      collected[k \in 0 .. n] == IF k = 0 THEN g ELSE CollectNth(collected[k - 1], tail, k)
  IN collected[n]

\* One operand of an edge is divided by what self is the negative of.
Divided(s, o, self) == Unref(Link(s, <<o, self>>, s[o].val * Reciprocal(s[self].val)), o)

\* The loop of qs_pivot_graph_normalize, c and n being the negatives of the self edge.
DivideNth(g, i, k, c, n) ==
  LET e == g.refs[i][k]
      a == Divided(g.op, e.coefficient, c)
      b == Divided(a, e.numeric, n)
  IN IF e.head = i THEN [refs |-> [g.refs EXCEPT ![i][k] = Edge(i, One, One)],
                         op   |-> Ref(Ref(g.op, One), One)]
     ELSE [refs |-> [g.refs EXCEPT ![i][k] = Edge(e.head, Fresh(g.op), Fresh(a))], op |-> b]
DivideAll(g, i, c, n) ==
  LET m == Len(g.refs[i])
      divided[k \in 0 .. m] == IF k = 0 THEN g ELSE DivideNth(divided[k - 1], i, k, c, n)
  IN divided[m]

\* The negative of an operand replaces it.
Negated(s, o) == Unref(Bake(s, <<o>>, P - s[o].val), o)

\* qs_pivot_graph_normalize
Normalize(g, i) ==
  LET e == g.refs[i][IndexOf(g.refs[i], i)]
      a == Negated(g.op, e.coefficient)
      c == Fresh(g.op)
      n == Fresh(a)
      all == DivideAll([g EXCEPT !.op = Negated(a, e.numeric)], i, c, n)
  IN IF Len(g.refs[i]) = 1 THEN g ELSE [all EXCEPT !.op = Unref(Unref(@, c), n)]

\* Delete with a mistake: the last edge goes where the deleted one was.
DeleteMoving(g, i, target, replacement, arrived) ==
  LET h == TerminateCoefficient(g, i, target)
      e == h.refs[i][target]
  IN [refs |-> [h.refs EXCEPT ![i] = Moved(@, target)],
      op   |-> Unref(Discard(h.op, e.coefficient, arrived), e.numeric)]

\* qs_pivot_graph_delete_nth
Delete(g, i, target, replacement, arrived) ==
  LET h == TerminateCoefficient(g, i, target)
      e == h.refs[i][target]
      edges == [h.refs[i] EXCEPT ![target] = h.refs[i][replacement]]
  IN [refs |-> [h.refs EXCEPT ![i] = Moved(edges, replacement)],
      op   |-> Unref(Discard(h.op, e.coefficient, arrived), e.numeric)]

\* qs_pivot_graph_terminate_all
TerminateAll(g, i) ==
  LET n == Len(g.refs[i])
      baked[k \in 0 .. n] == IF k = 0 THEN g ELSE TerminateEdge(baked[k - 1], i, k)
  IN baked[n]

\* The loop of qs_pivot_graph_acquire at the edge z.j of i, and the release: it is waited
\* for, and removed if it is zero.
AcquireNth(z, i) ==
  LET g == z.graph
      e == g.refs[i][z.j]
      s == Finish(Finish(g.op, e.coefficient), e.numeric)
  IN IF s[e.coefficient].val # 0 THEN [graph |-> [g EXCEPT !.op = s], j |-> z.j + 1]
     ELSE [z EXCEPT !.graph = [refs |-> [g.refs EXCEPT ![i] = Moved(g.refs[i], z.j)],
                               op   |-> Unref(Unref(s, e.coefficient), e.numeric)]]
AcquireAll(g, i) ==
  LET n == Len(g.refs[i])
      acquired[k \in 0 .. n] ==
        IF k = 0 THEN [graph |-> g, j |-> 1] ELSE AcquireNth(acquired[k - 1], i)
  IN acquired[n].graph

\* qs_pivot_graph_acquire
Acquire(g, i) == AcquireAll(TerminateAll(g, i), i)

\* free_pivot
FreePivot(g, i) ==
  [refs |-> [g.refs EXCEPT ![i] = <<>>], op |-> ReleaseEdges(g.op, g.refs[i])]

\* The loops of qs_pivot_graph_destroy over the pivots.
TerminateEvery(g, pivots) ==
  LET n == Len(pivots)
      baked[k \in 0 .. n] == IF k = 0 THEN g ELSE TerminateAll(baked[k - 1], pivots[k])
  IN baked[n]
FreeEvery(g, pivots) ==
  LET n == Len(pivots)
      freed[k \in 0 .. n] ==
        IF k = 0 THEN g ELSE FreePivot(Acquire(freed[k - 1], pivots[k]), pivots[k])
  IN freed[n]

-----------------------------------------------------------------------------
(* The solver *)

\* A call of cks() and its search: how many edges it went through, the numerics in waiter,
\* the coefficients in symbolic_waiter, the heads of the edges it deleted, and the
\* elimination it found.  It solves for next once that is not None.
Call(i, d) == [pivot |-> i, despair |-> d, next |-> None, found |-> None,
               j |-> 0, waiting |-> {}, zeros |-> {}, gone |-> {}]

Depth == Len(stack)
Top == stack[Depth]
Lower == Front(stack)

\* The call on top goes on with f.
Continue(f) == stack' = [stack EXCEPT ![Depth] = f]

SetGraph(g) == refs' = g.refs /\ op' = g.op

Suitable(i, c, despair) ==
  /\ c \in Pivot \ {i}
  /\ \/ solved[c]
     \/ order[c] < order[i] /\ consideration[c] = 0
     \/ despair # 0 /\ despair >= consideration[c]

\* In the loop of cks() over the edges.
Searching ==
  /\ stack # <<>> /\ ~aborted /\ Top.next = None /\ Top.found = None
  /\ Top.j < Len(refs[Top.pivot]) \/ Top.waiting # {}

\* qs_terminal_group_pop takes any terminal that is finished, NULL only if there is none.
NoneFinished(s, waiting) == \A w \in waiting : ~s[w].done

\* The call f pops w; what becomes of the call and of the graph g.
Popped(f, g, w) ==
  LET i == f.pivot
      k == IndexByNumeric(g.refs[i], w)
      h == [g EXCEPT !.op = Finish(@, w)]
      t == TerminateCoefficient(h, i, k)
      rest == [f EXCEPT !.waiting = @ \ {w}]
  IN IF g.op[w].val # 0
     THEN {[call |-> [rest EXCEPT !.found = g.refs[i][k].head], graph |-> h]}
     ELSE IF elimination # "optimistic"
     THEN {[call |-> [rest EXCEPT !.zeros = @ \cup {t.refs[i][k].coefficient}], graph |-> t]}
     ELSE {[call  |-> [rest EXCEPT !.j = @ - 1, !.gone = @ \cup {g.refs[i][k].head}],
            graph |-> Delete(h, i, k, IF f.j < Len(g.refs[i]) THEN f.j ELSE 1, arrived)] :
             arrived \in BOOLEAN}

Pop(f, g) ==
  \E w \in f.waiting : \E r \in Popped(f, g, w) : Continue(r.call) /\ SetGraph(r.graph)

\* The search goes on to the next edge, and pops what may be there.
Look ==
  /\ Searching /\ Top.j < Len(refs[Top.pivot])
  /\ LET i == Top.pivot
         k == Top.j + 1
         suitable == Suitable(i, refs[i][k].head, Top.despair)
         g == IF suitable THEN TerminateNumeric(Graph, i, k) ELSE Graph
         f == [Top EXCEPT !.j = k,
                          !.waiting = IF suitable THEN @ \cup {g.refs[i][k].numeric} ELSE @]
     IN \/ Pop(f, g)
        \/ NoneFinished(g.op, f.waiting) /\ Continue(f) /\ SetGraph(g)
  /\ UNCHANGED <<metaVars, request, aborted, controlVars, ended>>

\* All edges were gone through: it waits.
Wait ==
  /\ Searching /\ Top.j >= Len(refs[Top.pivot])
  /\ Pop(Top, Graph)
  /\ UNCHANGED <<metaVars, request, aborted, controlVars, ended>>

\* Without an elimination the zeros are deleted once they are known as such.  As numerics
\* do not lie here, there is no false zero.
Confirm ==
  /\ stack # <<>> /\ ~aborted /\ Top.next = None /\ Top.found = None /\ ~Searching
  /\ \E z \in Top.zeros :
       LET i == Top.pivot
           g == [Graph EXCEPT !.op = Finish(@, z)]
           k == IndexByCoefficient(g.refs[i], z)
       IN /\ SetGraph(Delete(g, i, k, 1, TRUE))
          /\ Continue([Top EXCEPT !.zeros = @ \ {z}, !.gone = @ \cup {g.refs[i][k].head}])
  /\ UNCHANGED <<metaVars, request, aborted, controlVars, ended>>

\* Both loops are over.
Decided ==
  /\ stack # <<>> /\ ~aborted /\ Top.next = None /\ ~Searching
  /\ Top.found # None \/ Top.zeros = {}

\* The search of a call ends, and the next one begins with nothing.
Again(f) == Call(f.pivot, f.despair)

Eliminate ==
  /\ Decided /\ Top.found # None /\ ~terminate
  /\ solved'  = [solved EXCEPT ![Top.pivot] = FALSE]
  /\ touched' = [touched EXCEPT ![Top.pivot] = FALSE]
  /\ consideration' = [consideration EXCEPT ![Top.found] = @ + 1]
  /\ stack' = Append(Append(Lower, [Again(Top) EXCEPT !.next = Top.found]), Call(Top.found, 0))
  /\ UNCHANGED <<refs, op, order, request, aborted, controlVars, ended>>

\* Eliminated with a mistake: what was modified meanwhile is relayed all the same.
EliminatedObsolete ==
  /\ stack # <<>> /\ ~aborted /\ Top.next # None
  /\ consideration' = [consideration EXCEPT ![Top.next] = @ - 1]
  /\ LET i == Top.pivot IN
       /\ IF terminate
          THEN stack' = Lower /\ UNCHANGED <<refs, op, touched>>
          ELSE /\ SetGraph(CollectAll(Relay(Graph, i, Top.next), i))
               /\ touched' = [touched EXCEPT ![i] = TRUE]
               /\ Continue(Again(Top))
  /\ UNCHANGED <<order, solved, request, aborted, controlVars, ended>>

Eliminated ==
  /\ stack # <<>> /\ ~aborted /\ Top.next # None
  /\ consideration' = [consideration EXCEPT ![Top.next] = @ - 1]
  /\ IF terminate
     THEN stack' = Lower /\ UNCHANGED <<refs, op, touched>>
     ELSE LET i == Top.pivot IN
            /\ SetGraph(IF touched[i] THEN Graph
                        ELSE CollectAll(Relay(Graph, i, Top.next), i))
            /\ touched' = [touched EXCEPT ![i] = TRUE]
            /\ Continue(Again(Top))
  /\ UNCHANGED <<order, solved, request, aborted, controlVars, ended>>

Interrupted ==
  /\ Decided /\ terminate
  /\ stack' = Lower
  /\ UNCHANGED <<refs, op, metaVars, request, aborted, controlVars, ended>>

\* The end of a call that found nothing; g is the graph once the edge to itself is known.
Unmodified(i) ==
  /\ solved[i]
  /\ stack' = Lower
  /\ UNCHANGED <<refs, op, solved, aborted>>

SelfKnown(i) ==
  LET j == IndexOf(refs[i], i)
      g == TerminateNumeric(Graph, i, j)
  IN IF j = 0 THEN Graph ELSE [g EXCEPT !.op = Finish(@, g.refs[i][j].numeric)]

SelfZero(i) ==
  LET j == IndexOf(refs[i], i) IN j # 0 => op[refs[i][j].numeric].val = 0

Solvable(i) ==
  /\ ~solved[i] /\ ~SelfZero(i)
  /\ SetGraph(Normalize(SelfKnown(i), i))
  /\ solved' = [solved EXCEPT ![i] = TRUE]
  /\ stack' = Lower
  /\ UNCHANGED aborted

Widen(i) ==
  /\ ~solved[i] /\ SelfZero(i) /\ Top.despair < MaxDespair
  /\ SetGraph(SelfKnown(i))
  /\ Continue(Call(i, Top.despair + 1))
  /\ UNCHANGED <<solved, aborted>>

GiveUp(i) ==
  /\ ~solved[i] /\ SelfZero(i) /\ Top.despair = MaxDespair
  /\ SetGraph(SelfKnown(i))
  /\ aborted' = TRUE
  /\ Continue(Again(Top))
  /\ UNCHANGED solved

Conclude ==
  /\ Decided /\ Top.found = None /\ ~terminate
  /\ LET i == Top.pivot IN Unmodified(i) \/ Solvable(i) \/ Widen(i) \/ GiveUp(i)
  /\ UNCHANGED <<order, touched, consideration, request, controlVars, ended>>

-----------------------------------------------------------------------------
(* cks_solve and quicksolve.c *)

\* qs_terminal_load: an operand that is finished.
LoadedOperand(val, count) ==
  [kind |-> "terminal", args |-> <<>>, val |-> val, count |-> count,
   done |-> TRUE, dropped |-> FALSE, uses |-> 0]

\* qs_pivot_graph_meta: a loaded edge has one operand for both.
LoadEdge(g, i, head, val) ==
  LET o == Fresh(g.op) IN
  [refs |-> [g.refs EXCEPT ![i] = Append(@, Edge(head, o, o))],
   op   |-> Merge([n \in {o} |-> LoadedOperand(val, 2)], g.op)]
Load(g, i) ==
  LET heads == SetToSeq(DOMAIN system[i])
      n == Len(heads)
      loaded[k \in 0 .. n] ==
        IF k = 0 THEN g ELSE LoadEdge(loaded[k - 1], i, heads[k], system[i][heads[k]])
  IN loaded[n]
LoadEvery(g, pivots) ==
  LET n == Len(pivots)
      loaded[k \in 0 .. n] == IF k = 0 THEN g ELSE Load(loaded[k - 1], pivots[k])
  IN loaded[n]

Empty == [refs |-> [i \in Pivot |-> <<>>], op |-> [o \in {One} |-> LoadedOperand(MinusOne, 1)]]

Init ==
  /\ system \in Systems
  /\ LET g == LoadEvery(Empty, SetToSeq(Pivot)) IN refs = g.refs /\ op = g.op
  /\ elimination \in {"wait", "optimistic"}
  /\ order = Order
  /\ solved = [i \in Pivot |-> FALSE] /\ touched = [i \in Pivot |-> FALSE]
  /\ consideration = [i \in Pivot |-> 0]
  /\ stack = <<>>
  /\ request = None
  /\ terminate = FALSE /\ aborted = FALSE
  /\ ended = None

Solve(i) ==
  /\ stack = <<>> /\ request = None /\ ~terminate /\ ended = None
  /\ consideration' = [consideration EXCEPT ![i] = 1]
  /\ request' = i
  /\ stack' = <<Call(i, 1)>>
  /\ UNCHANGED <<refs, op, order, solved, touched, aborted, controlVars, ended>>

Solved ==
  /\ stack = <<>> /\ request # None
  /\ consideration' = [consideration EXCEPT ![request] = 0]
  /\ \/ UNCHANGED <<refs, op>>
     \/ ~terminate /\ SetGraph(Acquire(Graph, request))
  /\ request' = None
  /\ UNCHANGED <<order, solved, touched, stack, aborted, controlVars, ended>>

Signal ==
  /\ ~terminate /\ ~aborted /\ ended = None
  /\ terminate' = TRUE
  /\ UNCHANGED <<refs, op, metaVars, stack, request, aborted, elimination, system, ended>>

\* The rows there are: what edges to one head amount to.  The edges a search deleted
\* count as zeros up to its end.
Gone(i) == IF stack # <<>> /\ Top.pivot = i THEN Top.gone ELSE {}
Heads(i) == {refs[i][k].head : k \in DOMAIN refs[i]}
RowOf(i) ==
  [h \in Heads(i) \cup Gone(i) |->
     LET K == {k \in DOMAIN refs[i] : refs[i][k].head = h}
     IN SumOf([k \in K |-> op[refs[i][k].coefficient].val], K) % P]
Rows == IF ended # None THEN ended ELSE [i \in Pivot |-> RowOf(i)]

\* qs_pivot_graph_destroy
Destroy ==
  /\ stack = <<>> /\ request = None /\ ended = None
  /\ LET pivots == SetToSeq(Pivot)
         freed == FreeEvery(TerminateEvery(Graph, pivots), pivots)
     IN SetGraph([freed EXCEPT !.op = Unref(@, One)])
  /\ ended' = Rows
  /\ UNCHANGED <<metaVars, stack, request, aborted, controlVars>>

Over == (aborted \/ ended # None) /\ UNCHANGED vars

Step == Look \/ Wait \/ Confirm \/ Eliminate \/ Eliminated \/ Interrupted \/ Conclude

Next == Step \/ Solved \/ Signal \/ Destroy \/ Over \/ \E i \in Requests : Solve(i)

Spec == Init /\ [][Next]_vars

-----------------------------------------------------------------------------
(* What has to hold *)

\* How often o is referred to: by edges, by expressions, by the worker that is going to
\* drop it, and by the graph.
References(o) ==
  SumOf([i \in Pivot |-> EdgeUses(refs[i], o)], Pivot)
  + Uses(op, DOMAIN op, o)
  + (IF op[o].dropped /\ ~op[o].done THEN 1 ELSE 0)
  + (IF o = One /\ ended = None THEN 1 ELSE 0)

\* Every operand an edge or an expression refers to is there, and it is counted as often
\* as it is referred to: no operation of pivotgraph.c loses or takes too many references.
CountsExact ==
  /\ \A o \in DOMAIN op : op[o].count = References(o)
  /\ \A i \in Pivot : \A k \in DOMAIN refs[i] :
       {refs[i][k].coefficient, refs[i][k].numeric} \subseteq DOMAIN op
  /\ \A o \in DOMAIN op : ToSet(op[o].args) \subseteq DOMAIN op

\* assert( target->is_result ) in qs_operand_unref: what is not finished is not destroyed.
NoneDangling == \A o \in DOMAIN op : op[o].count > 0

\* assert( !next->debug_used ): an expression that was not baked has one user.
UsedOnce == \A o \in DOMAIN op : op[o].uses <= 1

\* The first edge to a head is the only one, so that relaying, normalizing and finding an
\* operand by its place miss nothing, and collecting never needs more than it allocated at
\* first.  The numerics that decide the search stand for the coefficients next to them.
EdgesWhole ==
  \A i \in Pivot :
    /\ Cardinality(Heads(i)) = Len(refs[i])
    /\ \A k \in DOMAIN refs[i] : op[refs[i][k].coefficient].val = op[refs[i][k].numeric].val

\* While edges are deleted from the array, the search misses none and looks at none twice:
\* before j, it waits for the suitable ones or knows them as zeros; from j on it does not.
SearchComplete ==
  stack # <<>> /\ ~aborted /\ Top.next = None /\ Top.found = None =>
    LET i == Top.pivot
        edges == refs[i]
        Seen(k) == edges[k].numeric \in Top.waiting \/ edges[k].coefficient \in Top.zeros
    IN /\ \A k \in DOMAIN edges :
            Seen(k) <=> k <= Top.j /\ Suitable(i, edges[k].head, Top.despair)
       /\ Cardinality(Top.waiting) + Cardinality(Top.zeros)
            = Cardinality({k \in DOMAIN edges : Seen(k)})

\* Each step is one of the solver of module CKS on rows, or none: whatever order results
\* arrive in and however the array is rearranged, the rows are those of the algorithm.
Abstract(e) ==
  INSTANCE CKS WITH
    Elimination <- e, row <- Rows,
    stack <- [k \in DOMAIN stack |->
                [pivot |-> stack[k].pivot, despair |-> stack[k].despair, next |-> stack[k].next]]

ImplementsCKS ==
  [][\E e \in {elimination} : Abstract(e)!Next \/ UNCHANGED Abstract(e)!vars]_vars
=============================================================================
