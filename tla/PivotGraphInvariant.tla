------------------------ MODULE PivotGraphInvariant ------------------------
(***************************************************************************)
(* The inductive invariant of the pivot graph: its operands are counted as *)
(* often as they are referred to, and what is not finished belongs to one  *)
(* edge or one expression only; its edges have heads of their own; and the *)
(* search of the call on top of the stack knows where it is.               *)
(***************************************************************************)
EXTENDS PivotGraph

-----------------------------------------------------------------------------
(* Operands.  H[o] is how often o is referred to by what is no operand itself. *)

Operand == [kind : {"link", "terminal"}, args : Seq(Nat), val : Coefficient, count : Nat,
            done : BOOLEAN, dropped : BOOLEAN, uses : Nat]

\* The reference a worker is going to give back.
Drop(s, o) == IF s[o].dropped /\ ~s[o].done THEN 1 ELSE 0

Store(s) ==
  /\ IsFiniteSet(DOMAIN s) /\ DOMAIN s \subseteq Nat /\ s \in [DOMAIN s -> Operand]
  /\ \A o \in DOMAIN s : /\ s[o].args \in Seq(DOMAIN s)
                         /\ s[o].done => s[o].args = <<>>
                         /\ ~IsTerminal(s, o) => ~s[o].done /\ ~s[o].dropped
                         /\ IsTerminal(s, o) => s[o].uses = 0

Counted(s, H) ==
  /\ H \in [Nat -> Nat]
  /\ \A o \in DOMAIN s : s[o].count = Uses(s, DOMAIN s, o) + Drop(s, o) + H[o]
  /\ \A o \in Nat \ DOMAIN s : H[o] = 0

\* What is not finished is referred to once at most, or has been used, or was discarded.
Single(s, H) == \A o \in DOMAIN s : ~s[o].done => s[o].uses + H[o] + Drop(s, o) <= 1

Sound(s, H) == Store(s) /\ Counted(s, H) /\ Single(s, H)

-----------------------------------------------------------------------------
(* Edges.  L[o] is how often o is referred to by what is neither operand nor edge. *)

Edges == [head : Integral, coefficient : Nat, numeric : Nat]

Outside(r, L) == [o \in Nat |-> SumOf([i \in Pivot |-> EdgeUses(r[i], o)], Pivot) + L[o]]

\* The numeric stands for the coefficient next to it.
Agree(g) ==
  \A i \in Pivot : \A k \in DOMAIN g.refs[i] :
    g.op[g.refs[i][k].coefficient].val = g.op[g.refs[i][k].numeric].val

Ends(e) == {e.coefficient, e.numeric}

\* No two edges have an operand in common but the one that the graph was created with,
\* and that belongs to edges of pivots to themselves.
Apart(r) ==
  \A i, n \in Pivot : \A k \in DOMAIN r[i], m \in DOMAIN r[n] :
    /\ One \in Ends(r[i][k]) => r[i][k].head = i
    /\ <<i, k>> # <<n, m>> => Ends(r[i][k]) \cap Ends(r[n][m]) \subseteq {One}

\* The operand that the graph was created with is there, and finished.
Whole(g, L) ==
  /\ g = [refs |-> g.refs, op |-> g.op]
  /\ g.refs \in [Pivot -> Seq(Edges)]
  /\ L \in [Nat -> Nat] /\ L[One] >= 1
  /\ Sound(g.op, Outside(g.refs, L)) /\ g.op[One].done
  /\ Agree(g) /\ Apart(g.refs)

\* Of each head there is one edge at most.
HeadsApart(edges) == \A k, m \in DOMAIN edges : edges[k].head = edges[m].head => k = m

\* The reference that the graph has on its one, and what is left of it in the end.
Kept == [o \in Nat |-> IF o = One THEN 1 ELSE 0]
Nothing == [o \in Nat |-> 0]

-----------------------------------------------------------------------------
(* The solver *)

Calls == [pivot : Pivot, despair : Nat, next : Pivot \cup {None}, found : Pivot \cup {None},
          j : Nat, waiting : SUBSET Nat, zeros : SUBSET Nat, gone : SUBSET Integral]

TypeOK ==
  /\ system \in [Pivot -> Row] /\ order \in [Pivot -> Nat]
  /\ solved \in [Pivot -> BOOLEAN] /\ touched \in [Pivot -> BOOLEAN]
  /\ consideration \in [Pivot -> Int]
  /\ stack \in Seq(Calls) /\ request \in Pivot \cup {None}
  /\ elimination \in {"wait", "optimistic"}
  /\ terminate \in BOOLEAN /\ aborted \in BOOLEAN

\* Only the call on top is searching, the others are solving for another pivot.
SearchOnTop ==
  \A k \in 1 .. Len(stack) :
    /\ stack[k].next # stack[k].pivot /\ stack[k].found # stack[k].pivot
    /\ stack[k].next # None => /\ stack[k].found = None /\ stack[k].j = 0
                               /\ stack[k].waiting = {} /\ stack[k].zeros = {}
                               /\ stack[k].gone = {}
    /\ k < Len(stack) => stack[k].next = stack[k + 1].pivot

\* Edge k of those the call f searches is waited for, or is known to be zero.
Seen(g, f, k) ==
  g.refs[f.pivot][k].numeric \in f.waiting \/ g.refs[f.pivot][k].coefficient \in f.zeros

\* What the call f waits for belongs to edges, ...
WaitsForEdges(g, f) ==
  \A w \in f.waiting : \E k \in DOMAIN g.refs[f.pivot] :
    g.refs[f.pivot][k].numeric = w /\ IsTerminal(g.op, w)

\* ... and so do its zeros, whose numerics have arrived.
ZerosOfEdges(g, f) ==
  \A z \in f.zeros : \E k \in DOMAIN g.refs[f.pivot] :
    LET e == g.refs[f.pivot][k] IN
    /\ e.coefficient = z /\ IsTerminal(g.op, z) /\ g.op[z].val = 0
    /\ IsTerminal(g.op, e.numeric) /\ g.op[e.numeric].done /\ e.numeric \notin f.waiting

\* It has seen the edges it went through to heads in S, the suitable ones.
SeesSuitable(g, f, S) ==
  f.next = None /\ f.found = None =>
    \A k \in DOMAIN g.refs[f.pivot] :
      Seen(g, f, k) <=> k <= f.j /\ g.refs[f.pivot][k].head \in S

SearchOf(g, f, S) == WaitsForEdges(g, f) /\ ZerosOfEdges(g, f) /\ SeesSuitable(g, f, S)

SuitableFor(f) == {c \in Pivot : Suitable(f.pivot, c, f.despair)}

SearchSound == stack # <<>> => SearchOf(Graph, Top, SuitableFor(Top))

\* While the graph is there it is whole, and in the end nothing refers to an operand.
GraphSound ==
  IF ended = None THEN Whole(Graph, Kept) /\ \A i \in Pivot : HeadsApart(refs[i])
  ELSE refs = [i \in Pivot |-> <<>>] /\ Sound(op, Nothing) /\ stack = <<>> /\ request = None

IInv == TypeOK /\ SearchOnTop /\ GraphSound /\ SearchSound
=============================================================================
