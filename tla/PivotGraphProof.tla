-------------------------- MODULE PivotGraphProof ---------------------------
(***************************************************************************)
(* The invariant of the pivot graph, proved: what the operations that make *)
(* edges anew do to the whole graph (relay, collect, load, eliminate), what *)
(* each step does to the search of the call on top of the stack, and that  *)
(* every step of the solver preserves the invariant.                       *)
(***************************************************************************)
EXTENDS PivotGraphOperands

\* The base of qs_pivot_graph_relay, which the graph does not refer to any more.
Base(s, B, M) ==
  /\ B \in Edges /\ M[B.coefficient] >= 1 /\ M[B.numeric] >= 1
  /\ IsTerminal(s, B.coefficient) /\ IsTerminal(s, B.numeric) /\ s[B.coefficient].val = s[B.numeric].val

LEMMA BaseKept ==
  ASSUME NEW s, NEW t, NEW B, NEW M, Base(s, B, M), Keeps(s, t, M)
  PROVE  Base(t, B, M)
<1>1. B.coefficient \in Nat /\ B.numeric \in Nat
  BY DEF Base, Edges
<1>. QED BY <1>1 DEF Base, Keeps, IsTerminal

\* The heads are what they were but for those of one pivot.
HeadsBut(r, q, tail) ==
  \A p \in Pivot : p # tail =>
    Len(q[p]) = Len(r[p]) /\ \A k \in 1 .. Len(r[p]) : q[p][k].head = r[p][k].head

LEMMA HeadsButOn ==
  ASSUME NEW r, NEW q, NEW t, NEW tail, HeadsBut(r, q, tail), HeadsBut(q, t, tail)
  PROVE  HeadsBut(r, t, tail)
BY DEF HeadsBut

LEMMA HeadsButSame ==
  ASSUME NEW r, NEW q, NEW tail, SameHeads(r, q)
  PROVE  HeadsBut(r, q, tail)
BY DEF HeadsBut, SameHeads

LEMMA HeadsButRow ==
  ASSUME NEW r, NEW q, NEW tail, \A p \in Pivot : p # tail => q[p] = r[p]
  PROVE  HeadsBut(r, q, tail)
BY DEF HeadsBut

\* Two products of terminals are linked.
Product(s, b, H, c, n, c2, n2, u, v, f, m) ==
  /\ Sound(b, More(H, f, m)) /\ Later(s, b)
  /\ f \in Nat /\ m \in Nat /\ f # m /\ f \notin DOMAIN s /\ m \notin DOMAIN s
  /\ b[f].val = u % P /\ b[m].val = v % P

Terminals(s, os) == \A o \in os : o \in DOMAIN s /\ IsTerminal(s, o)

LEMMA PairOf ==
  ASSUME NEW s, NEW x, NEW y, Terminals(s, {x, y})
  PROVE  TerminalArguments(s, <<x, y>>)
<1>1. x \in DOMAIN s /\ y \in DOMAIN s /\ IsTerminal(s, x) /\ IsTerminal(s, y)
  BY DEF Terminals
<1>2. ASSUME NEW k \in 1 .. Len(<<x, y>>) PROVE <<x, y>>[k] \in {x, y}
  <2>1. k = 1 \/ k = 2
    OBVIOUS
  <2>. QED BY <2>1
<1>. QED BY <1>1, <1>2 DEF TerminalArguments

LEMMA SameTerminals ==
  ASSUME NEW s, NEW t, NEW os, Terminals(s, os), DOMAIN s \subseteq DOMAIN t, \A o \in DOMAIN s : Same(s, t, o)
  PROVE  Terminals(t, os)
BY DEF Terminals, Same, IsTerminal

\* The product of a limb with the base is a new expression.
LEMMA ProductSound ==
  ASSUME NEW s, NEW H, Sound(s, H), NEW c, NEW n, NEW c2, NEW n2, Terminals(s, {c, n, c2, n2}),
         NEW u \in Int, NEW v \in Int, NEW a, a = Link(s, <<c, c2>>, u), NEW b, b = Link(a, <<n, n2>>, v)
  PROVE  Product(s, b, H, c, n, c2, n2, u, v, Fresh(s), Fresh(a))
<1>. DEFINE f == Fresh(s)
            m == Fresh(a)
            K == [x \in Nat |-> H[x] + Is(f, x)]
            N == More(H, f, m)
            cs == <<c, c2>>
            ns == <<n, n2>>
<1>1. H \in [Nat -> Nat] /\ \A x, y : Is(x, y) \in Nat
  BY DEF Sound, Counted, Is
<1>2. TerminalArguments(s, cs)
  <2>1. Terminals(s, {c, c2})
    BY DEF Terminals
  <2>. QED BY <2>1, PairOf
<1>3. Added(H, f, K)
  BY <1>1 DEF Added
<1>4. a = Link(s, cs, u) /\ b = Link(a, ns, v)
  OBVIOUS
<1>. HIDE DEF K, cs, ns
<1>5. /\ Sound(a, K) /\ DOMAIN a = DOMAIN s \cup {f} /\ f \in Nat /\ f \notin DOMAIN s
      /\ a[f].val = u % P /\ \A o \in DOMAIN s : Same(s, a, o)
  <2>1. LinkMade(s, a, K, f, u)
    BY <1>2, <1>3, <1>4, LinkSound
  <2>. HIDE DEF f
  <2>. QED BY <2>1 DEF LinkMade
<1>6. TerminalArguments(a, ns)
  <2>1. Terminals(s, {n, n2})
    BY DEF Terminals
  <2>2. Terminals(a, {n, n2})
    BY <1>5, <2>1, SameTerminals
  <2>. QED BY <2>2, PairOf DEF ns
<1>7. Added(K, m, N)
  BY <1>1 DEF Added, K, More
<1>. HIDE DEF f, m, N
<1>8. /\ Sound(b, N) /\ DOMAIN b = DOMAIN a \cup {m} /\ m \in Nat /\ m \notin DOMAIN a
      /\ b[m].val = v % P /\ \A o \in DOMAIN a : Same(a, b, o)
  <2>1. LinkMade(a, b, N, m, v)
    BY <1>4, <1>5, <1>6, <1>7, LinkSound DEF m
  <2>. QED BY <2>1 DEF LinkMade
<1>9. Later(s, b)
  <2>1. ASSUME NEW o \in DOMAIN s \cap DOMAIN b
        PROVE  b[o].kind = s[o].kind /\ b[o].val = s[o].val /\ (s[o].done => b[o].done)
    <3>1. o \in DOMAIN s /\ o \in DOMAIN a
      BY <1>5
    <3>2. Same(s, a, o) /\ Same(a, b, o)
      BY <1>5, <1>8, <3>1
    <3>. QED BY <3>2 DEF Same
  <2>. QED BY <2>1 DEF Later
<1>10. f \in DOMAIN a /\ f # m /\ m \notin DOMAIN s
  BY <1>5, <1>8
<1>11. b[f].val = u % P
  BY <1>5, <1>8, <1>10 DEF Same
<1>. QED BY <1>5, <1>8, <1>9, <1>10, <1>11 DEF Product, f, m, N

\* A row of a graph after an edge with a product was appended.
LEMMA AppendOutside ==
  ASSUME NEW r \in [Pivot -> Seq(Edges)], NEW M \in [Nat -> Nat], NEW i \in Pivot, NEW e \in Edges
  PROVE  Outside([r EXCEPT ![i] = Append(r[i], e)], M) = More(Outside(r, M), e.coefficient, e.numeric)
<1>. DEFINE es == Append(r[i], e)
            q == [r EXCEPT ![i] = es]
            K == Outside(q, M)
            H == Outside(r, M)
<1>1. es \in Seq(Edges) /\ q \in [Pivot -> Seq(Edges)] /\ r[i] \in Seq(Edges)
  OBVIOUS
<1>2. K \in [Nat -> Nat] /\ H \in [Nat -> Nat]
  BY <1>1, OutsideIs
<1>3. ASSUME NEW x \in Nat PROVE K[x] = H[x] + Is(e.coefficient, x) + Is(e.numeric, x)
  <2>1. RowChanged(r, M, M, i, es, x)
    BY <1>1, OutsideChange
  <2>2. EdgeUses(es, x) = EdgeUses(r[i], x) + Touches(e, x)
    BY <1>1, EdgeUsesAppend
  <2>. DEFINE a == H[x]
              b == K[x]
              p == EdgeUses(r[i], x)
              q2 == EdgeUses(es, x)
              l == M[x]
              y == Is(e.coefficient, x)
              z == Is(e.numeric, x)
  <2>3. b = a - p + q2 - l + l /\ p \in Nat /\ q2 \in Nat
    BY <2>1 DEF RowChanged
  <2>4. q2 = p + (y + z)
    BY <2>2 DEF Touches
  <2>5. a \in Nat /\ b \in Nat /\ l \in Nat /\ y \in Nat /\ z \in Nat
    BY <1>2 DEF Is
  <2>. HIDE DEF a, b, p, q2, l, y, z
  <2>6. b = a + y + z
    BY <2>3, <2>4, <2>5
  <2>. QED BY <2>6 DEF a, b, y, z
<1>4. K = [x \in Nat |-> H[x] + Is(e.coefficient, x) + Is(e.numeric, x)]
  <2>1. K = [x \in Nat |-> K[x]]
    BY <1>2
  <2>. HIDE DEF K, H
  <2>. QED BY <1>3, <2>1
<1>. QED BY <1>4 DEF More

\* One edge of head is relayed over.
Relayed(g, y, M, tail) == Onward(g, y, M) /\ HeadsBut(g.refs, y.refs, tail)

\* One step of the loop of qs_pivot_graph_relay.
LEMMA RelayLimbSound ==
  ASSUME NEW g, NEW M, Whole(g, M), NEW tail \in Pivot, NEW head \in Pivot, head # tail,
         NEW k \in 1 .. Len(g.refs[head]), NEW B, Base(g.op, B, M)
  PROVE  Relayed(g, RelayLimb(g, tail, head, k, B), M, tail)
<1>. DEFINE h == TerminateEdge(g, head, k)
            e == h.refs[head][k]
            u == h.op[e.coefficient].val * h.op[B.coefficient].val
            v == h.op[e.numeric].val * h.op[B.numeric].val
            a == Link(h.op, <<e.coefficient, B.coefficient>>, u)
            b == Link(a, <<e.numeric, B.numeric>>, v)
            f == Fresh(h.op)
            m == Fresh(a)
            E == Edge(e.head, f, m)
            H == Outside(h.refs, M)
            y == [refs |-> [h.refs EXCEPT ![tail] = Append(h.refs[tail], E)], op |-> b]
<1>1. CASE g.refs[head][k].head = head
  <2>1. RelayLimb(g, tail, head, k, B) = g
    BY <1>1, Zenon DEF RelayLimb
  <2>2. HeadsBut(g.refs, g.refs, tail)
    BY DEF HeadsBut
  <2>. QED BY <2>1, <2>2, OnwardIs DEF Relayed
<1>2. CASE g.refs[head][k].head # head
  <2>1. RelayLimb(g, tail, head, k, B) = y
    BY <1>2 DEF RelayLimb, AddProduct
  <2>2. EdgeBaked(g, h, M, head, k)
    BY EdgeIsBaked
  <2>. HIDE DEF h
  <2>3. Whole(h, M) /\ AtEdge(g, h, head, k) /\ Keeps(g.op, h.op, M) /\ Baked(h, head, k)
    BY <2>2 DEF EdgeBaked
  <2>4. k \in 1 .. Len(h.refs[head])
    BY <2>3 DEF AtEdge
  <2>5. FineEdge(h, head, k)
    BY <2>3, <2>4, WholeEdge
  <2>6. Base(h.op, B, M)
    BY <2>3, BaseKept
  <2>7. /\ e \in Edges /\ e.coefficient \in DOMAIN h.op /\ e.numeric \in DOMAIN h.op
        /\ h.op[e.coefficient].val = h.op[e.numeric].val
    BY <2>5 DEF FineEdge
  <2>8. B.coefficient \in DOMAIN h.op /\ B.numeric \in DOMAIN h.op /\ h.op[B.coefficient].val = h.op[B.numeric].val
    <3>1. B.coefficient \in Nat /\ B.numeric \in Nat
      BY <2>6 DEF Base, Edges
    <3>. QED BY <2>3, <2>6, <3>1 DEF Base, Keeps
  <2>9. Terminals(h.op, {e.coefficient, e.numeric, B.coefficient, B.numeric})
    BY <2>3, <2>6, <2>7, <2>8 DEF Terminals, Baked, Base
  <2>10. u \in Int /\ v = u
    <3>. DEFINE p == h.op[e.coefficient].val
                q == h.op[B.coefficient].val
    <3>1. p \in Coefficient /\ q \in Coefficient
      BY <2>3, <2>7, <2>8, StoreIs, WholeIs
    <3>2. p \in Int /\ q \in Int
      BY <3>1, ModuloIs
    <3>3. v = p * q
      BY <2>7, <2>8
    <3>. HIDE DEF p, q
    <3>4. u = p * q
      BY DEF p, q
    <3>5. p * q \in Int
      BY <3>2
    <3>. QED BY <3>3, <3>4, <3>5
  <2>11. /\ h.refs \in [Pivot -> Seq(Edges)] /\ M \in [Nat -> Nat] /\ Sound(h.op, H) /\ M[One] >= 1
    BY <2>3, WholeIs DEF Whole
  <2>. HIDE DEF u, v
  <2>12. Product(h.op, b, H, e.coefficient, e.numeric, B.coefficient, B.numeric, u, v, f, m)
    <3>1. a = Link(h.op, <<e.coefficient, B.coefficient>>, u) /\ b = Link(a, <<e.numeric, B.numeric>>, v)
      OBVIOUS
    <3>. HIDE DEF a, b, H, e
    <3>. QED BY <2>9, <2>10, <2>11, <3>1, ProductSound
  <2>. HIDE DEF f, m, b
  <2>13. /\ Sound(b, More(H, f, m)) /\ Later(h.op, b) /\ f \in Nat /\ m \in Nat
         /\ f \notin DOMAIN h.op /\ m \notin DOMAIN h.op /\ b[f].val = b[m].val
    BY <2>10, <2>12 DEF Product
  <2>14. E \in Edges /\ E.coefficient = f /\ E.numeric = m /\ Ends(E) = {f, m}
    BY <2>7, <2>13 DEF Edge, Edges, Ends
  <2>. HIDE DEF E, e
  <2>15. y = Appended(h, tail, E, b)
    BY DEF Appended
  <2>16. Whole(y, M)
    <3>1. Sound(b, Outside(Appended(h, tail, E, b).refs, M))
      <4>1. Outside([h.refs EXCEPT ![tail] = Append(h.refs[tail], E)], M) = More(H, f, m)
        BY <2>11, <2>14, AppendOutside
      <4>2. Appended(h, tail, E, b).refs = [h.refs EXCEPT ![tail] = Append(h.refs[tail], E)]
        BY DEF Appended
      <4>. HIDE DEF H
      <4>. QED BY <2>13, <4>1, <4>2
    <3>2. b[E.coefficient].val = b[E.numeric].val /\ Ends(E) \cap DOMAIN h.op = {}
      BY <2>13, <2>14
    <3>. HIDE DEF H, y
    <3>. QED BY <2>3, <2>11, <2>13, <2>14, <2>15, <3>1, <3>2, AppendSound
  <2>17. y.op = b /\ \A p \in Pivot : p # tail => y.refs[p] = h.refs[p]
    BY <2>11
  <2>. HIDE DEF y
  <2>18. Onward(g, y, M)
    <3>1. Keeps(h.op, y.op, M)
      BY <2>3, <2>13, <2>16, <2>17, KeepsIs
    <3>. QED BY <2>3, <2>16, <3>1, KeepsOn DEF Onward
  <2>19. HeadsBut(g.refs, y.refs, tail)
    <3>1. SameHeads(g.refs, h.refs)
      BY <2>3, AtSameHeads
    <3>. QED BY <2>17, <3>1, HeadsButOn, HeadsButSame, HeadsButRow
  <2>. QED BY <2>1, <2>18, <2>19 DEF Relayed
<1>. QED BY <1>1, <1>2

\* How qs_pivot_graph_relay goes through the edges of head.
Relaying(f, g, tail, head, base, n) == f[0] = g /\ \A k \in 1 .. n : f[k] = RelayLimb(f[k - 1], tail, head, k, base)

\* The loop of qs_pivot_graph_relay has a table of its intermediate graphs.
LEMMA RelayingIs ==
  ASSUME NEW g, NEW tail, NEW head, NEW base, Len(g.refs[head]) \in Nat
  PROVE  \E f : Relaying(f, g, tail, head, base, Len(g.refs[head])) /\ RelayLimbs(g, tail, head, base) = f[Len(g.refs[head])]
<1>. DEFINE n == Len(g.refs[head])
            IsIt(f, m) == f = [k \in 0 .. m |-> IF k = 0 THEN g ELSE RelayLimb(f[k - 1], tail, head, k, base)]
            Good == {m \in Nat : \E f : IsIt(f, m)}
<1>1. 0 \in Good
  <2>. DEFINE h == [k \in 0 .. 0 |-> g]
  <2>1. \A k \in 0 .. 0 : h[k] = IF k = 0 THEN g ELSE RelayLimb(h[k - 1], tail, head, k, base)
    OBVIOUS
  <2>2. IsIt(h, 0)
    BY <2>1
  <2>. QED BY <2>2
<1>2. ASSUME NEW m \in 0 .. (n - 1), m \in Good PROVE m + 1 \in Good
  <2>1. PICK f : IsIt(f, m)
    BY <1>2
  <2>. DEFINE h == [k \in 0 .. (m + 1) |-> IF k = m + 1 THEN RelayLimb(f[m], tail, head, (m + 1), base) ELSE f[k]]
  <2>2. \A k \in 0 .. m : h[k] = f[k] /\ f[k] = IF k = 0 THEN g ELSE RelayLimb(f[k - 1], tail, head, k, base)
    BY <2>1
  <2>3. h[m + 1] = RelayLimb(f[m], tail, head, (m + 1), base)
    OBVIOUS
  <2>4. ASSUME NEW k \in 0 .. (m + 1) PROVE h[k] = IF k = 0 THEN g ELSE RelayLimb(h[k - 1], tail, head, k, base)
    <3>1. CASE k = 0
      <4>1. 0 \in 0 .. m
        OBVIOUS
      <4>2. h[0] = g
        BY <2>2, <4>1
      <4>. HIDE DEF h
      <4>. QED BY <3>1, <4>2
    <3>2. CASE k \in 1 .. m
      <4>1. k \in 0 .. m /\ k - 1 \in 0 .. m /\ k # 0
        BY <3>2
      <4>2. h[k] = f[k] /\ f[k] = RelayLimb(f[k - 1], tail, head, k, base) /\ h[k - 1] = f[k - 1]
        BY <2>2, <4>1
      <4>. HIDE DEF h
      <4>. QED BY <4>1, <4>2
    <3>3. CASE k = m + 1
      <4>1. k # 0 /\ k - 1 = m /\ m \in 0 .. m
        BY <3>3
      <4>2. h[k - 1] = f[m]
        BY <2>2, <4>1
      <4>. HIDE DEF h
      <4>. QED BY <2>3, <3>3, <4>1, <4>2
    <3>. QED BY <3>1, <3>2, <3>3
  <2>5. IsIt(h, m + 1)
    <3>1. h = [k \in 0 .. (m + 1) |-> h[k]]
      OBVIOUS
    <3>. HIDE DEF h
    <3>. QED BY <2>4, <3>1
  <2>6. m + 1 \in Nat
    OBVIOUS
  <2>. HIDE DEF IsIt
  <2>. QED BY <2>5, <2>6
<1>3. n \in Good
  <2>. HIDE DEF Good
  <2>. QED BY <1>1, <1>2, StepByStep
<1>. DEFINE c == CHOOSE f : IsIt(f, n)
<1>4. IsIt(c, n)
  BY <1>3
<1>5. RelayLimbs(g, tail, head, base) = c[n]
  BY Zenon DEF RelayLimbs
<1>6. Relaying(c, g, tail, head, base, n)
  <2>1. n \in Nat
    OBVIOUS
  <2>2. \A k \in 0 .. n : c[k] = IF k = 0 THEN g ELSE RelayLimb(c[k - 1], tail, head, k, base)
    BY <1>4
  <2>. HIDE DEF c, n, IsIt
  <2>3. 0 \in 0 .. n /\ \A k \in 1 .. n : k \in 0 .. n /\ k # 0
    BY <2>1
  <2>4. c[0] = g
    BY <2>2, <2>3
  <2>5. \A k \in 1 .. n : c[k] = RelayLimb(c[k - 1], tail, head, k, base)
    BY <2>2, <2>3
  <2>. QED BY <2>4, <2>5 DEF Relaying
<1>. QED BY <1>5, <1>6

\* All edges of head are relayed over.
LEMMA RelayLimbsSound ==
  ASSUME NEW g, NEW M, Whole(g, M), NEW tail \in Pivot, NEW head \in Pivot, head # tail, NEW B, Base(g.op, B, M)
  PROVE  Relayed(g, RelayLimbs(g, tail, head, B), M, tail)
<1>. DEFINE n == Len(g.refs[head])
<1>1. n \in Nat
  BY WholeIs, RowIs
<1>2. PICK f : Relaying(f, g, tail, head, B, n) /\ RelayLimbs(g, tail, head, B) = f[n]
  BY <1>1, RelayingIs
<1>. HIDE DEF n
<1>. DEFINE Fine(k) == Relayed(g, f[k], M, tail)
            Good == {k \in Nat : k <= n => Fine(k)}
<1>3. 0 \in Good
  <2>1. f[0] = g
    BY <1>2 DEF Relaying
  <2>2. HeadsBut(g.refs, g.refs, tail)
    BY DEF HeadsBut
  <2>3. Relayed(g, g, M, tail)
    BY <2>2, OnwardIs DEF Relayed
  <2>. QED BY <2>1, <2>3
<1>4. ASSUME NEW k \in 0 .. (n - 1), k \in Good PROVE k + 1 \in Good
  <2>1. Fine(k) /\ k \in Nat /\ k + 1 \in 1 .. n /\ k + 1 \in Nat
    BY <1>1, <1>4
  <2>2. f[k + 1] = RelayLimb(f[k], tail, head, k + 1, B)
    <3>1. \A x \in 1 .. n : f[x] = RelayLimb(f[x - 1], tail, head, x, B)
      BY <1>2 DEF Relaying
    <3>2. k + 1 - 1 = k
      OBVIOUS
    <3>. QED BY <2>1, <3>1, <3>2
  <2>3. Whole(f[k], M) /\ Keeps(g.op, f[k].op, M) /\ HeadsBut(g.refs, f[k].refs, tail)
    BY <2>1 DEF Relayed, Onward
  <2>4. Base(f[k].op, B, M)
    BY <2>3, BaseKept
  <2>5. k + 1 \in 1 .. Len(f[k].refs[head])
    BY <2>1, <2>3 DEF HeadsBut, n
  <2>6. Relayed(f[k], f[k + 1], M, tail)
    BY <2>2, <2>3, <2>4, <2>5, RelayLimbSound
  <2>7. Fine(k + 1)
    BY <2>1, <2>6, OnwardOn, HeadsButOn DEF Relayed
  <2>. HIDE DEF Fine
  <2>. QED BY <2>1, <2>7
<1>5. n \in Good
  <2>. HIDE DEF Good
  <2>. QED BY <1>1, <1>3, <1>4, StepByStep
<1>6. Fine(n)
  BY <1>1, <1>5
<1>. QED BY <1>2, <1>6

\* What a removed edge had becomes the base.
LEMMA BaseIs ==
  ASSUME NEW h, NEW L, Whole(h, L), NEW i \in Pivot, NEW j \in 1 .. Len(h.refs[i]), Baked(h, i, j),
         NEW M, Inherited(L, h.refs[i][j], M)
  PROVE  Whole(Removed(h, i, j), M) /\ Base(h.op, h.refs[i][j], M)
<1>. DEFINE B == h.refs[i][j]
<1>1. Whole(Removed(h, i, j), M)
  BY RemoveSound
<1>2. FineEdge(h, i, j) /\ L \in [Nat -> Nat]
  BY WholeIs, WholeEdge
<1>3. B \in Edges /\ h.op[B.coefficient].val = h.op[B.numeric].val
  BY <1>2 DEF FineEdge
<1>. HIDE DEF B
<1>4. B.coefficient \in Nat /\ B.numeric \in Nat /\ B.coefficient \in Ends(B) /\ B.numeric \in Ends(B)
  BY <1>3 DEF Edges, Ends
<1>5. \A o \in Nat : M[o] = L[o] + Touches(B, o)
  BY DEF Inherited, B
<1>6. ASSUME NEW o \in Ends(B), o \in Nat PROVE M[o] >= 1
  <2>1. Touches(B, o) \in Nat /\ Touches(B, o) >= 1
    BY <1>6, TouchesIs
  <2>2. L[o] \in Nat /\ M[o] = L[o] + Touches(B, o)
    BY <1>2, <1>5, <1>6
  <2>. DEFINE a == L[o]
              b == Touches(B, o)
  <2>. HIDE DEF a, b
  <2>3. a \in Nat /\ b \in Nat /\ b >= 1 /\ M[o] = a + b
    BY <2>1, <2>2 DEF a, b
  <2>. QED BY <2>3
<1>7. IsTerminal(h.op, B.coefficient) /\ IsTerminal(h.op, B.numeric)
  BY DEF Baked, B
<1>8. Base(h.op, B, M)
  BY <1>3, <1>4, <1>6, <1>7 DEF Base
<1>. QED BY <1>1, <1>8 DEF B

\* The base is given back.
LEMMA BaseGone ==
  ASSUME NEW y, NEW M, Whole(y, M), NEW L \in [Nat -> Nat], L[One] >= 1, NEW B, Base(y.op, B, M), Inherited(L, B, M),
         NEW spent, spent = Unref(y.op, B.coefficient) \/ spent = Discard(y.op, B.coefficient, FALSE)
  PROVE  Whole([refs |-> y.refs, op |-> Unref(spent, B.numeric)], L)
<1>1. B \in Edges /\ B.coefficient \in Nat /\ B.numeric \in Nat /\ IsTerminal(y.op, B.coefficient)
  BY DEF Base, Edges
<1>2. PICK K, N : /\ Inherited(L, B, K) /\ Taken(K, B.coefficient, N) /\ Taken(N, B.numeric, L)
                  /\ K[B.coefficient] >= 1 /\ N[B.numeric] >= 1 /\ N[One] >= 1
  BY <1>1, InheritedTaken
<1>3. K = M
  BY <1>2, SameOutside DEF Inherited
<1>. DEFINE w == [refs |-> y.refs, op |-> spent]
<1>4. spent = Unref(y.op, B.coefficient) \/ (IsTerminal(y.op, B.coefficient) /\ \E arrived \in BOOLEAN : spent = Discard(y.op, B.coefficient, arrived))
  BY <1>1
<1>5. Whole(w, N)
  BY <1>1, <1>2, <1>3, <1>4, WholeTaken
<1>6. w.refs = y.refs /\ w.op = spent
  OBVIOUS
<1>. HIDE DEF w
<1>7. Whole([refs |-> w.refs, op |-> Unref(w.op, B.numeric)], L)
  BY <1>1, <1>2, <1>5, WholeTaken
<1>. QED BY <1>6, <1>7

\* qs_pivot_graph_relay
RelayedWell(g, y, L, tail) == Whole(y, L) /\ HeadsBut(g.refs, y.refs, tail)

\* qs_pivot_graph_relay: the graph is whole again, and only the heads of tail changed.
LEMMA RelaySound ==
  ASSUME NEW g, NEW L, Whole(g, L), NEW tail \in Pivot, NEW head \in Pivot, head # tail
  PROVE  RelayedWell(g, Relay(g, tail, head), L, tail)
<1>. DEFINE j == IndexOf(g.refs[tail], head)
            h == TerminateEdge(g, tail, j)
            base == h.refs[tail][j]
            rest == [h EXCEPT !.refs[tail] = Moved(h.refs[tail], j)]
            limbs == RelayLimbs(rest, tail, head, base)
            spent == IF Len(g.refs[head]) > 1 THEN Unref(limbs.op, base.coefficient)
                     ELSE Discard(limbs.op, base.coefficient, FALSE)
            t == Unref(spent, base.numeric)
<1>1. CASE j = 0
  <2>1. Relay(g, tail, head) = g
    BY <1>1, Zenon DEF Relay
  <2>2. HeadsBut(g.refs, g.refs, tail)
    BY DEF HeadsBut
  <2>. QED BY <2>1, <2>2 DEF RelayedWell
<1>2. CASE j # 0
  <2>1. Relay(g, tail, head) = [limbs EXCEPT !.op = t]
    BY <1>2, Zenon DEF Relay, ReleaseBase
  <2>2. g.refs \in [Pivot -> Seq(Edges)] /\ L \in [Nat -> Nat] /\ L[One] >= 1
    BY WholeIs DEF Whole
  <2>3. j \in 1 .. Len(g.refs[tail])
    <3>1. g.refs[tail] \in Seq(Edges)
      BY <2>2
    <3>. QED BY <1>2, <3>1, IndexIs
  <2>. HIDE DEF j
  <2>4. Whole(h, L) /\ SameHeads(g.refs, h.refs) /\ Baked(h, tail, j) /\ j \in 1 .. Len(h.refs[tail])
    <3>1. EdgeBaked(g, h, L, tail, j)
      BY <2>3, EdgeIsBaked
    <3>. HIDE DEF h
    <3>. QED BY <2>3, <3>1, AtSameHeads DEF EdgeBaked, SameHeads
  <2>. HIDE DEF h
  <2>5. h.refs \in [Pivot -> Seq(Edges)] /\ h = [refs |-> h.refs, op |-> h.op] /\ base \in Edges
    BY <2>4, WholeIs, WholeEdge DEF Whole, FineEdge
  <2>6. rest = Removed(h, tail, j)
    <3>. DEFINE r == h.refs
                s == h.op
                es == Moved(h.refs[tail], j)
                q == [r EXCEPT ![tail] = es]
    <3>1. h = [refs |-> r, op |-> s] /\ Removed(h, tail, j) = [refs |-> q, op |-> s]
      BY <2>5 DEF Removed
    <3>. HIDE DEF r, s, es
    <3>2. [[refs |-> r, op |-> s] EXCEPT !.refs[tail] = es] = [refs |-> q, op |-> s]
      OBVIOUS
    <3>3. rest = [h EXCEPT !.refs[tail] = es]
      BY DEF es
    <3>. QED BY <3>1, <3>2, <3>3, Zenon
  <2>7. PICK M : Inherited(L, base, M)
    <3>1. \E M, N : Inherited(L, base, M) /\ Taken(M, base.coefficient, N)
      BY <2>2, <2>5, InheritedTaken
    <3>. QED BY <3>1
  <2>8. Whole(rest, M) /\ Base(h.op, base, M) /\ rest.op = h.op
    <3>1. Removed(h, tail, j).op = h.op
      BY DEF Removed
    <3>. HIDE DEF rest
    <3>. QED BY <2>4, <2>6, <2>7, <3>1, BaseIs
  <2>9. HeadsBut(h.refs, rest.refs, tail)
    <3>1. \A p \in Pivot : p # tail => rest.refs[p] = h.refs[p]
      BY <2>5, <2>6 DEF Removed
    <3>. QED BY <3>1, HeadsButRow
  <2>. HIDE DEF rest, base
  <2>10. Relayed(rest, limbs, M, tail)
    BY <2>8, RelayLimbsSound
  <2>. HIDE DEF limbs
  <2>11. Whole(limbs, M) /\ Base(limbs.op, base, M) /\ HeadsBut(rest.refs, limbs.refs, tail)
    BY <2>8, <2>10, BaseKept DEF Relayed, Onward
  <2>12. spent = Unref(limbs.op, base.coefficient) \/ spent = Discard(limbs.op, base.coefficient, FALSE)
    OBVIOUS
  <2>. HIDE DEF spent
  <2>13. Whole([refs |-> limbs.refs, op |-> t], L)
    BY <2>2, <2>7, <2>11, <2>12, BaseGone
  <2>14. [limbs EXCEPT !.op = t] = [refs |-> limbs.refs, op |-> t]
    <3>1. limbs = [refs |-> limbs.refs, op |-> limbs.op]
      BY <2>11, Zenon DEF Whole
    <3>. DEFINE r == limbs.refs
                s == limbs.op
    <3>. HIDE DEF r, s
    <3>2. limbs = [refs |-> r, op |-> s]
      BY <3>1, Zenon DEF r, s
    <3>3. [limbs EXCEPT !.op = t] = [refs |-> r, op |-> t]
      BY <3>2
    <3>. QED BY <3>3 DEF r
  <2>15. HeadsBut(g.refs, limbs.refs, tail)
    BY <2>4, <2>9, <2>11, HeadsButOn, HeadsButSame
  <2>. HIDE DEF t
  <2>. QED BY <2>1, <2>13, <2>14, <2>15 DEF RelayedWell
<1>. QED BY <1>1, <1>2

\* There is one edge to this head at most.
Alone1(es, h) == \A k, m \in 1 .. Len(es) : es[k].head = h /\ es[m].head = h => k = m

\* No two of these edges have an operand in common but One.
Disjoint(es) == \A k, m \in 1 .. Len(es) : k # m => Ends(es[k]) \cap Ends(es[m]) \subseteq {One}

\* Some of the edges of r, in another order.
Thinned(r, q) ==
  /\ \A k \in 1 .. Len(q) : \E m \in 1 .. Len(r) : q[k] = r[m]
  /\ Disjoint(r) => Disjoint(q)
  /\ \A h : Alone1(r, h) => Alone1(q, h)
  /\ Len(q) <= Len(r)

LEMMA ThinnedSame ==
  ASSUME NEW r \in Seq(Edges)
  PROVE  Thinned(r, r)
<1>1. Len(r) \in Nat
  OBVIOUS
<1>. QED BY <1>1 DEF Thinned

LEMMA ThinnedOn ==
  ASSUME NEW r \in Seq(Edges), NEW q \in Seq(Edges), NEW t \in Seq(Edges), Thinned(r, q), Thinned(q, t)
  PROVE  Thinned(r, t)
<1>1. Len(r) \in Nat /\ Len(q) \in Nat /\ Len(t) \in Nat
  OBVIOUS
<1>2. Len(t) <= Len(r)
  BY <1>1 DEF Thinned
<1>3. ASSUME NEW k \in 1 .. Len(t) PROVE \E m \in 1 .. Len(r) : t[k] = r[m]
  <2>1. PICK x \in 1 .. Len(q) : t[k] = q[x]
    BY DEF Thinned
  <2>2. PICK m \in 1 .. Len(r) : q[x] = r[m]
    BY DEF Thinned
  <2>. QED BY <2>1, <2>2
<1>4. Disjoint(r) => Disjoint(t)
  BY DEF Thinned
<1>5. ASSUME NEW h, Alone1(r, h) PROVE Alone1(t, h)
  BY <1>5 DEF Thinned
<1>. QED BY <1>2, <1>3, <1>4, <1>5 DEF Thinned

LEMMA MovedThinned ==
  ASSUME NEW es \in Seq(Edges), NEW j \in 1 .. Len(es)
  PROVE  Thinned(es, Moved(es, j))
<1>. DEFINE new == Moved(es, j)
            n == Len(es)
            At(k) == IF k = j THEN n ELSE k
<1>1. IsMoved(new, Edges, es, j)
  BY MovedAre
<1>2. n \in Nat /\ n >= 1 /\ j \in 1 .. n
  OBVIOUS
<1>. HIDE DEF new, n
<1>3. new \in Seq(Edges) /\ Len(new) = n - 1 /\ \A k \in 1 .. Len(new) : k \in 1 .. n /\ k < n /\ new[k] = es[At(k)]
  BY <1>1 DEF IsMoved, n
<1>4. ASSUME NEW k \in 1 .. Len(new) PROVE At(k) \in 1 .. n /\ new[k] = es[At(k)]
  BY <1>2, <1>3
<1>5. ASSUME NEW k \in 1 .. Len(new), NEW m \in 1 .. Len(new), k # m PROVE At(k) # At(m)
  BY <1>2, <1>3, <1>5
<1>. HIDE DEF At
<1>6. \A k \in 1 .. Len(new) : \E m \in 1 .. Len(es) : new[k] = es[m]
  BY <1>4 DEF n
<1>7. ASSUME Disjoint(es) PROVE Disjoint(new)
  <2>1. ASSUME NEW k \in 1 .. Len(new), NEW m \in 1 .. Len(new), k # m
        PROVE  Ends(new[k]) \cap Ends(new[m]) \subseteq {One}
    <3>1. At(k) \in 1 .. Len(es) /\ At(m) \in 1 .. Len(es) /\ At(k) # At(m)
      BY <1>4, <1>5, <2>1 DEF n
    <3>2. Ends(es[At(k)]) \cap Ends(es[At(m)]) \subseteq {One}
      BY <1>7, <3>1 DEF Disjoint
    <3>. QED BY <1>4, <3>2
  <2>. QED BY <2>1 DEF Disjoint
<1>8. ASSUME NEW h, Alone1(es, h) PROVE Alone1(new, h)
  <2>1. ASSUME NEW k \in 1 .. Len(new), NEW m \in 1 .. Len(new), new[k].head = h, new[m].head = h
        PROVE  k = m
    <3>1. At(k) \in 1 .. Len(es) /\ At(m) \in 1 .. Len(es) /\ es[At(k)].head = h /\ es[At(m)].head = h
      BY <1>4, <2>1 DEF n
    <3>2. At(k) = At(m)
      BY <1>8, <3>1 DEF Alone1
    <3>. QED BY <1>5, <3>2
  <2>. QED BY <2>1 DEF Alone1
<1>9. Len(new) <= Len(es)
  BY <1>2, <1>3 DEF n
<1>. QED BY <1>6, <1>7, <1>8, <1>9 DEF Thinned, new

\* What the edges found beyond the first refer to.
Rest(found, o) == IF found = <<>> THEN 0 ELSE EdgeUses(found, o) - Touches(found[1], o)

\* The first edge to head that there was is at x, and is the only one before j.
FirstAt(edges, es, j, found, head, x) ==
  /\ x \in 1 .. Len(es) /\ x < j /\ es[x] = found[1] /\ es[x].head = head
  /\ \A y \in 1 .. Len(es) : y < j /\ es[y].head = head => y = x
  /\ \A a \in 1 .. Len(es) : a <= x => es[a] = edges[a]
  /\ Len(found) = 1 => es = edges

NoneBefore(es, j, head) == \A y \in 1 .. Len(es) : y < j => es[y].head # head

\* How far the loop of qs_pivot_graph_collect has come: es are the edges it has not taken,
\* of which those before j were looked at.
GatheredBy(edges, es, j, found, head) ==
  /\ es \in Seq(Edges) /\ found \in Seq(Edges) /\ j \in Nat /\ j >= 1
  /\ Thinned(edges, es)
  /\ \A k \in 1 .. Len(found) : found[k].head = head /\ \E m \in 1 .. Len(edges) : found[k] = edges[m]
  /\ IF found = <<>> THEN es = edges /\ NoneBefore(es, j, head)
     ELSE \E x \in 1 .. Len(es) : FirstAt(edges, es, j, found, head, x)
  /\ \A o : EdgeUses(edges, o) = EdgeUses(es, o) + Rest(found, o)

\* An edge that has another head is passed, ...
LEMMA GatherPass ==
  ASSUME NEW edges \in Seq(Edges), NEW es, NEW j, NEW found, NEW head,
         GatheredBy(edges, es, j, found, head), j \in 1 .. Len(es), es[j].head # head
  PROVE  GatheredBy(edges, es, j + 1, found, head)
<1>1. es \in Seq(Edges) /\ found \in Seq(Edges) /\ j \in Nat /\ j >= 1 /\ Len(es) \in Nat
  BY DEF GatheredBy
<1>2. CASE found = <<>>
  <2>1. es = edges /\ NoneBefore(es, j, head)
    BY <1>2 DEF GatheredBy
  <2>2. ASSUME NEW y \in 1 .. Len(es), y < j + 1 PROVE es[y].head # head
    <3>1. y < j \/ y = j
      BY <1>1, <2>2
    <3>. QED BY <2>1, <3>1 DEF NoneBefore
  <2>3. NoneBefore(es, j + 1, head)
    BY <2>2 DEF NoneBefore
  <2>4. j + 1 \in Nat /\ j + 1 >= 1
    BY <1>1
  <2>. QED BY <1>2, <2>1, <2>3, <2>4 DEF GatheredBy
<1>3. CASE found # <<>>
  <2>1. PICK x \in 1 .. Len(es) : FirstAt(edges, es, j, found, head, x)
    BY <1>3 DEF GatheredBy
  <2>2. ASSUME NEW y \in 1 .. Len(es), y < j + 1, es[y].head = head PROVE y = x
    <3>1. y < j
      BY <1>1, <2>2
    <3>. QED BY <2>1, <2>2, <3>1 DEF FirstAt
  <2>3. FirstAt(edges, es, j + 1, found, head, x)
    <3>1. x < j + 1
      BY <1>1, <2>1 DEF FirstAt
    <3>. QED BY <2>1, <2>2, <3>1 DEF FirstAt
  <2>4. j + 1 \in Nat /\ j + 1 >= 1
    BY <1>1
  <2>. QED BY <1>3, <2>3, <2>4 DEF GatheredBy
<1>. QED BY <1>2, <1>3

\* ... the first that has it stays where it is, ...
LEMMA GatherFirst ==
  ASSUME NEW edges \in Seq(Edges), NEW es, NEW j, NEW head,
         GatheredBy(edges, es, j, <<>>, head), j \in 1 .. Len(es), es[j].head = head
  PROVE  GatheredBy(edges, es, j + 1, <<es[j]>>, head)
<1>. DEFINE none == <<>>
            e == es[j]
            found == <<e>>
<1>1. es \in Seq(Edges) /\ j \in Nat /\ j >= 1 /\ Len(es) \in Nat /\ es = edges /\ NoneBefore(es, j, head)
      /\ Thinned(edges, es) /\ e \in Edges
  BY DEF GatheredBy
<1>2. found \in Seq(Edges) /\ Len(found) = 1 /\ found[1] = e /\ found # <<>> /\ found = Append(none, e)
      /\ none \in Seq(Edges) /\ Len(none) = 0
  BY <1>1
<1>. HIDE DEF none, found, e
<1>3. ASSUME NEW o PROVE Rest(found, o) = 0
  <2>1. EdgeUses(found, o) = EdgeUses(none, o) + Touches(e, o)
    <3>1. EdgeUses(Append(none, e), o) = EdgeUses(none, o) + Touches(e, o)
      BY <1>1, <1>2, EdgeUsesAppend
    <3>. QED BY <1>2, <3>1
  <2>2. EdgeUses(none, o) = 0
    <3>1. EdgeUses(none, o) = 0 <=> \A k \in 1 .. Len(none) : none[k].coefficient # o /\ none[k].numeric # o
      BY <1>2, EdgeUsesSum
    <3>2. \A k \in 1 .. Len(none) : FALSE
      BY <1>2
    <3>. QED BY <3>1, <3>2
  <2>3. Touches(e, o) \in Nat
    BY TouchesIs
  <2>4. EdgeUses(found, o) = Touches(e, o)
    BY <2>1, <2>2, <2>3
  <2>5. Rest(found, o) = Touches(e, o) - Touches(e, o)
    BY <1>2, <2>4 DEF Rest
  <2>. QED BY <2>3, <2>5
<1>4. ASSUME NEW o PROVE EdgeUses(edges, o) = EdgeUses(es, o) + Rest(found, o)
  <2>1. EdgeUses(es, o) \in Nat
    BY <1>1, EdgeUsesSum
  <2>. QED BY <1>1, <1>3, <2>1
<1>5. FirstAt(edges, es, j + 1, found, head, j)
  <2>1. ASSUME NEW y \in 1 .. Len(es), y < j + 1, es[y].head = head PROVE y = j
    <3>1. ~ (y < j)
      BY <1>1, <2>1 DEF NoneBefore
    <3>. QED BY <1>1, <2>1, <3>1
  <2>2. j < j + 1
    BY <1>1
  <2>. QED BY <1>1, <1>2, <2>1, <2>2 DEF FirstAt, e
<1>6. j + 1 \in Nat /\ j + 1 >= 1
  BY <1>1
<1>7. ASSUME NEW k \in 1 .. Len(found)
      PROVE  found[k].head = head /\ \E m \in 1 .. Len(edges) : found[k] = edges[m]
  <2>1. k = 1
    BY <1>2
  <2>. QED BY <1>1, <1>2, <2>1 DEF e
<1>8. GatheredBy(edges, es, j + 1, found, head)
  BY <1>1, <1>2, <1>4, <1>5, <1>6, <1>7 DEF GatheredBy
<1>. QED BY <1>8 DEF found, e

\* ... and another is taken.
LEMMA GatherMore ==
  ASSUME NEW edges \in Seq(Edges), NEW es, NEW j, NEW found, NEW head,
         GatheredBy(edges, es, j, found, head), j \in 1 .. Len(es), es[j].head = head, found # <<>>
  PROVE  GatheredBy(edges, Moved(es, j), j, Append(found, es[j]), head)
<1>. DEFINE e == es[j]
            more == Append(found, e)
            new == Moved(es, j)
<1>1. es \in Seq(Edges) /\ found \in Seq(Edges) /\ j \in Nat /\ j >= 1 /\ Len(es) \in Nat
      /\ Thinned(edges, es) /\ e \in Edges
  BY DEF GatheredBy
<1>2. PICK x \in 1 .. Len(es) : FirstAt(edges, es, j, found, head, x)
  BY DEF GatheredBy
<1>3. IsMoved(new, Edges, es, j)
  BY <1>1, MovedAre
<1>4. IsAppended(more, Edges, found, e)
  BY <1>1, AppendIs
<1>5. Len(found) >= 1
  <2>1. Len(found) \in Nat /\ Len(found) # 0
    BY <1>1
  <2>. QED BY <2>1
<1>. HIDE DEF e, more, new
<1>6. more \in Seq(Edges) /\ Len(more) = Len(found) + 1 /\ Len(found) \in Nat
      /\ \A k \in 1 .. Len(more) : (k = Len(found) + 1 /\ more[k] = e) \/ (k \in 1 .. Len(found) /\ more[k] = found[k])
  BY <1>4 DEF IsAppended
<1>7. more # <<>> /\ Len(more) # 1 /\ more[1] = found[1]
  <2>1. Len(more) # 0 /\ Len(more) # 1
    BY <1>5, <1>6
  <2>2. more # <<>>
    BY <2>1
  <2>3. 1 \in 1 .. Len(found)
    BY <1>5, <1>6
  <2>4. more[1] = found[1]
    BY <1>4, <2>3 DEF IsAppended
  <2>. QED BY <2>1, <2>2, <2>4
<1>8. new \in Seq(Edges) /\ Len(new) = Len(es) - 1
      /\ \A k \in 1 .. Len(new) : k \in 1 .. Len(es) /\ k < Len(es) /\ new[k] = IF k = j THEN es[Len(es)] ELSE es[k]
  BY <1>3 DEF IsMoved
<1>9. x < j /\ es[x] = found[1] /\ es[x].head = head
      /\ (\A y \in 1 .. Len(es) : y < j /\ es[y].head = head => y = x)
      /\ (\A a \in 1 .. Len(es) : a <= x => es[a] = edges[a])
  BY <1>2 DEF FirstAt
<1>10. \A k \in 1 .. Len(new) : k \in 1 .. Len(es) /\ (k < j => new[k] = es[k])
  BY <1>1, <1>8
<1>11. FirstAt(edges, new, j, more, head, x)
  <2>1. x \in 1 .. Len(new)
    BY <1>1, <1>8, <1>9
  <2>2. new[x] = more[1] /\ new[x].head = head
    BY <1>7, <1>9, <1>10, <2>1
  <2>3. ASSUME NEW y \in 1 .. Len(new), y < j, new[y].head = head PROVE y = x
    BY <1>9, <1>10, <2>3
  <2>4. ASSUME NEW a \in 1 .. Len(new), a <= x PROVE new[a] = edges[a]
    <3>1. a < j
      BY <1>1, <1>9, <2>4
    <3>. QED BY <1>9, <1>10, <2>4, <3>1
  <2>. QED BY <1>7, <1>9, <2>1, <2>2, <2>3, <2>4 DEF FirstAt
<1>12. ASSUME NEW k \in 1 .. Len(more)
       PROVE  more[k].head = head /\ \E m \in 1 .. Len(edges) : more[k] = edges[m]
  <2>1. CASE more[k] = e
    <3>1. \E m \in 1 .. Len(edges) : e = edges[m]
      BY <1>1 DEF Thinned, e
    <3>. QED BY <2>1, <3>1 DEF e
  <2>2. CASE k \in 1 .. Len(found) /\ more[k] = found[k]
    BY <2>2 DEF GatheredBy
  <2>. QED BY <1>6, <2>1, <2>2
<1>13. ASSUME NEW o PROVE EdgeUses(edges, o) = EdgeUses(new, o) + Rest(more, o)
  <2>. DEFINE a == EdgeUses(es, o)
              b == EdgeUses(new, o)
              c == EdgeUses(found, o)
              d == EdgeUses(more, o)
              w == Touches(e, o)
              y == Touches(found[1], o)
  <2>1. EdgeUses(edges, o) = a + (c - y)
    BY DEF GatheredBy, Rest
  <2>2. b = a - w
    BY <1>1, EdgeUsesMoved DEF new, e
  <2>3. d = c + w
    BY <1>1, EdgeUsesAppend DEF more
  <2>4. Rest(more, o) = d - y
    BY <1>7 DEF Rest
  <2>5. a \in Nat /\ c \in Nat /\ w \in Nat /\ y \in Nat
    BY <1>1, EdgeUsesSum, TouchesIs
  <2>. HIDE DEF a, b, c, d, w, y
  <2>6. a + (c - y) = b + (d - y)
    BY <2>2, <2>3, <2>5
  <2>. QED BY <2>1, <2>4, <2>6 DEF b
<1>14. Thinned(edges, new)
  BY <1>1, <1>8, MovedThinned, ThinnedOn DEF new
<1>15. GatheredBy(edges, new, j, more, head)
  <2>1. \E z \in 1 .. Len(new) : FirstAt(edges, new, j, more, head, z)
    <3>1. x \in 1 .. Len(new)
      BY <1>11 DEF FirstAt
    <3>. QED BY <1>11, <3>1
  <2>2. \A o : EdgeUses(edges, o) = EdgeUses(new, o) + Rest(more, o)
    BY <1>13
  <2>3. \A k \in 1 .. Len(more) : more[k].head = head /\ \E m \in 1 .. Len(edges) : more[k] = edges[m]
    BY <1>12
  <2>4. new \in Seq(Edges) /\ more \in Seq(Edges) /\ j \in Nat /\ j >= 1 /\ Thinned(edges, new) /\ more # <<>>
    BY <1>1, <1>6, <1>7, <1>8, <1>14
  <2>. QED BY <2>1, <2>2, <2>3, <2>4, Zenon DEF GatheredBy
<1>. QED BY <1>15 DEF new, more, e

\* How qs_pivot_graph_collect goes through the edges.
Gathering(f, edges, head, n) == f[0] = [edges |-> edges, j |-> 1, found |-> <<>>] /\ \A k \in 1 .. n : f[k] = Gather(f[k - 1], head)

\* The loop of qs_pivot_graph_collect has a table of its intermediate arrays.
LEMMA GatheringIs ==
  ASSUME NEW edges, NEW head, Len(edges) \in Nat
  PROVE  \E f : Gathering(f, edges, head, Len(edges)) /\ Gathered(edges, head) = f[Len(edges)]
<1>. DEFINE n == Len(edges)
            IsIt(f, m) == f = [k \in 0 .. m |-> IF k = 0 THEN [edges |-> edges, j |-> 1, found |-> <<>>] ELSE Gather(f[k - 1], head)]
            Good == {m \in Nat : \E f : IsIt(f, m)}
<1>1. 0 \in Good
  <2>. DEFINE h == [k \in 0 .. 0 |-> [edges |-> edges, j |-> 1, found |-> <<>>]]
  <2>1. \A k \in 0 .. 0 : h[k] = IF k = 0 THEN [edges |-> edges, j |-> 1, found |-> <<>>] ELSE Gather(h[k - 1], head)
    OBVIOUS
  <2>2. IsIt(h, 0)
    BY <2>1
  <2>. QED BY <2>2
<1>2. ASSUME NEW m \in 0 .. (n - 1), m \in Good PROVE m + 1 \in Good
  <2>1. PICK f : IsIt(f, m)
    BY <1>2
  <2>. DEFINE h == [k \in 0 .. (m + 1) |-> IF k = m + 1 THEN Gather(f[m], head) ELSE f[k]]
  <2>2. \A k \in 0 .. m : h[k] = f[k] /\ f[k] = IF k = 0 THEN [edges |-> edges, j |-> 1, found |-> <<>>] ELSE Gather(f[k - 1], head)
    BY <2>1
  <2>3. h[m + 1] = Gather(f[m], head)
    OBVIOUS
  <2>4. ASSUME NEW k \in 0 .. (m + 1) PROVE h[k] = IF k = 0 THEN [edges |-> edges, j |-> 1, found |-> <<>>] ELSE Gather(h[k - 1], head)
    <3>1. CASE k = 0
      <4>1. 0 \in 0 .. m
        OBVIOUS
      <4>2. h[0] = [edges |-> edges, j |-> 1, found |-> <<>>]
        BY <2>2, <4>1
      <4>. HIDE DEF h
      <4>. QED BY <3>1, <4>2
    <3>2. CASE k \in 1 .. m
      <4>1. k \in 0 .. m /\ k - 1 \in 0 .. m /\ k # 0
        BY <3>2
      <4>2. h[k] = f[k] /\ f[k] = Gather(f[k - 1], head) /\ h[k - 1] = f[k - 1]
        BY <2>2, <4>1
      <4>. HIDE DEF h
      <4>. QED BY <4>1, <4>2
    <3>3. CASE k = m + 1
      <4>1. k # 0 /\ k - 1 = m /\ m \in 0 .. m
        BY <3>3
      <4>2. h[k - 1] = f[m]
        BY <2>2, <4>1
      <4>. HIDE DEF h
      <4>. QED BY <2>3, <3>3, <4>1, <4>2
    <3>. QED BY <3>1, <3>2, <3>3
  <2>5. IsIt(h, m + 1)
    <3>1. h = [k \in 0 .. (m + 1) |-> h[k]]
      OBVIOUS
    <3>. HIDE DEF h
    <3>. QED BY <2>4, <3>1
  <2>6. m + 1 \in Nat
    OBVIOUS
  <2>. HIDE DEF IsIt
  <2>. QED BY <2>5, <2>6
<1>3. n \in Good
  <2>. HIDE DEF Good
  <2>. QED BY <1>1, <1>2, StepByStep
<1>. DEFINE c == CHOOSE f : IsIt(f, n)
<1>4. IsIt(c, n)
  BY <1>3
<1>5. Gathered(edges, head) = c[n]
  BY Zenon DEF Gathered
<1>6. Gathering(c, edges, head, n)
  <2>1. n \in Nat
    OBVIOUS
  <2>2. \A k \in 0 .. n : c[k] = IF k = 0 THEN [edges |-> edges, j |-> 1, found |-> <<>>] ELSE Gather(c[k - 1], head)
    BY <1>4
  <2>. HIDE DEF c, n, IsIt
  <2>3. 0 \in 0 .. n /\ \A k \in 1 .. n : k \in 0 .. n /\ k # 0
    BY <2>1
  <2>4. c[0] = [edges |-> edges, j |-> 1, found |-> <<>>]
    BY <2>2, <2>3
  <2>5. \A k \in 1 .. n : c[k] = Gather(c[k - 1], head)
    BY <2>2, <2>3
  <2>. QED BY <2>4, <2>5 DEF Gathering
<1>. QED BY <1>5, <1>6

\* One step of the loop.
GatherStep(z, head) ==
  LET e == z.edges[z.j] IN
  IF e.head # head THEN [edges |-> z.edges, j |-> z.j + 1, found |-> z.found]
  ELSE IF z.found = <<>> THEN [edges |-> z.edges, j |-> z.j + 1, found |-> <<e>>]
  ELSE [edges |-> Moved(z.edges, z.j), j |-> z.j, found |-> Append(z.found, e)]

LEMMA GatherIsStep ==
  ASSUME NEW z, z = [edges |-> z.edges, j |-> z.j, found |-> z.found], NEW head
  PROVE  Gather(z, head) = GatherStep(z, head)
<1>. DEFINE a == z.edges
            b == z.j
            c == z.found
            y == [edges |-> a, j |-> b, found |-> c]
<1>1. z = y
  OBVIOUS
<1>. HIDE DEF a, b, c
<1>2. Gather(y, head) = GatherStep(y, head)
  <2>. DEFINE e == a[b]
  <2>1. y.edges = a /\ y.j = b /\ y.found = c
    OBVIOUS
  <2>2. CASE e.head # head
    BY <2>1, <2>2 DEF Gather, GatherStep
  <2>3. CASE e.head = head /\ c = <<>>
    <3>. DEFINE w == [y EXCEPT !.j = y.j + 1, !.found = <<e>>]
    <3>1. Gather(y, head) = w
      BY <2>1, <2>3 DEF Gather
    <3>2. GatherStep(y, head) = [edges |-> a, j |-> b + 1, found |-> <<e>>]
      BY <2>1, <2>3 DEF GatherStep
    <3>3. w = [edges |-> a, j |-> b + 1, found |-> <<e>>]
      <4>. DEFINE p == y.j + 1
                  q == <<e>>
                  w1 == [y EXCEPT !.j = p]
      <4>1. w = [w1 EXCEPT !.found = q]
        OBVIOUS
      <4>2. p = b + 1
        OBVIOUS
      <4>. HIDE DEF p, q
      <4>3. w1 = [edges |-> a, j |-> p, found |-> c]
        OBVIOUS
      <4>. HIDE DEF w1, w
      <4>4. w = [edges |-> a, j |-> p, found |-> q]
        BY <4>1, <4>3
      <4>. QED BY <4>2, <4>4 DEF q
    <3>. HIDE DEF y, w, e
    <3>. QED BY <3>1, <3>2, <3>3
  <2>4. CASE e.head = head /\ c # <<>>
    <3>. DEFINE w == [y EXCEPT !.edges = Moved(a, b), !.found = Append(c, e)]
    <3>1. Gather(y, head) = w
      BY <2>1, <2>4 DEF Gather
    <3>2. GatherStep(y, head) = [edges |-> Moved(a, b), j |-> b, found |-> Append(c, e)]
      BY <2>1, <2>4 DEF GatherStep
    <3>3. w = [edges |-> Moved(a, b), j |-> b, found |-> Append(c, e)]
      <4>. DEFINE p == Moved(a, b)
                  q == Append(c, e)
                  w1 == [y EXCEPT !.edges = p]
      <4>1. w = [w1 EXCEPT !.found = q]
        OBVIOUS
      <4>. HIDE DEF p, q
      <4>3. w1 = [edges |-> p, j |-> b, found |-> c]
        OBVIOUS
      <4>. HIDE DEF w1, w
      <4>4. w = [edges |-> p, j |-> b, found |-> q]
        BY <4>1, <4>3
      <4>. QED BY <4>4 DEF p, q
    <3>. HIDE DEF y, w, e
    <3>. QED BY <3>1, <3>2, <3>3
  <2>. QED BY <2>2, <2>3, <2>4
<1>. QED BY <1>1, <1>2

GatheredTo(edges, z, head, k) ==
  /\ z = [edges |-> z.edges, j |-> z.j, found |-> z.found]
  /\ GatheredBy(edges, z.edges, z.j, z.found, head)
  /\ Len(z.edges) - z.j = Len(edges) - k - 1

\* One step of it keeps apart what was found, what was passed and what is to come.
LEMMA GatherSound ==
  ASSUME NEW edges \in Seq(Edges), NEW head, NEW k \in 0 .. (Len(edges) - 1), NEW z, GatheredTo(edges, z, head, k)
  PROVE  GatheredTo(edges, Gather(z, head), head, k + 1)
<1>. DEFINE es == z.edges
            j == z.j
            found == z.found
            e == es[j]
            n == Len(edges)
            y == Gather(z, head)
<1>1. y = GatherStep(z, head)
  BY GatherIsStep DEF GatheredTo
<1>2. /\ GatheredBy(edges, es, j, found, head) /\ Len(es) - j = n - k - 1
  BY DEF GatheredTo
<1>3. es \in Seq(Edges) /\ j \in Nat /\ j >= 1 /\ Len(es) \in Nat /\ n \in Nat /\ k \in Nat /\ k <= n - 1
  BY <1>2 DEF GatheredBy
<1>4. j \in 1 .. Len(es)
  <2>. DEFINE l == Len(es)
  <2>1. l - j = n - k - 1 /\ l \in Nat
    BY <1>2, <1>3
  <2>. HIDE DEF l, j, n
  <2>2. j \in 1 .. l
    BY <1>3, <2>1
  <2>. QED BY <2>2 DEF l
<1>5. n - (k + 1) - 1 = (n - k - 1) - 1
  BY <1>3
<1>6. Len(es) - (j + 1) = n - (k + 1) - 1 /\ (Len(es) - 1) - j = n - (k + 1) - 1
  <2>. DEFINE l == Len(es)
  <2>1. l - j = n - k - 1 /\ l \in Nat
    BY <1>2, <1>3
  <2>. HIDE DEF l, j, n
  <2>2. l - (j + 1) = n - (k + 1) - 1 /\ (l - 1) - j = n - (k + 1) - 1
    BY <1>3, <2>1
  <2>. QED BY <2>2 DEF l
<1>. HIDE DEF y, n
<1>7. CASE e.head # head
  <2>1. y = [edges |-> es, j |-> j + 1, found |-> found]
    BY <1>1, <1>7 DEF GatherStep
  <2>2. GatheredBy(edges, es, j + 1, found, head)
    BY <1>2, <1>4, <1>7, GatherPass
  <2>. HIDE DEF es, j, found
  <2>. QED BY <1>6, <2>1, <2>2 DEF GatheredTo, y, n
<1>8. CASE e.head = head /\ found = <<>>
  <2>1. y = [edges |-> es, j |-> j + 1, found |-> <<e>>]
    BY <1>1, <1>8 DEF GatherStep
  <2>2. GatheredBy(edges, es, j + 1, <<e>>, head)
    BY <1>2, <1>4, <1>8, GatherFirst
  <2>. HIDE DEF es, j, found
  <2>. QED BY <1>6, <2>1, <2>2 DEF GatheredTo, y, n
<1>9. CASE e.head = head /\ found # <<>>
  <2>1. y = [edges |-> Moved(es, j), j |-> j, found |-> Append(found, e)]
    BY <1>1, <1>9 DEF GatherStep
  <2>2. GatheredBy(edges, Moved(es, j), j, Append(found, e), head)
    BY <1>2, <1>4, <1>9, GatherMore
  <2>3. Len(Moved(es, j)) = Len(es) - 1
    BY <1>3, <1>4, MovedAre DEF IsMoved
  <2>. HIDE DEF es, j, found
  <2>. QED BY <1>6, <2>1, <2>2, <2>3 DEF GatheredTo, y, n
<1>. QED BY <1>7, <1>8, <1>9 DEF y

\* What the loop finds.
LEMMA GatheredIs ==
  ASSUME NEW edges \in Seq(Edges), NEW head
  PROVE  GatheredTo(edges, Gathered(edges, head), head, Len(edges))
<1>. DEFINE n == Len(edges)
<1>1. n \in Nat
  OBVIOUS
<1>2. PICK f : Gathering(f, edges, head, n) /\ Gathered(edges, head) = f[n]
  BY <1>1, GatheringIs
<1>. HIDE DEF n
<1>. DEFINE Good == {k \in Nat : k <= n => GatheredTo(edges, f[k], head, k)}
<1>3. 0 \in Good
  <2>. DEFINE none == <<>>
  <2>1. f[0] = [edges |-> edges, j |-> 1, found |-> none]
    BY <1>2 DEF Gathering
  <2>2. GatheredBy(edges, edges, 1, none, head)
    <3>1. none \in Seq(Edges) /\ Len(none) = 0 /\ none = <<>>
      OBVIOUS
    <3>. HIDE DEF none
    <3>2. NoneBefore(edges, 1, head)
      BY DEF NoneBefore
    <3>3. \A o : EdgeUses(edges, o) = EdgeUses(edges, o) + Rest(none, o)
      <4>1. \A o : Rest(none, o) = 0
        BY <3>1 DEF Rest
      <4>2. \A o : EdgeUses(edges, o) \in Nat
        BY EdgeUsesSum
      <4>. QED BY <4>1, <4>2
    <3>4. Thinned(edges, edges)
      BY ThinnedSame
    <3>5. \A k \in 1 .. Len(none) : none[k].head = head /\ \E m \in 1 .. Len(edges) : none[k] = edges[m]
      BY <3>1
    <3>. QED BY <3>1, <3>2, <3>3, <3>4, <3>5 DEF GatheredBy
  <2>3. Len(edges) - 1 = Len(edges) - 0 - 1
    BY <1>1 DEF n
  <2>. HIDE DEF none
  <2>4. GatheredTo(edges, f[0], head, 0)
    BY <2>1, <2>2, <2>3 DEF GatheredTo
  <2>. QED BY <2>4
<1>4. ASSUME NEW k \in 0 .. (n - 1), k \in Good PROVE k + 1 \in Good
  <2>1. GatheredTo(edges, f[k], head, k) /\ k \in Nat /\ k + 1 \in 1 .. n /\ k + 1 \in Nat
    BY <1>1, <1>4
  <2>2. f[k + 1] = Gather(f[k], head)
    <3>1. \A x \in 1 .. n : f[x] = Gather(f[x - 1], head)
      BY <1>2 DEF Gathering
    <3>2. k + 1 - 1 = k
      OBVIOUS
    <3>. QED BY <2>1, <3>1, <3>2
  <2>3. GatheredTo(edges, f[k + 1], head, k + 1)
    <3>1. k \in 0 .. (Len(edges) - 1)
      BY DEF n
    <3>. QED BY <2>1, <2>2, <3>1, GatherSound
  <2>. QED BY <2>1, <2>3
<1>5. n \in Good
  <2>. HIDE DEF Good
  <2>. QED BY <1>1, <1>3, <1>4, StepByStep
<1>6. GatheredTo(edges, f[n], head, n)
  BY <1>1, <1>5
<1>. QED BY <1>2, <1>6 DEF n

\* The operands of edges that agree are there, and amount to the same.
Agreeing(s, found) ==
  \A k \in 1 .. Len(found) :
    /\ found[k].coefficient \in DOMAIN s /\ found[k].numeric \in DOMAIN s
    /\ s[found[k].coefficient].val = s[found[k].numeric].val

SumsAgree(s, cs, ns) ==
  cs \in Seq(DOMAIN s) /\ ns \in Seq(DOMAIN s) /\ Sum(s, cs) \in Int /\ Sum(s, ns) = Sum(s, cs)

LEMMA SumsAre ==
  ASSUME NEW s, Store(s), NEW found \in Seq(Edges), Agreeing(s, found)
  PROVE  SumsAgree(s, Coefficients(found), Numerics(found))
<1>. DEFINE n == Len(found)
            cs == Coefficients(found)
            ns == Numerics(found)
            a == [k \in 1 .. n |-> s[cs[k]].val]
            b == [k \in 1 .. n |-> s[ns[k]].val]
<1>1. n \in Nat /\ DOMAIN found = 1 .. n
  OBVIOUS
<1>2. cs = [k \in 1 .. n |-> found[k].coefficient] /\ ns = [k \in 1 .. n |-> found[k].numeric]
  BY <1>1 DEF Coefficients, Numerics
<1>3. \A k \in 1 .. n : /\ found[k].coefficient \in DOMAIN s /\ found[k].numeric \in DOMAIN s
                        /\ s[found[k].coefficient].val = s[found[k].numeric].val
  BY DEF Agreeing
<1>. HIDE DEF n, cs, ns
<1>4. cs \in Seq(DOMAIN s) /\ ns \in Seq(DOMAIN s) /\ DOMAIN cs = 1 .. n /\ DOMAIN ns = 1 .. n
  <2>1. cs \in [1 .. n -> DOMAIN s] /\ ns \in [1 .. n -> DOMAIN s]
    BY <1>2, <1>3
  <2>. QED BY <1>1, <2>1
<1>5. ASSUME NEW k \in 1 .. n PROVE cs[k] \in DOMAIN s /\ s[ns[k]].val = s[cs[k]].val
  BY <1>2, <1>3
<1>6. ASSUME NEW k \in 1 .. n PROVE s[cs[k]].val \in Int
  <2>1. s[cs[k]].val \in Coefficient
    BY <1>5, StoreIs
  <2>. QED BY <2>1, ModuloIs
<1>7. IsFiniteSet(1 .. n)
  BY <1>1, FS_Interval
<1>8. a = b
  BY <1>5
<1>9. Sum(s, cs) = SumOf(a, 1 .. n) /\ Sum(s, ns) = SumOf(b, 1 .. n)
  BY <1>4 DEF Sum
<1>10. SumOf(a, 1 .. n) \in Int
  <2>1. \A k \in 1 .. n : a[k] \in Int
    BY <1>6
  <2>. HIDE DEF a
  <2>. QED BY <1>7, <2>1, SumType
<1>. HIDE DEF a, b
<1>. QED BY <1>4, <1>8, <1>9, <1>10 DEF SumsAgree, cs, ns

\* A row of a graph after the edges to one head were collected.
Collected(r, q, head) ==
  /\ Len(q) <= Len(r) /\ Alone1(q, head)
  /\ \A h : Alone1(r, h) => Alone1(q, h)
  /\ \A b \in 1 .. Len(r) :
       (\A a \in 1 .. Len(r) : a < b => r[a].head # head)
         => \A a \in 1 .. Len(q) : a <= b => q[a].head = r[a].head

\* What the loop leaves: one edge to head, at x, if there was one.
LEMMA GatheredSingle ==
  ASSUME NEW edges \in Seq(Edges), NEW head, NEW got, GatheredTo(edges, got, head, Len(edges)), Len(got.found) < 2
  PROVE  Alone1(edges, head)
<1>. DEFINE es == got.edges
            j == got.j
            found == got.found
<1>1. GatheredBy(edges, es, j, found, head) /\ Len(es) - j = Len(edges) - Len(edges) - 1
  BY DEF GatheredTo
<1>2. es \in Seq(Edges) /\ found \in Seq(Edges) /\ j \in Nat /\ Len(es) \in Nat /\ Len(edges) \in Nat /\ Len(found) \in Nat
  BY <1>1 DEF GatheredBy
<1>3. \A y \in 1 .. Len(es) : y < j
  BY <1>1, <1>2
<1>. HIDE DEF es, j
<1>4. CASE found = <<>>
  <2>1. es = edges /\ NoneBefore(es, j, head)
    BY <1>1, <1>4 DEF GatheredBy
  <2>. QED BY <1>3, <2>1 DEF NoneBefore, Alone1
<1>5. CASE found # <<>>
  <2>0. Len(found) = 1
    <3>. DEFINE l == Len(found)
    <3>1. l # 0 /\ l < 2 /\ l \in Nat
      BY <1>2, <1>5
    <3>. HIDE DEF l
    <3>2. l = 1
      BY <3>1
    <3>. QED BY <3>2 DEF l
  <2>1. PICK x \in 1 .. Len(es) : FirstAt(edges, es, j, found, head, x)
    BY <1>1, <1>5 DEF GatheredBy
  <2>2. es = edges /\ \A y \in 1 .. Len(es) : y < j /\ es[y].head = head => y = x
    BY <2>0, <2>1 DEF FirstAt
  <2>. QED BY <1>3, <2>2 DEF Alone1
<1>. QED BY <1>4, <1>5

LEMMA GatheredFirst ==
  ASSUME NEW edges \in Seq(Edges), NEW head, NEW got, GatheredTo(edges, got, head, Len(edges)), Len(got.found) >= 2
  PROVE  /\ FirstAt(edges, got.edges, got.j, got.found, head, IndexOf(got.edges, head))
         /\ IndexOf(got.edges, head) \in 1 .. Len(got.edges) /\ Alone1(got.edges, head)
<1>. DEFINE es == got.edges
            j == got.j
            found == got.found
<1>1. GatheredBy(edges, es, j, found, head) /\ Len(es) - j = Len(edges) - Len(edges) - 1
  BY DEF GatheredTo
<1>2. es \in Seq(Edges) /\ found \in Seq(Edges) /\ j \in Nat /\ Len(es) \in Nat /\ Len(edges) \in Nat /\ Len(found) \in Nat
  BY <1>1 DEF GatheredBy
<1>3. \A y \in 1 .. Len(es) : y < j
  BY <1>1, <1>2
<1>4. found # <<>>
  OBVIOUS
<1>5. PICK x \in 1 .. Len(es) : FirstAt(edges, es, j, found, head, x)
  BY <1>1, <1>4 DEF GatheredBy
<1>6. es[x].head = head /\ \A y \in 1 .. Len(es) : es[y].head = head => y = x
  BY <1>3, <1>5 DEF FirstAt
<1>7. IndexOf(es, head) = x
  BY <1>2, <1>6, IndexIs
<1>8. Alone1(es, head)
  BY <1>6 DEF Alone1
<1>. HIDE DEF es, j, found
<1>. QED BY <1>5, <1>7, <1>8 DEF es, j, found

\* The row that qs_pivot_graph_collect leaves.
LEMMA CollectedRow ==
  ASSUME NEW edges \in Seq(Edges), NEW head, NEW got, GatheredTo(edges, got, head, Len(edges)), Len(got.found) >= 2,
         NEW e \in Edges, e.head = head, NEW q, q = [got.edges EXCEPT ![IndexOf(got.edges, head)] = e]
  PROVE  Collected(edges, q, head) /\ q \in Seq(Edges) /\ Len(q) = Len(got.edges)
<1>. DEFINE es == got.edges
            x == IndexOf(es, head)
<1>1. FirstAt(edges, es, got.j, got.found, head, x) /\ x \in 1 .. Len(es) /\ Alone1(es, head)
  BY GatheredFirst
<1>2. es \in Seq(Edges) /\ Thinned(edges, es) /\ Len(es) \in Nat /\ Len(edges) \in Nat
  BY DEF GatheredTo, GatheredBy
<1>3. IsChanged(q, Edges, es, x, e)
  BY <1>1, <1>2, ChangedIs
<1>4. es[x].head = head /\ \A a \in 1 .. Len(es) : a <= x => es[a] = edges[a]
  BY <1>1 DEF FirstAt
<1>. HIDE DEF x, es
<1>5. q \in Seq(Edges) /\ Len(q) = Len(es) /\ \A a \in 1 .. Len(q) : a \in 1 .. Len(es) /\ q[a].head = es[a].head
  BY <1>3, <1>4 DEF IsChanged
<1>6. ASSUME NEW h, Alone1(es, h) PROVE Alone1(q, h)
  BY <1>5, <1>6, SMTT(30) DEF Alone1
<1>7. ASSUME NEW h, Alone1(edges, h) PROVE Alone1(q, h)
  BY <1>2, <1>6, <1>7 DEF Thinned
<1>8. ASSUME NEW b \in 1 .. Len(edges), \A a \in 1 .. Len(edges) : a < b => edges[a].head # head,
             NEW a \in 1 .. Len(q), a <= b
      PROVE  q[a].head = edges[a].head
  <2>1. x \in 1 .. Len(edges) /\ edges[x].head = head /\ x \in Nat
    <3>1. Len(es) <= Len(edges)
      BY <1>2 DEF Thinned
    <3>2. x \in 1 .. Len(edges) /\ x <= x /\ x \in Nat
      BY <1>1, <1>2, <3>1
    <3>. QED BY <1>1, <1>4, <3>2
  <2>2. ~ (x < b)
    BY <1>8, <2>1
  <2>3. a <= x
    BY <1>2, <1>8, <2>1, <2>2
  <2>4. a \in 1 .. Len(es)
    BY <1>5
  <2>. QED BY <1>4, <1>5, <2>3, <2>4
<1>9. Len(q) <= Len(edges)
  BY <1>2, <1>5 DEF Thinned
<1>. QED BY <1>1, <1>5, <1>6, <1>7, <1>8, <1>9 DEF Collected, es

\* What the edges of i refer to after that.
LEMMA CollectedOutside ==
  ASSUME NEW r \in [Pivot -> Seq(Edges)], NEW L \in [Nat -> Nat], NEW i \in Pivot, NEW head, NEW got,
         GatheredTo(r[i], got, head, Len(r[i])), Len(got.found) >= 2,
         NEW f \in Nat, NEW n \in Nat, NEW e \in Edges, e.coefficient = f, e.numeric = n,
         NEW q, q = [got.edges EXCEPT ![IndexOf(got.edges, head)] = e]
  PROVE  Relinking(Outside(r, L), Coefficients(got.found), Numerics(got.found), f, n, Outside([r EXCEPT ![i] = q], L))
<1>. DEFINE es == got.edges
            j == IndexOf(es, head)
            found == got.found
            cs == Coefficients(found)
            ns == Numerics(found)
            H == Outside(r, L)
            K == Outside([r EXCEPT ![i] = q], L)
            edges == r[i]
<1>1. FirstAt(edges, es, got.j, found, head, j) /\ j \in 1 .. Len(es)
  BY GatheredFirst
<1>2. es \in Seq(Edges) /\ found \in Seq(Edges) /\ Len(found) >= 2 /\ \A o : EdgeUses(edges, o) = EdgeUses(es, o) + Rest(found, o)
  BY DEF GatheredTo, GatheredBy
<1>3. es[j] = found[1] /\ found # <<>>
  BY <1>1, <1>2 DEF FirstAt
<1>4. q \in Seq(Edges)
  <2>1. IsChanged(q, Edges, es, j, e)
    BY <1>1, <1>2, ChangedIs
  <2>. QED BY <2>1 DEF IsChanged
<1>5. H \in [Nat -> Nat] /\ K \in [Nat -> Nat]
  <2>1. [r EXCEPT ![i] = q] \in [Pivot -> Seq(Edges)]
    BY <1>4
  <2>. QED BY <2>1, OutsideIs
<1>6. ASSUME NEW x \in Nat PROVE K[x] = H[x] - (Occurrences(cs, x) + Occurrences(ns, x)) + Is(f, x) + Is(n, x)
  <2>. DEFINE a == H[x]
              b == K[x]
              l == L[x]
              u == EdgeUses(edges, x)
              v == EdgeUses(q, x)
              w == EdgeUses(es, x)
              y == EdgeUses(found, x)
              z == Touches(found[1], x)
              p == Is(f, x)
              m == Is(n, x)
              d == Touches(e, x)
  <2>1. b = a - u + v - l + l
    <3>1. RowChanged(r, L, L, i, q, x)
      BY <1>4, OutsideChange
    <3>. QED BY <3>1 DEF RowChanged
  <2>2. u = w + (y - z)
    BY <1>2, <1>3 DEF Rest
  <2>3. v = w - z + d
    <3>1. EdgeUses([es EXCEPT ![j] = e], x) = EdgeUses(es, x) - Touches(es[j], x) + Touches(e, x)
      BY <1>1, <1>2, EdgeUsesChange
    <3>. QED BY <1>3, <3>1
  <2>4. d = p + m
    BY DEF Touches
  <2>5. y = Occurrences(cs, x) + Occurrences(ns, x)
    BY DEF EdgeUses
  <2>6. a \in Nat /\ b \in Nat /\ l \in Nat /\ w \in Nat /\ y \in Nat /\ z \in Nat /\ p \in Nat /\ m \in Nat
    <3>1. w \in Nat /\ y \in Nat
      BY <1>2, EdgeUsesSum
    <3>2. z \in Nat
      BY TouchesIs
    <3>3. p \in Nat /\ m \in Nat
      BY DEF Is
    <3>. QED BY <1>5, <3>1, <3>2, <3>3
  <2>. HIDE DEF a, b, l, u, v, w, y, z, p, m, d
  <2>7. b = a - y + p + m
    BY <2>1, <2>2, <2>3, <2>4, <2>6
  <2>. QED BY <2>5, <2>7 DEF a, b, p, m
<1>. HIDE DEF H, K, cs, ns
<1>7. Relinking(H, cs, ns, f, n, K)
  BY <1>5, <1>6 DEF Relinking
<1>. QED BY <1>7 DEF H, K, cs, ns

CollectedWell(g, y, L, tail, head) ==
  /\ Whole(y, L) /\ Collected(g.refs[tail], y.refs[tail], head)
  /\ \A p \in Pivot : p # tail => y.refs[p] = g.refs[p]

\* The edge that replaces those that were collected fits.
LEMMA CollectFits ==
  ASSUME NEW g, NEW L, Whole(g, L), NEW i \in Pivot, NEW es \in Seq(Edges), Thinned(g.refs[i], es),
         NEW j \in 1 .. Len(es), NEW e \in Edges, NEW t, t[e.coefficient].val = t[e.numeric].val,
         Ends(e) \cap DOMAIN g.op = {}
  PROVE  Fits(g, i, [es EXCEPT ![j] = e], t)
<1>. DEFINE q == [es EXCEPT ![j] = e]
            edges == g.refs[i]
<1>1. IsChanged(q, Edges, es, j, e)
  BY ChangedIs
<1>. HIDE DEF q
<1>2. q \in Seq(Edges) /\ Len(q) = Len(es) /\ q[j] = e /\ \A k \in 1 .. Len(q) : k \in 1 .. Len(es) /\ (k # j => q[k] = es[k])
  BY <1>1 DEF IsChanged
<1>3. One \in DOMAIN g.op
  BY WholeIs
<1>4. ASSUME NEW k \in 1 .. Len(es) PROVE \E m \in 1 .. Len(edges) : es[k] = edges[m]
  BY DEF Thinned
<1>5. ASSUME NEW k \in 1 .. Len(es) PROVE Ends(es[k]) \subseteq DOMAIN g.op
  <2>1. PICK m \in 1 .. Len(edges) : es[k] = edges[m]
    BY <1>4
  <2>2. FineEdge(g, i, m)
    BY WholeEdge
  <2>. QED BY <2>1, <2>2 DEF FineEdge
<1>6. Disjoint(es)
  <2>1. ASSUME NEW k \in 1 .. Len(edges), NEW m \in 1 .. Len(edges), k # m
        PROVE  Ends(edges[k]) \cap Ends(edges[m]) \subseteq {One}
    BY <2>1, OwnApart
  <2>2. Disjoint(edges)
    BY <2>1 DEF Disjoint
  <2>. QED BY <2>2 DEF Thinned
<1>7. Fitting(g, i, e, t)
  <2>1. \A o \in Ends(e) : o \notin DOMAIN g.op
    OBVIOUS
  <2>2. One \notin Ends(e)
    BY <1>3, <2>1
  <2>. QED BY <2>1, <2>2 DEF Fitting
<1>8. ASSUME NEW k \in 1 .. Len(q)
      PROVE  (\E m \in 1 .. Len(g.refs[i]) : q[k] = g.refs[i][m]) \/ Fitting(g, i, q[k], t)
  <2>1. CASE k = j
    BY <1>2, <1>7, <2>1
  <2>2. CASE k # j
    BY <1>2, <1>4, <2>2
  <2>. QED BY <2>1, <2>2
<1>9. ASSUME NEW k \in 1 .. Len(q), NEW m \in 1 .. Len(q), m # k PROVE Ends(q[k]) \cap Ends(q[m]) \subseteq {One}
  <2>1. CASE k = j
    <3>1. q[m] = es[m] /\ m \in 1 .. Len(es) /\ q[k] = e
      BY <1>2, <1>9, <2>1
    <3>. QED BY <1>5, <3>1
  <2>2. CASE m = j
    <3>1. q[k] = es[k] /\ k \in 1 .. Len(es) /\ q[m] = e
      BY <1>2, <1>9, <2>2
    <3>. QED BY <1>5, <3>1
  <2>3. CASE k # j /\ m # j
    <3>1. q[k] = es[k] /\ q[m] = es[m] /\ k \in 1 .. Len(es) /\ m \in 1 .. Len(es)
      BY <1>2, <2>3
    <3>. QED BY <1>6, <1>9, <3>1 DEF Disjoint
  <2>. QED BY <2>1, <2>2, <2>3
<1>10. Fits(g, i, q, t)
  BY <1>8, <1>9, Zenon DEF Fits
<1>. QED BY <1>10 DEF q

\* qs_pivot_graph_collect
LEMMA CollectSound ==
  ASSUME NEW g, NEW L, Whole(g, L), NEW tail \in Pivot, NEW head \in Integral
  PROVE  CollectedWell(g, Collect(g, tail, head), L, tail, head)
<1>. DEFINE edges == g.refs[tail]
            got == Gathered(edges, head)
            found == got.found
            cs == Coefficients(found)
            ns == Numerics(found)
            s == g.op
            u == Sum(s, cs)
            v == Sum(s, ns)
            a == Link(s, cs, u)
            b == Link(a, ns, v)
            j == IndexOf(got.edges, head)
            f == Fresh(s)
            n == Fresh(a)
            e == Edge(head, f, n)
            q == [got.edges EXCEPT ![j] = e]
            t == ReleaseEdges(b, found)
            y == [refs |-> [g.refs EXCEPT ![tail] = q], op |-> t]
<1>1. /\ g.refs \in [Pivot -> Seq(Edges)] /\ L \in [Nat -> Nat] /\ Store(s) /\ Sound(s, Outside(g.refs, L))
      /\ L[One] >= 1
  BY WholeIs DEF Whole
<1>2. edges \in Seq(Edges) /\ Len(edges) \in Nat
  BY <1>1, RowIs
<1>3. GatheredTo(edges, got, head, Len(edges))
  BY <1>2, GatheredIs
<1>4. CASE Len(found) < 2
  <2>1. Collect(g, tail, head) = g
    BY <1>4, Zenon DEF Collect
  <2>2. Alone1(edges, head)
    BY <1>2, <1>3, <1>4, GatheredSingle
  <2>. HIDE DEF edges
  <2>3. Collected(edges, edges, head)
    BY <1>2, <2>2 DEF Collected
  <2>. QED BY <2>1, <2>3 DEF CollectedWell, edges
<1>5. CASE ~ (Len(found) < 2)
  <2>1. Collect(g, tail, head) = y
    BY <1>5, Zenon DEF Collect
  <2>. HIDE DEF got
  <2>2. GatheredBy(edges, got.edges, got.j, found, head)
    BY <1>3 DEF GatheredTo
  <2>3. found \in Seq(Edges) /\ Thinned(edges, got.edges) /\ got.edges \in Seq(Edges)
        /\ \A k \in 1 .. Len(found) : \E m \in 1 .. Len(edges) : found[k] = edges[m]
    BY <2>2 DEF GatheredBy
  <2>4. Len(found) >= 2
    <3>. DEFINE l == Len(found)
    <3>1. l \in Nat /\ ~ (l < 2)
      BY <1>5, <2>3
    <3>. HIDE DEF l
    <3>2. l >= 2
      BY <3>1
    <3>. QED BY <3>2 DEF l
  <2>5. Agreeing(s, found)
    <3>1. ASSUME NEW k \in 1 .. Len(found)
          PROVE  /\ found[k].coefficient \in DOMAIN s /\ found[k].numeric \in DOMAIN s
                 /\ s[found[k].coefficient].val = s[found[k].numeric].val
      <4>1. PICK m \in 1 .. Len(edges) : found[k] = edges[m]
        BY <2>3
      <4>2. FineEdge(g, tail, m)
        BY WholeEdge
      <4>. QED BY <4>1, <4>2 DEF FineEdge
    <3>. QED BY <3>1 DEF Agreeing
  <2>6. SumsAgree(s, cs, ns)
    BY <1>1, <2>3, <2>5, SumsAre
  <2>. HIDE DEF cs, ns
  <2>7. cs \in Seq(DOMAIN s) /\ ns \in Seq(DOMAIN s) /\ u \in Int /\ v = u
    BY <2>6 DEF SumsAgree
  <2>. HIDE DEF u, v
  <2>8. Linking(s, cs, ns, u, v, a, b, f, n)
    BY DEF Linking
  <2>9. t = Release(b, [x \in DOMAIN b |-> Occurrences(cs, x) + Occurrences(ns, x)])
    BY DEF ReleaseEdges, EdgeUses, cs, ns
  <2>. HIDE DEF a, b, t
  <2>10. f \in Nat /\ n \in Nat
    <3>1. Linked(s, b, cs, ns, u, v, f, n)
      <4>. HIDE DEF f, n
      <4>. QED BY <1>1, <2>7, <2>8, LinkTwice
    <3>. HIDE DEF f, n
    <3>. QED BY <3>1 DEF Linked
  <2>. HIDE DEF f, n
  <2>11. e \in Edges /\ e.head = head /\ e.coefficient = f /\ e.numeric = n /\ Ends(e) = {f, n}
    BY <2>10 DEF Edge, Edges, Ends
  <2>. HIDE DEF e
  <2>12. Collected(edges, q, head) /\ q \in Seq(Edges)
    BY <1>2, <1>3, <2>4, <2>11, CollectedRow
  <2>. DEFINE K == Outside([g.refs EXCEPT ![tail] = q], L)
              H == Outside(g.refs, L)
  <2>13. Relinking(H, cs, ns, f, n, K)
    <3>. HIDE DEF q
    <3>1. q = [got.edges EXCEPT ![IndexOf(got.edges, head)] = e]
      BY DEF q
    <3>. QED BY <1>1, <1>3, <2>4, <2>10, <2>11, <3>1, CollectedOutside DEF cs, ns
  <2>14. j \in 1 .. Len(got.edges)
    BY <1>2, <1>3, <2>4, GatheredFirst
  <2>. DEFINE Made == /\ Sound(t, K) /\ f # n /\ f \notin DOMAIN s /\ n \notin DOMAIN s
                      /\ t[f].val = u % P /\ t[n].val = v % P /\ Later(s, t)
  <2>15. Made
    <3>. HIDE DEF K, H
    <3>1. Sound(s, H)
      BY <1>1 DEF H
    <3>2. v \in Int
      BY <2>7
    <3>. QED BY <2>7, <2>8, <2>9, <2>13, <3>1, <3>2, RelinkSound
  <2>16. Ends(e) \cap DOMAIN s = {} /\ t[e.coefficient].val = t[e.numeric].val
    BY <2>7, <2>11, <2>15
  <2>17. Fits(g, tail, q, t)
    <3>. HIDE DEF j
    <3>. QED BY <2>3, <2>11, <2>14, <2>16, CollectFits
  <2>. HIDE DEF q
  <2>18. Whole(y, L)
    BY <1>1, <2>12, <2>15, <2>17, WholeChange
  <2>19. y.refs[tail] = q /\ \A p \in Pivot : p # tail => y.refs[p] = g.refs[p]
    BY <1>1
  <2>. HIDE DEF y
  <2>. QED BY <2>1, <2>12, <2>18, <2>19 DEF CollectedWell
<1>. QED BY <1>4, <1>5

\* How cks() collects the edges of tail.
Collecting(f, g, tail, n) == f[0] = g /\ \A k \in 1 .. n : f[k] = CollectNth(f[k - 1], tail, k)

\* The loop of cks() over the edges has a table of its intermediate graphs.
LEMMA CollectingIs ==
  ASSUME NEW g, NEW tail, Len(g.refs[tail]) \in Nat
  PROVE  \E f : Collecting(f, g, tail, Len(g.refs[tail])) /\ CollectAll(g, tail) = f[Len(g.refs[tail])]
<1>. DEFINE n == Len(g.refs[tail])
            IsIt(f, m) == f = [k \in 0 .. m |-> IF k = 0 THEN g ELSE CollectNth(f[k - 1], tail, k)]
            Good == {m \in Nat : \E f : IsIt(f, m)}
<1>1. 0 \in Good
  <2>. DEFINE h == [k \in 0 .. 0 |-> g]
  <2>1. \A k \in 0 .. 0 : h[k] = IF k = 0 THEN g ELSE CollectNth(h[k - 1], tail, k)
    OBVIOUS
  <2>2. IsIt(h, 0)
    BY <2>1
  <2>. QED BY <2>2
<1>2. ASSUME NEW m \in 0 .. (n - 1), m \in Good PROVE m + 1 \in Good
  <2>1. PICK f : IsIt(f, m)
    BY <1>2
  <2>. DEFINE h == [k \in 0 .. (m + 1) |-> IF k = m + 1 THEN CollectNth(f[m], tail, (m + 1)) ELSE f[k]]
  <2>2. \A k \in 0 .. m : h[k] = f[k] /\ f[k] = IF k = 0 THEN g ELSE CollectNth(f[k - 1], tail, k)
    BY <2>1
  <2>3. h[m + 1] = CollectNth(f[m], tail, (m + 1))
    OBVIOUS
  <2>4. ASSUME NEW k \in 0 .. (m + 1) PROVE h[k] = IF k = 0 THEN g ELSE CollectNth(h[k - 1], tail, k)
    <3>1. CASE k = 0
      <4>1. 0 \in 0 .. m
        OBVIOUS
      <4>2. h[0] = g
        BY <2>2, <4>1
      <4>. HIDE DEF h
      <4>. QED BY <3>1, <4>2
    <3>2. CASE k \in 1 .. m
      <4>1. k \in 0 .. m /\ k - 1 \in 0 .. m /\ k # 0
        BY <3>2
      <4>2. h[k] = f[k] /\ f[k] = CollectNth(f[k - 1], tail, k) /\ h[k - 1] = f[k - 1]
        BY <2>2, <4>1
      <4>. HIDE DEF h
      <4>. QED BY <4>1, <4>2
    <3>3. CASE k = m + 1
      <4>1. k # 0 /\ k - 1 = m /\ m \in 0 .. m
        BY <3>3
      <4>2. h[k - 1] = f[m]
        BY <2>2, <4>1
      <4>. HIDE DEF h
      <4>. QED BY <2>3, <3>3, <4>1, <4>2
    <3>. QED BY <3>1, <3>2, <3>3
  <2>5. IsIt(h, m + 1)
    <3>1. h = [k \in 0 .. (m + 1) |-> h[k]]
      OBVIOUS
    <3>. HIDE DEF h
    <3>. QED BY <2>4, <3>1
  <2>6. m + 1 \in Nat
    OBVIOUS
  <2>. HIDE DEF IsIt
  <2>. QED BY <2>5, <2>6
<1>3. n \in Good
  <2>. HIDE DEF Good
  <2>. QED BY <1>1, <1>2, StepByStep
<1>. DEFINE c == CHOOSE f : IsIt(f, n)
<1>4. IsIt(c, n)
  BY <1>3
<1>5. CollectAll(g, tail) = c[n]
  BY Zenon DEF CollectAll
<1>6. Collecting(c, g, tail, n)
  <2>1. n \in Nat
    OBVIOUS
  <2>2. \A k \in 0 .. n : c[k] = IF k = 0 THEN g ELSE CollectNth(c[k - 1], tail, k)
    BY <1>4
  <2>. HIDE DEF c, n, IsIt
  <2>3. 0 \in 0 .. n /\ \A k \in 1 .. n : k \in 0 .. n /\ k # 0
    BY <2>1
  <2>4. c[0] = g
    BY <2>2, <2>3
  <2>5. \A k \in 1 .. n : c[k] = CollectNth(c[k - 1], tail, k)
    BY <2>2, <2>3
  <2>. QED BY <2>4, <2>5 DEF Collecting
<1>. QED BY <1>5, <1>6

\* The heads of the first edges occur once.
Lone(es, k) == \A a \in 1 .. Len(es) : a <= k => Alone1(es, es[a].head)

CollectingWell(g, y, L, tail, k) ==
  /\ Whole(y, L) /\ Lone(y.refs[tail], k) /\ Len(y.refs[tail]) <= Len(g.refs[tail])
  /\ \A p \in Pivot : p # tail => y.refs[p] = g.refs[p]

\* One step of it.
LEMMA CollectNthSound ==
  ASSUME NEW g, NEW L, Whole(g, L), NEW tail \in Pivot, NEW k \in Nat, Lone(g.refs[tail], k)
  PROVE  CollectingWell(g, CollectNth(g, tail, k + 1), L, tail, k + 1)
<1>. DEFINE edges == g.refs[tail]
            head == edges[k + 1].head
            y == CollectNth(g, tail, k + 1)
            q == y.refs[tail]
<1>1. edges \in Seq(Edges) /\ Len(edges) \in Nat
  BY WholeIs, RowIs
<1>2. CASE k + 1 > Len(edges)
  <2>1. y = g
    BY <1>2 DEF CollectNth
  <2>2. \A a \in 1 .. Len(edges) : a <= k
    BY <1>1, <1>2
  <2>3. Lone(edges, k + 1)
    BY <2>2 DEF Lone
  <2>4. Len(edges) <= Len(edges)
    BY <1>1
  <2>. HIDE DEF y
  <2>5. CollectingWell(g, g, L, tail, k + 1)
    BY <2>3, <2>4 DEF CollectingWell
  <2>. QED BY <2>1, <2>5 DEF y
<1>3. CASE ~ (k + 1 > Len(edges))
  <2>1. y = Collect(g, tail, head)
    BY <1>3 DEF CollectNth
  <2>2. k + 1 \in 1 .. Len(edges)
    BY <1>1, <1>3
  <2>. HIDE DEF y
  <2>3. head \in Integral
    BY <1>1, <2>2, EdgeIs
  <2>4. CollectedWell(g, y, L, tail, head)
    BY <2>1, <2>3, CollectSound
  <2>5. /\ Whole(y, L) /\ Collected(edges, q, head) /\ \A p \in Pivot : p # tail => y.refs[p] = g.refs[p]
    BY <2>4 DEF CollectedWell
  <2>. HIDE DEF q, edges
  <2>6. \A a \in 1 .. Len(edges) : a < k + 1 => edges[a].head # head
    <3>1. ASSUME NEW a \in 1 .. Len(edges), a < k + 1, edges[a].head = head PROVE FALSE
      <4>1. a <= k
        BY <1>1, <3>1
      <4>2. Alone1(edges, head)
        BY <3>1, <4>1 DEF Lone, edges
      <4>3. a = k + 1
        BY <2>2, <3>1, <4>2 DEF Alone1
      <4>. QED BY <1>1, <3>1, <4>3
    <3>. QED BY <3>1
  <2>7. Len(q) <= Len(edges) /\ Alone1(q, head) /\ (\A h : Alone1(edges, h) => Alone1(q, h))
        /\ \A a \in 1 .. Len(q) : a <= k + 1 => q[a].head = edges[a].head
    BY <2>2, <2>5, <2>6 DEF Collected
  <2>8. q \in Seq(Edges) /\ Len(q) \in Nat
    BY <2>5, WholeIs, RowIs DEF q
  <2>9. ASSUME NEW a \in 1 .. Len(q), a <= k + 1 PROVE Alone1(q, q[a].head)
    <3>1. q[a].head = edges[a].head /\ a \in 1 .. Len(edges)
      BY <1>1, <2>7, <2>8, <2>9
    <3>2. CASE a = k + 1
      BY <2>7, <3>1, <3>2
    <3>3. CASE a # k + 1
      <4>1. a <= k
        BY <1>1, <2>9, <3>3
      <4>2. Alone1(edges, edges[a].head)
        BY <3>1, <4>1 DEF Lone, edges
      <4>. QED BY <2>7, <3>1, <4>2
    <3>. QED BY <3>2, <3>3
  <2>10. Lone(q, k + 1)
    BY <2>9 DEF Lone
  <2>11. Len(y.refs[tail]) <= Len(g.refs[tail]) /\ Lone(y.refs[tail], k + 1)
    BY <2>7, <2>10 DEF q, edges
  <2>12. CollectingWell(g, y, L, tail, k + 1)
    BY <2>5, <2>11 DEF CollectingWell
  <2>. QED BY <2>12 DEF y
<1>. QED BY <1>2, <1>3

\* After all edges were collected, no two have the same head.
LEMMA CollectedAll ==
  ASSUME NEW g, NEW L, Whole(g, L), NEW tail \in Pivot
  PROVE  /\ Whole(CollectAll(g, tail), L) /\ HeadsApart(CollectAll(g, tail).refs[tail])
         /\ \A p \in Pivot : p # tail => CollectAll(g, tail).refs[p] = g.refs[p]
<1>. DEFINE n == Len(g.refs[tail])
<1>1. n \in Nat
  BY WholeIs, RowIs
<1>2. PICK f : Collecting(f, g, tail, n) /\ CollectAll(g, tail) = f[n]
  BY <1>1, CollectingIs
<1>. HIDE DEF n
<1>. DEFINE Good == {k \in Nat : k <= n => CollectingWell(g, f[k], L, tail, k)}
<1>3. 0 \in Good
  <2>1. f[0] = g
    BY <1>2 DEF Collecting
  <2>2. Lone(g.refs[tail], 0)
    <3>1. Len(g.refs[tail]) \in Nat
      BY <1>1 DEF n
    <3>. QED BY <3>1 DEF Lone
  <2>3. n <= n
    BY <1>1
  <2>4. CollectingWell(g, f[0], L, tail, 0)
    BY <2>1, <2>2, <2>3 DEF CollectingWell, n
  <2>. QED BY <2>4
<1>4. ASSUME NEW k \in 0 .. (n - 1), k \in Good PROVE k + 1 \in Good
  <2>1. CollectingWell(g, f[k], L, tail, k) /\ k \in Nat /\ k + 1 \in 1 .. n /\ k + 1 \in Nat
    BY <1>1, <1>4
  <2>2. f[k + 1] = CollectNth(f[k], tail, k + 1)
    <3>1. \A x \in 1 .. n : f[x] = CollectNth(f[x - 1], tail, x)
      BY <1>2 DEF Collecting
    <3>2. k + 1 - 1 = k
      OBVIOUS
    <3>. QED BY <2>1, <3>1, <3>2
  <2>3. Whole(f[k], L) /\ Lone(f[k].refs[tail], k)
    BY <2>1 DEF CollectingWell
  <2>4. CollectingWell(f[k], f[k + 1], L, tail, k + 1)
    BY <2>1, <2>2, <2>3, CollectNthSound
  <2>5. CollectingWell(g, f[k + 1], L, tail, k + 1)
    <3>. DEFINE a == Len(g.refs[tail])
                b == Len(f[k].refs[tail])
                c == Len(f[k + 1].refs[tail])
    <3>1. a \in Nat /\ b \in Nat /\ c \in Nat
      <4>1. Whole(f[k + 1], L)
        BY <2>4 DEF CollectingWell
      <4>. QED BY <2>3, <4>1, WholeIs, RowIs
    <3>2. c <= b /\ b <= a
      BY <2>1, <2>4 DEF CollectingWell
    <3>. HIDE DEF a, b, c
    <3>3. c <= a
      BY <3>1, <3>2
    <3>. QED BY <2>1, <2>4, <3>3 DEF CollectingWell, a, c
  <2>. QED BY <2>1, <2>5
<1>5. n \in Good
  <2>. HIDE DEF Good
  <2>. QED BY <1>1, <1>3, <1>4, StepByStep
<1>6. CollectingWell(g, f[n], L, tail, n)
  BY <1>1, <1>5
<1>7. Whole(f[n], L) /\ Lone(f[n].refs[tail], n) /\ Len(f[n].refs[tail]) <= n
      /\ \A p \in Pivot : p # tail => f[n].refs[p] = g.refs[p]
  BY <1>6 DEF CollectingWell, n
<1>8. HeadsApart(f[n].refs[tail])
  <2>. DEFINE es == f[n].refs[tail]
  <2>1. es \in Seq(Edges) /\ Len(es) \in Nat /\ DOMAIN es = 1 .. Len(es)
    BY <1>7, WholeIs, RowIs
  <2>2. Lone(es, n) /\ Len(es) <= n
    BY <1>7
  <2>. HIDE DEF es
  <2>3. ASSUME NEW k \in DOMAIN es, NEW m \in DOMAIN es, es[k].head = es[m].head PROVE k = m
    <3>1. k \in 1 .. Len(es) /\ m \in 1 .. Len(es) /\ k <= n
      BY <1>1, <2>1, <2>2
    <3>2. Alone1(es, es[k].head)
      BY <2>2, <3>1 DEF Lone
    <3>. QED BY <2>3, <3>1, <3>2 DEF Alone1
  <2>4. HeadsApart(es)
    BY <2>3 DEF HeadsApart
  <2>. QED BY <2>4 DEF es
<1>. QED BY <1>2, <1>7, <1>8

HeadsOf(i) == SetToSeq(DOMAIN system[i])

\* How qs_pivot_graph_meta loads the edges of i, ...
Loading(f, g, i, n) == f[0] = g /\ \A k \in 1 .. n : f[k] = LoadEdge(f[k - 1], i, HeadsOf(i)[k], system[i][HeadsOf(i)[k]])

\* Loading the edges of a pivot has a table of its intermediate graphs.
LEMMA LoadingIs ==
  ASSUME NEW g, NEW i, Len(HeadsOf(i)) \in Nat
  PROVE  \E f : Loading(f, g, i, Len(HeadsOf(i))) /\ Load(g, i) = f[Len(HeadsOf(i))]
<1>. DEFINE n == Len(HeadsOf(i))
            IsIt(f, m) == f = [k \in 0 .. m |-> IF k = 0 THEN g ELSE LoadEdge(f[k - 1], i, HeadsOf(i)[k], system[i][HeadsOf(i)[k]])]
            Good == {m \in Nat : \E f : IsIt(f, m)}
<1>1. 0 \in Good
  <2>. DEFINE h == [k \in 0 .. 0 |-> g]
  <2>1. \A k \in 0 .. 0 : h[k] = IF k = 0 THEN g ELSE LoadEdge(h[k - 1], i, HeadsOf(i)[k], system[i][HeadsOf(i)[k]])
    OBVIOUS
  <2>2. IsIt(h, 0)
    BY <2>1
  <2>. QED BY <2>2
<1>2. ASSUME NEW m \in 0 .. (n - 1), m \in Good PROVE m + 1 \in Good
  <2>1. PICK f : IsIt(f, m)
    BY <1>2
  <2>. DEFINE h == [k \in 0 .. (m + 1) |-> IF k = m + 1 THEN LoadEdge(f[m], i, HeadsOf(i)[(m + 1)], system[i][HeadsOf(i)[(m + 1)]]) ELSE f[k]]
  <2>2. \A k \in 0 .. m : h[k] = f[k] /\ f[k] = IF k = 0 THEN g ELSE LoadEdge(f[k - 1], i, HeadsOf(i)[k], system[i][HeadsOf(i)[k]])
    BY <2>1
  <2>3. h[m + 1] = LoadEdge(f[m], i, HeadsOf(i)[(m + 1)], system[i][HeadsOf(i)[(m + 1)]])
    OBVIOUS
  <2>4. ASSUME NEW k \in 0 .. (m + 1) PROVE h[k] = IF k = 0 THEN g ELSE LoadEdge(h[k - 1], i, HeadsOf(i)[k], system[i][HeadsOf(i)[k]])
    <3>1. CASE k = 0
      <4>1. 0 \in 0 .. m
        OBVIOUS
      <4>2. h[0] = g
        BY <2>2, <4>1
      <4>. HIDE DEF h
      <4>. QED BY <3>1, <4>2
    <3>2. CASE k \in 1 .. m
      <4>1. k \in 0 .. m /\ k - 1 \in 0 .. m /\ k # 0
        BY <3>2
      <4>2. h[k] = f[k] /\ f[k] = LoadEdge(f[k - 1], i, HeadsOf(i)[k], system[i][HeadsOf(i)[k]]) /\ h[k - 1] = f[k - 1]
        BY <2>2, <4>1
      <4>. HIDE DEF h
      <4>. QED BY <4>1, <4>2
    <3>3. CASE k = m + 1
      <4>1. k # 0 /\ k - 1 = m /\ m \in 0 .. m
        BY <3>3
      <4>2. h[k - 1] = f[m]
        BY <2>2, <4>1
      <4>. HIDE DEF h
      <4>. QED BY <2>3, <3>3, <4>1, <4>2
    <3>. QED BY <3>1, <3>2, <3>3
  <2>5. IsIt(h, m + 1)
    <3>1. h = [k \in 0 .. (m + 1) |-> h[k]]
      OBVIOUS
    <3>. HIDE DEF h
    <3>. QED BY <2>4, <3>1
  <2>6. m + 1 \in Nat
    OBVIOUS
  <2>. HIDE DEF IsIt
  <2>. QED BY <2>5, <2>6
<1>3. n \in Good
  <2>. HIDE DEF Good
  <2>. QED BY <1>1, <1>2, StepByStep
<1>. DEFINE c == CHOOSE f : IsIt(f, n)
<1>4. IsIt(c, n)
  BY <1>3
<1>5. Load(g, i) = c[n]
  BY Zenon DEF Load, HeadsOf
<1>6. Loading(c, g, i, n)
  <2>1. n \in Nat
    OBVIOUS
  <2>2. \A k \in 0 .. n : c[k] = IF k = 0 THEN g ELSE LoadEdge(c[k - 1], i, HeadsOf(i)[k], system[i][HeadsOf(i)[k]])
    BY <1>4
  <2>. HIDE DEF c, n, IsIt
  <2>3. 0 \in 0 .. n /\ \A k \in 1 .. n : k \in 0 .. n /\ k # 0
    BY <2>1
  <2>4. c[0] = g
    BY <2>2, <2>3
  <2>5. \A k \in 1 .. n : c[k] = LoadEdge(c[k - 1], i, HeadsOf(i)[k], system[i][HeadsOf(i)[k]])
    BY <2>2, <2>3
  <2>. QED BY <2>4, <2>5 DEF Loading
<1>. QED BY <1>5, <1>6

\* ... and of all pivots.
LoadingEvery(f, g, pivots, n) == f[0] = g /\ \A k \in 1 .. n : f[k] = Load(f[k - 1], pivots[k])

LEMMA LoadingEveryIs ==
  ASSUME NEW g, NEW pivots, Len(pivots) \in Nat
  PROVE  \E f : LoadingEvery(f, g, pivots, Len(pivots)) /\ LoadEvery(g, pivots) = f[Len(pivots)]
<1>. DEFINE n == Len(pivots)
            IsIt(f, m) == f = [k \in 0 .. m |-> IF k = 0 THEN g ELSE Load(f[k - 1], pivots[k])]
            Good == {m \in Nat : \E f : IsIt(f, m)}
<1>1. 0 \in Good
  <2>. DEFINE h == [k \in 0 .. 0 |-> g]
  <2>1. \A k \in 0 .. 0 : h[k] = IF k = 0 THEN g ELSE Load(h[k - 1], pivots[k])
    OBVIOUS
  <2>2. IsIt(h, 0)
    BY <2>1
  <2>. QED BY <2>2
<1>2. ASSUME NEW m \in 0 .. (n - 1), m \in Good PROVE m + 1 \in Good
  <2>1. PICK f : IsIt(f, m)
    BY <1>2
  <2>. DEFINE h == [k \in 0 .. (m + 1) |-> IF k = m + 1 THEN Load(f[m], pivots[(m + 1)]) ELSE f[k]]
  <2>2. \A k \in 0 .. m : h[k] = f[k] /\ f[k] = IF k = 0 THEN g ELSE Load(f[k - 1], pivots[k])
    BY <2>1
  <2>3. h[m + 1] = Load(f[m], pivots[(m + 1)])
    OBVIOUS
  <2>4. ASSUME NEW k \in 0 .. (m + 1) PROVE h[k] = IF k = 0 THEN g ELSE Load(h[k - 1], pivots[k])
    <3>1. CASE k = 0
      <4>1. 0 \in 0 .. m
        OBVIOUS
      <4>2. h[0] = g
        BY <2>2, <4>1
      <4>. HIDE DEF h
      <4>. QED BY <3>1, <4>2
    <3>2. CASE k \in 1 .. m
      <4>1. k \in 0 .. m /\ k - 1 \in 0 .. m /\ k # 0
        BY <3>2
      <4>2. h[k] = f[k] /\ f[k] = Load(f[k - 1], pivots[k]) /\ h[k - 1] = f[k - 1]
        BY <2>2, <4>1
      <4>. HIDE DEF h
      <4>. QED BY <4>1, <4>2
    <3>3. CASE k = m + 1
      <4>1. k # 0 /\ k - 1 = m /\ m \in 0 .. m
        BY <3>3
      <4>2. h[k - 1] = f[m]
        BY <2>2, <4>1
      <4>. HIDE DEF h
      <4>. QED BY <2>3, <3>3, <4>1, <4>2
    <3>. QED BY <3>1, <3>2, <3>3
  <2>5. IsIt(h, m + 1)
    <3>1. h = [k \in 0 .. (m + 1) |-> h[k]]
      OBVIOUS
    <3>. HIDE DEF h
    <3>. QED BY <2>4, <3>1
  <2>6. m + 1 \in Nat
    OBVIOUS
  <2>. HIDE DEF IsIt
  <2>. QED BY <2>5, <2>6
<1>3. n \in Good
  <2>. HIDE DEF Good
  <2>. QED BY <1>1, <1>2, StepByStep
<1>. DEFINE c == CHOOSE f : IsIt(f, n)
<1>4. IsIt(c, n)
  BY <1>3
<1>5. LoadEvery(g, pivots) = c[n]
  BY Zenon DEF LoadEvery
<1>6. LoadingEvery(c, g, pivots, n)
  <2>1. n \in Nat
    OBVIOUS
  <2>2. \A k \in 0 .. n : c[k] = IF k = 0 THEN g ELSE Load(c[k - 1], pivots[k])
    BY <1>4
  <2>. HIDE DEF c, n, IsIt
  <2>3. 0 \in 0 .. n /\ \A k \in 1 .. n : k \in 0 .. n /\ k # 0
    BY <2>1
  <2>4. c[0] = g
    BY <2>2, <2>3
  <2>5. \A k \in 1 .. n : c[k] = Load(c[k - 1], pivots[k])
    BY <2>2, <2>3
  <2>. QED BY <2>4, <2>5 DEF LoadingEvery
<1>. QED BY <1>5, <1>6

\* What eliminating does to the rows: the heads of one pivot are collected, those of the
\* others stay.
LEMMA EliminateSound ==
  ASSUME NEW g, NEW L, Whole(g, L), \A p \in Pivot : HeadsApart(g.refs[p]),
         NEW tail \in Pivot, NEW head \in Pivot, head # tail,
         NEW h, h = CollectAll(Relay(g, tail, head), tail)
  PROVE  Whole(h, L) /\ \A p \in Pivot : HeadsApart(h.refs[p])
<1>. DEFINE y == Relay(g, tail, head)
<1>1. Whole(y, L) /\ HeadsBut(g.refs, y.refs, tail)
  BY RelaySound DEF RelayedWell
<1>. HIDE DEF y
<1>2. h = CollectAll(y, tail)
  BY DEF y
<1>3. Whole(h, L) /\ HeadsApart(h.refs[tail]) /\ \A p \in Pivot : p # tail => h.refs[p] = y.refs[p]
  BY <1>1, <1>2, CollectedAll, SMTT(30)
<1>4. g.refs \in [Pivot -> Seq(Edges)] /\ y.refs \in [Pivot -> Seq(Edges)]
  BY <1>1, WholeIs
<1>5. ASSUME NEW p \in Pivot, p # tail PROVE HeadsApart(h.refs[p])
  <2>1. h.refs[p] = y.refs[p] /\ HeadsApart(g.refs[p])
    BY <1>3, <1>5
  <2>2. /\ Len(y.refs[p]) = Len(g.refs[p])
        /\ \A k \in 1 .. Len(g.refs[p]) : y.refs[p][k].head = g.refs[p][k].head
    BY <1>1, <1>5 DEF HeadsBut
  <2>3. DOMAIN y.refs[p] = 1 .. Len(y.refs[p]) /\ DOMAIN g.refs[p] = 1 .. Len(g.refs[p])
    BY <1>4, RowIs
  <2>4. HeadsApart(y.refs[p])
    BY <2>1, <2>2, <2>3 DEF HeadsApart
  <2>. QED BY <2>1, <2>4
<1>. QED BY <1>3, <1>5

-----------------------------------------------------------------------------
(* Loading *)

LoadedIs(s, t, f, val, H) ==
  /\ Sound(t, H) /\ f \in Nat /\ f \notin DOMAIN s /\ DOMAIN t = DOMAIN s \cup {f}
  /\ t[f].val = val /\ t[f].done /\ \A o \in DOMAIN s : t[o] = s[o]

\* An operand that is loaded is new and finished, and the edge has both its references.
LEMMA LoadedSound ==
  ASSUME NEW s, NEW H, Sound(s, H), NEW val \in Coefficient, NEW f, f = Fresh(s),
         NEW t, t = Merge([n \in {f} |-> LoadedOperand(val, 2)], s)
  PROVE  LoadedIs(s, t, f, val, More(H, f, f))
<1>. DEFINE D == DOMAIN s
            new == LoadedOperand(val, 2)
            K == More(H, f, f)
<1>1. Store(s) /\ Counted(s, H) /\ Single(s, H)
  BY DEF Sound
<1>2. f \in Nat /\ f \notin D
  BY <1>1, FreshIs
<1>3. /\ new.kind = "terminal" /\ new.args = <<>> /\ new.val = val /\ new.count = 2 /\ new.done = TRUE
      /\ new.dropped = FALSE /\ new.uses = 0
  BY DEF LoadedOperand
<1>4. new \in Operand
  BY DEF LoadedOperand, Operand
<1>. HIDE DEF new
<1>5. t = [x \in {f} \cup D |-> IF x \in {f} THEN new ELSE s[x]]
  <2>. DEFINE a == [n \in {f} |-> new]
  <2>1. Merge(a, s) = [x \in DOMAIN a \cup D |-> IF x \in DOMAIN a THEN a[x] ELSE s[x]]
    BY MergeIs
  <2>2. t = Merge(a, s)
    BY DEF new
  <2>3. DOMAIN a = {f} /\ a[f] = new
    OBVIOUS
  <2>. HIDE DEF a
  <2>. QED BY <2>1, <2>2, <2>3
<1>6. DOMAIN t = D \cup {f} /\ t[f] = new /\ \A o \in D : t[o] = s[o]
  BY <1>2, <1>5
<1>7. t = [o \in D \cup {f} |-> t[o]]
  BY <1>5, <1>6
<1>8. Store(t)
  <2>1. IsFiniteSet(D \cup {f}) /\ D \cup {f} \subseteq Nat
    BY <1>1, <1>2, FS_AddElement DEF Store
  <2>2. \A o \in D : s[o] \in Operand
    BY <1>1, StoreIs
  <2>3. t \in [D \cup {f} -> Operand]
    BY <1>4, <1>6, <1>7, <2>2
  <2>4. ASSUME NEW o \in D
        PROVE  /\ t[o].args \in Seq(D \cup {f})
               /\ t[o].done => t[o].args = <<>>
               /\ ~IsTerminal(t, o) => ~t[o].done /\ ~t[o].dropped
               /\ IsTerminal(t, o) => t[o].uses = 0
    <3>1. s[o].args \in Seq(D)
      BY <1>1, StoreIs
    <3>2. s[o].args \in Seq(D \cup {f})
      <4>1. D \subseteq D \cup {f}
        OBVIOUS
      <4>. QED BY <3>1, <4>1, SeqMonotonic
    <3>3. t[o] = s[o]
      BY <1>6
    <3>. QED BY <1>1, <3>2, <3>3 DEF Store, IsTerminal
  <2>5. /\ t[f].args \in Seq(D \cup {f})
        /\ t[f].done => t[f].args = <<>>
        /\ ~IsTerminal(t, f) => ~t[f].done /\ ~t[f].dropped
        /\ IsTerminal(t, f) => t[f].uses = 0
    <3>1. t[f].args = <<>> /\ IsTerminal(t, f) /\ t[f].uses = 0
      BY <1>3, <1>6 DEF IsTerminal
    <3>2. <<>> \in Seq(D \cup {f})
      OBVIOUS
    <3>. QED BY <3>1, <3>2
  <2>. QED BY <1>6, <2>1, <2>3, <2>4, <2>5 DEF Store
<1>9. H \in [Nat -> Nat] /\ H[f] = 0 /\ \A o \in Nat : K[o] = H[o] + Is(f, o) + Is(f, o)
  BY <1>1, <1>2 DEF Counted, More
<1>10. K \in [Nat -> Nat] /\ K[f] = 2 /\ \A o \in Nat \ {f} : K[o] = H[o]
  <2>1. \A o \in Nat : H[o] \in Nat /\ Is(f, o) \in Nat
    BY <1>9 DEF Is
  <2>2. Is(f, f) = 1 /\ \A o \in Nat \ {f} : Is(f, o) = 0
    BY DEF Is
  <2>3. K = [x \in Nat |-> H[x] + Is(f, x) + Is(f, x)]
    BY DEF More
  <2>. HIDE DEF K
  <2>. QED BY <1>2, <1>9, <2>1, <2>2, <2>3
<1>. HIDE DEF K
<1>11. ASSUME NEW o PROVE Uses(t, D \cup {f}, o) = Uses(s, D, o) /\ Uses(s, D, o) \in Nat
  <2>1. Occurrences(t[f].args, o) = 0
    BY <1>3, <1>6, OccurrencesShort, ZenonT(40)
  <2>2. Uses(t, D, o) = Uses(s, D, o)
    BY <1>1, <1>6, UsesSame
  <2>. DEFINE h == [n \in D \cup {f} |-> Occurrences(t[n].args, o)]
              v == [n \in D |-> Occurrences(t[n].args, o)]
  <2>3. \A n \in D \cup {f} : Occurrences(t[n].args, o) \in Nat
    BY <1>6, <1>8, UsesIs
  <2>4. IsFiniteSet(D)
    BY <1>1 DEF Store
  <2>5. \A n \in D : h[n] = v[n] /\ v[n] \in Int
    BY <2>3
  <2>6. h[f] = 0 /\ \A n \in D \cup {f} : h[n] \in Int
    BY <2>1, <2>3
  <2>. HIDE DEF h, v
  <2>7. SumOf(h, D \cup {f}) = h[f] + SumOf(h, D)
    BY <1>2, <2>4, <2>6, SumInsert
  <2>8. SumOf(h, D) = SumOf(v, D)
    BY <2>4, <2>5, SumSame
  <2>9. Uses(t, D \cup {f}, o) = SumOf(h, D \cup {f}) /\ Uses(t, D, o) = SumOf(v, D)
    BY DEF Uses, h, v
  <2>10. Uses(s, D, o) \in Nat
    BY <1>1, UsesIs
  <2>. QED BY <2>2, <2>6, <2>7, <2>8, <2>9, <2>10
<1>12. Uses(s, D, f) = 0
  <2>. DEFINE g == [n \in D |-> Occurrences(s[n].args, f)]
  <2>1. \A n \in D : g[n] = 0
    <3>1. ASSUME NEW n \in D PROVE Occurrences(s[n].args, f) = 0
      <4>1. s[n].args \in Seq(D)
        BY <1>1, StoreIs
      <4>2. \A k \in 1 .. Len(s[n].args) : s[n].args[k] # f
        BY <1>2, <4>1, ElementOfSeq
      <4>. QED BY <4>1, <4>2, OccurrencesSum
    <3>. QED BY <3>1
  <2>2. IsFiniteSet(D)
    BY <1>1 DEF Store
  <2>. HIDE DEF g
  <2>3. SumOf(g, D) = 0
    BY <2>1, <2>2, SumZero
  <2>. QED BY <2>3 DEF Uses, g
<1>13. Counted(t, K)
  <2>1. ASSUME NEW o \in D PROVE t[o].count = Uses(t, DOMAIN t, o) + Drop(t, o) + K[o]
    <3>1. s[o].count = Uses(s, D, o) + Drop(s, o) + H[o]
      BY <1>1 DEF Counted
    <3>2. o \in Nat \ {f} /\ t[o] = s[o]
      BY <1>1, <1>2, <1>6 DEF Store
    <3>3. Drop(t, o) = Drop(s, o)
      BY <3>2 DEF Drop
    <3>4. K[o] = H[o]
      BY <1>10, <3>2
    <3>. QED BY <1>6, <1>11, <3>1, <3>2, <3>3, <3>4
  <2>2. t[f].count = Uses(t, DOMAIN t, f) + Drop(t, f) + K[f]
    <3>1. t[f].count = 2 /\ Drop(t, f) = 0
      BY <1>3, <1>6 DEF Drop
    <3>2. Uses(t, DOMAIN t, f) = 0
      BY <1>6, <1>11, <1>12
    <3>. QED BY <1>10, <3>1, <3>2
  <2>3. \A o \in Nat \ DOMAIN t : K[o] = 0
    BY <1>1, <1>6, <1>10 DEF Counted
  <2>. QED BY <1>6, <1>10, <2>1, <2>2, <2>3 DEF Counted
<1>14. Single(t, K)
  <2>1. ASSUME NEW o \in DOMAIN t, ~t[o].done PROVE t[o].uses + K[o] + Drop(t, o) <= 1
    <3>1. o # f
      BY <1>3, <1>6, <2>1
    <3>2. o \in D /\ o \in Nat \ {f}
      BY <1>1, <1>6, <3>1 DEF Store
    <3>3. t[o] = s[o]
      BY <1>6, <3>2
    <3>4. s[o].uses + H[o] + Drop(s, o) <= 1
      BY <1>1, <2>1, <3>2, <3>3 DEF Single
    <3>5. Drop(t, o) = Drop(s, o) /\ K[o] = H[o]
      BY <1>10, <3>2, <3>3 DEF Drop
    <3>. QED BY <3>3, <3>4, <3>5
  <2>. QED BY <2>1 DEF Single
<1>15. Sound(t, K)
  BY <1>8, <1>13, <1>14 DEF Sound
<1>16. t[f].val = val /\ t[f].done
  BY <1>3, <1>6
<1>. QED BY <1>2, <1>6, <1>15, <1>16 DEF LoadedIs, K

LoadedWell(g, h, L, i, head) ==
  /\ Whole(h, L) /\ Len(h.refs[i]) = Len(g.refs[i]) + 1 /\ h.refs[i][Len(g.refs[i]) + 1].head = head
  /\ \A k \in 1 .. Len(g.refs[i]) : h.refs[i][k] = g.refs[i][k]
  /\ \A p \in Pivot : p # i => h.refs[p] = g.refs[p]

\* qs_pivot_graph_meta loads an edge: one operand with two references.
LEMMA LoadEdgeSound ==
  ASSUME NEW g, NEW L, Whole(g, L), NEW i \in Pivot, NEW head \in Integral, NEW val \in Coefficient
  PROVE  LoadedWell(g, LoadEdge(g, i, head, val), L, i, head)
<1>. DEFINE o == Fresh(g.op)
            e == Edge(head, o, o)
            t == Merge([n \in {o} |-> LoadedOperand(val, 2)], g.op)
            h == LoadEdge(g, i, head, val)
            H == Outside(g.refs, L)
<1>1. /\ g.refs \in [Pivot -> Seq(Edges)] /\ L \in [Nat -> Nat] /\ Store(g.op) /\ Sound(g.op, H)
      /\ L[One] >= 1
  BY WholeIs DEF Whole
<1>2. LoadedIs(g.op, t, o, val, More(H, o, o))
  <2>. HIDE DEF H
  <2>. QED BY <1>1, LoadedSound
<1>3. h = Appended(g, i, e, t)
  BY DEF LoadEdge, Appended
<1>. HIDE DEF t, h, o
<1>4. /\ Sound(t, More(H, o, o)) /\ o \in Nat /\ o \notin DOMAIN g.op /\ DOMAIN t = DOMAIN g.op \cup {o}
      /\ \A x \in DOMAIN g.op : t[x] = g.op[x]
  BY <1>2 DEF LoadedIs
<1>5. e \in Edges /\ e.head = head /\ e.coefficient = o /\ e.numeric = o /\ Ends(e) = {o}
  BY <1>4, EdgeTouches
<1>. HIDE DEF e, H
<1>6. Outside([g.refs EXCEPT ![i] = Append(g.refs[i], e)], L) = More(Outside(g.refs, L), o, o)
  <2>1. Outside([g.refs EXCEPT ![i] = Append(g.refs[i], e)], L) = More(Outside(g.refs, L), e.coefficient, e.numeric)
    BY <1>1, <1>5, AppendOutside, ZenonT(40)
  <2>. QED BY <1>5, <2>1
<1>7. Appended(g, i, e, t).refs = [g.refs EXCEPT ![i] = Append(g.refs[i], e)]
  BY DEF Appended
<1>8. Sound(t, Outside(Appended(g, i, e, t).refs, L))
  BY <1>4, <1>6, <1>7 DEF H
<1>9. Later(g.op, t)
  BY <1>4 DEF Later
<1>10. t[e.coefficient].val = t[e.numeric].val /\ Ends(e) \cap DOMAIN g.op = {}
  BY <1>4, <1>5
<1>11. Whole(Appended(g, i, e, t), L)
  BY <1>1, <1>5, <1>8, <1>9, <1>10, AppendSound
<1>12. h.refs[i] = Append(g.refs[i], e) /\ \A p \in Pivot : p # i => h.refs[p] = g.refs[p]
  BY <1>1, <1>3, <1>7
<1>13. IsAppended(Append(g.refs[i], e), Edges, g.refs[i], e)
  BY <1>1, <1>5, AppendIs
<1>14. LoadedWell(g, h, L, i, head)
  <2>1. Len(h.refs[i]) = Len(g.refs[i]) + 1 /\ Len(g.refs[i]) \in Nat
        /\ \A k \in 1 .. Len(g.refs[i]) : h.refs[i][k] = g.refs[i][k]
    BY <1>12, <1>13 DEF IsAppended
  <2>2. Len(g.refs[i]) + 1 \in 1 .. Len(h.refs[i]) /\ ~ (Len(g.refs[i]) + 1 \in 1 .. Len(g.refs[i]))
    BY <2>1
  <2>3. h.refs[i][Len(g.refs[i]) + 1] = e
    BY <1>12, <1>13, <2>2 DEF IsAppended
  <2>. QED BY <1>3, <1>5, <1>11, <1>12, <2>1, <2>3 DEF LoadedWell
<1>. QED BY <1>14 DEF h

\* After the first edges of i were loaded, their heads are the first heads.
LoadingWell(g, h, L, i, k) ==
  /\ Whole(h, L) /\ Len(h.refs[i]) = k /\ \A m \in 1 .. k : h.refs[i][m].head = HeadsOf(i)[m]
  /\ \A p \in Pivot : p # i => h.refs[p] = g.refs[p]

LEMMA HeadsAre ==
  ASSUME NEW i \in Pivot, system[i] \in Row
  PROVE  /\ HeadsOf(i) \in Seq(Integral) /\ Len(HeadsOf(i)) \in Nat
         /\ \A k \in 1 .. Len(HeadsOf(i)) : system[i][HeadsOf(i)[k]] \in Coefficient
         /\ \A k, m \in 1 .. Len(HeadsOf(i)) : HeadsOf(i)[k] = HeadsOf(i)[m] => k = m
<1>1. PICK heads \in SUBSET Integral : system[i] \in [heads -> Coefficient]
  BY DEF Row
<1>2. DOMAIN system[i] = heads /\ IsFiniteSet(heads)
  BY <1>1, PivotAssumption, FS_Subset
<1>3. /\ HeadsOf(i) \in Seq(heads)
      /\ \A k, m \in 1 .. Len(HeadsOf(i)) : HeadsOf(i)[k] = HeadsOf(i)[m] => k = m
  <2>1. HeadsOf(i) = SetToSeq(heads)
    BY <1>2 DEF HeadsOf
  <2>. QED BY <1>2, <2>1, SetToSeqIs
<1>4. ASSUME NEW k \in 1 .. Len(HeadsOf(i)) PROVE HeadsOf(i)[k] \in heads
  BY <1>3, ElementOfSeq
<1>5. \A k \in 1 .. Len(HeadsOf(i)) : system[i][HeadsOf(i)[k]] \in Coefficient
  BY <1>1, <1>4
<1>6. HeadsOf(i) \in Seq(Integral)
  BY <1>3, SeqMonotonic
<1>. QED BY <1>3, <1>5, <1>6, LenProperties

\* ... and all edges of a pivot.
LEMMA LoadSound ==
  ASSUME NEW g, NEW L, Whole(g, L), NEW i \in Pivot, g.refs[i] = <<>>, system[i] \in Row
  PROVE  /\ Whole(Load(g, i), L) /\ HeadsApart(Load(g, i).refs[i])
         /\ \A p \in Pivot : p # i => Load(g, i).refs[p] = g.refs[p]
<1>. DEFINE n == Len(HeadsOf(i))
<1>1. n \in Nat
  BY HeadsAre
<1>2. PICK f : Loading(f, g, i, n) /\ Load(g, i) = f[n]
  BY <1>1, LoadingIs
<1>. DEFINE Good == {k \in Nat : k <= n => LoadingWell(g, f[k], L, i, k)}
<1>3. 0 \in Good
  <2>1. f[0] = g
    BY <1>2 DEF Loading
  <2>2. Len(g.refs[i]) = 0
    OBVIOUS
  <2>3. LoadingWell(g, g, L, i, 0)
    BY <2>2 DEF LoadingWell
  <2>. QED BY <2>1, <2>3
<1>4. ASSUME NEW k \in 0 .. (n - 1), k \in Good PROVE k + 1 \in Good
  <2>. DEFINE head == HeadsOf(i)[k + 1]
              val == system[i][head]
  <2>1. k \in Nat /\ k + 1 \in 1 .. n /\ k + 1 \in Nat /\ k <= n
    BY <1>1
  <2>. HIDE DEF n
  <2>2. LoadingWell(g, f[k], L, i, k)
    BY <1>4, <2>1
  <2>3. f[k + 1] = LoadEdge(f[k], i, head, val)
    <3>1. \A x \in 1 .. n : f[x] = LoadEdge(f[x - 1], i, HeadsOf(i)[x], system[i][HeadsOf(i)[x]])
      BY <1>2 DEF Loading
    <3>2. k + 1 - 1 = k
      BY <2>1
    <3>3. f[k + 1] = LoadEdge(f[k + 1 - 1], i, head, val)
      BY <2>1, <3>1
    <3>. QED BY <3>2, <3>3
  <2>4. head \in Integral /\ val \in Coefficient
    <3>1. HeadsOf(i) \in Seq(Integral) /\ \A m \in 1 .. n : system[i][HeadsOf(i)[m]] \in Coefficient
      BY HeadsAre DEF n
    <3>2. k + 1 \in 1 .. Len(HeadsOf(i))
      BY <2>1 DEF n
    <3>. QED BY <2>1, <3>1, <3>2, ElementOfSeq
  <2>. HIDE DEF head, val
  <2>5. LoadedWell(f[k], f[k + 1], L, i, head)
    BY <2>2, <2>3, <2>4, LoadEdgeSound DEF LoadingWell
  <2>6. Len(f[k].refs[i]) = k /\ Whole(f[k + 1], L)
        /\ (\A m \in 1 .. k : f[k].refs[i][m].head = HeadsOf(i)[m])
        /\ \A p \in Pivot : p # i => f[k].refs[p] = g.refs[p]
    BY <2>2, <2>5 DEF LoadingWell, LoadedWell
  <2>7. Len(f[k + 1].refs[i]) = k + 1 /\ f[k + 1].refs[i][k + 1].head = head
        /\ (\A m \in 1 .. k : f[k + 1].refs[i][m] = f[k].refs[i][m])
        /\ \A p \in Pivot : p # i => f[k + 1].refs[p] = f[k].refs[p]
    BY <2>5, <2>6 DEF LoadedWell
  <2>8. ASSUME NEW m \in 1 .. (k + 1) PROVE f[k + 1].refs[i][m].head = HeadsOf(i)[m]
    <3>1. CASE m = k + 1
      BY <2>7, <3>1 DEF head
    <3>2. CASE m # k + 1
      <4>1. m \in 1 .. k
        BY <2>1, <3>2
      <4>. QED BY <2>6, <2>7, <4>1
    <3>. QED BY <3>1, <3>2
  <2>9. LoadingWell(g, f[k + 1], L, i, k + 1)
    BY <2>6, <2>7, <2>8 DEF LoadingWell
  <2>. QED BY <2>1, <2>9
<1>5. n \in Good
  <2>. HIDE DEF Good
  <2>. QED BY <1>1, <1>3, <1>4, StepByStep
<1>6. LoadingWell(g, f[n], L, i, n)
  BY <1>1, <1>5
<1>7. Whole(f[n], L) /\ Len(f[n].refs[i]) = n /\ (\A m \in 1 .. n : f[n].refs[i][m].head = HeadsOf(i)[m])
      /\ \A p \in Pivot : p # i => f[n].refs[p] = g.refs[p]
  BY <1>6 DEF LoadingWell
<1>8. HeadsApart(f[n].refs[i])
  <2>1. DOMAIN f[n].refs[i] = 1 .. n
    <3>. HIDE DEF n
    <3>1. f[n].refs \in [Pivot -> Seq(Edges)]
      BY <1>7, WholeIs
    <3>2. DOMAIN f[n].refs[i] = 1 .. Len(f[n].refs[i])
      BY <3>1, RowIs
    <3>. QED BY <1>7, <3>2
  <2>2. \A k, m \in 1 .. n : HeadsOf(i)[k] = HeadsOf(i)[m] => k = m
    BY HeadsAre
  <2>. HIDE DEF n
  <2>. QED BY <1>7, <2>1, <2>2 DEF HeadsApart
<1>. QED BY <1>2, <1>7, <1>8

\* Those loaded have edges with heads of their own, the others have none yet.
LoadingEveryWell(h, L, pivots, k) ==
  /\ Whole(h, L) /\ \A p \in Pivot : HeadsApart(h.refs[p])
  /\ \A m \in 1 .. Len(pivots) : m > k => h.refs[pivots[m]] = <<>>

\* The graph that is loaded is whole, and each head has one edge.
LEMMA LoadEverySound ==
  ASSUME NEW g, NEW L, Whole(g, L), \A p \in Pivot : g.refs[p] = <<>>, system \in [Pivot -> Row],
         NEW pivots \in Seq(Pivot), \A k, m \in 1 .. Len(pivots) : pivots[k] = pivots[m] => k = m
  PROVE  Whole(LoadEvery(g, pivots), L) /\ \A p \in Pivot : HeadsApart(LoadEvery(g, pivots).refs[p])
<1>. DEFINE n == Len(pivots)
<1>1. n \in Nat /\ \A k \in 1 .. n : pivots[k] \in Pivot
  BY ElementOfSeq, LenProperties
<1>2. PICK f : LoadingEvery(f, g, pivots, n) /\ LoadEvery(g, pivots) = f[n]
  BY <1>1, LoadingEveryIs
<1>. HIDE DEF n
<1>. DEFINE Good == {k \in Nat : k <= n => LoadingEveryWell(f[k], L, pivots, k)}
<1>3. 0 \in Good
  <2>1. f[0] = g
    BY <1>2 DEF LoadingEvery
  <2>2. \A p \in Pivot : HeadsApart(g.refs[p])
    BY DEF HeadsApart
  <2>3. \A m \in 1 .. Len(pivots) : g.refs[pivots[m]] = <<>>
    BY <1>1 DEF n
  <2>4. LoadingEveryWell(g, L, pivots, 0)
    BY <2>2, <2>3 DEF LoadingEveryWell
  <2>. QED BY <2>1, <2>4
<1>4. ASSUME NEW k \in 0 .. (n - 1), k \in Good PROVE k + 1 \in Good
  <2>. DEFINE i == pivots[k + 1]
  <2>1. k \in Nat /\ k + 1 \in 1 .. n /\ k + 1 \in Nat /\ k <= n /\ k + 1 > k
    BY <1>1
  <2>2. LoadingEveryWell(f[k], L, pivots, k)
    BY <1>4, <2>1
  <2>3. f[k + 1] = Load(f[k], i)
    <3>1. \A x \in 1 .. n : f[x] = Load(f[x - 1], pivots[x])
      BY <1>2 DEF LoadingEvery
    <3>2. k + 1 - 1 = k
      BY <2>1
    <3>3. f[k + 1] = Load(f[k + 1 - 1], i)
      BY <2>1, <3>1
    <3>. QED BY <3>2, <3>3
  <2>4. i \in Pivot /\ system[i] \in Row
    BY <1>1, <2>1
  <2>5. Whole(f[k], L) /\ (\A p \in Pivot : HeadsApart(f[k].refs[p]))
        /\ \A m \in 1 .. n : m > k => f[k].refs[pivots[m]] = <<>>
    BY <2>2 DEF LoadingEveryWell, n
  <2>6. f[k].refs[i] = <<>>
    BY <2>1, <2>5
  <2>. HIDE DEF i
  <2>7. /\ Whole(f[k + 1], L) /\ HeadsApart(f[k + 1].refs[i])
        /\ \A p \in Pivot : p # i => f[k + 1].refs[p] = f[k].refs[p]
    BY <2>3, <2>4, <2>5, <2>6, LoadSound
  <2>8. ASSUME NEW p \in Pivot PROVE HeadsApart(f[k + 1].refs[p])
    <3>1. CASE p = i
      BY <2>7, <3>1
    <3>2. CASE p # i
      BY <2>5, <2>7, <3>2
    <3>. QED BY <3>1, <3>2
  <2>9. ASSUME NEW m \in 1 .. n, m > k + 1 PROVE f[k + 1].refs[pivots[m]] = <<>>
    <3>1. m # k + 1 /\ m > k
      BY <2>1, <2>9
    <3>2. pivots[m] # i /\ pivots[m] \in Pivot
      BY <1>1, <2>1, <3>1 DEF i, n
    <3>. QED BY <2>5, <2>7, <3>1, <3>2
  <2>10. LoadingEveryWell(f[k + 1], L, pivots, k + 1)
    BY <2>7, <2>8, <2>9 DEF LoadingEveryWell, n
  <2>. QED BY <2>1, <2>10
<1>5. n \in Good
  <2>. HIDE DEF Good
  <2>. QED BY <1>1, <1>3, <1>4, StepByStep
<1>6. LoadingEveryWell(f[n], L, pivots, n)
  BY <1>1, <1>5
<1>. QED BY <1>2, <1>6 DEF LoadingEveryWell

\* At first there is nothing but the one.
LEMMA EmptyWhole == Whole(Empty, Kept)
<1>. DEFINE r == [i \in Pivot |-> <<>>]
            s == [o \in {One} |-> LoadedOperand(MinusOne, 1)]
            H == Outside(r, Kept)
<1>1. Empty = [refs |-> r, op |-> s] /\ Empty.refs = r /\ Empty.op = s
  BY DEF Empty
<1>2. /\ DOMAIN s = {One} /\ s[One].kind = "terminal" /\ s[One].args = <<>> /\ s[One].val = MinusOne
      /\ s[One].count = 1 /\ s[One].done = TRUE /\ s[One].dropped = FALSE /\ s[One].uses = 0
  BY DEF LoadedOperand
<1>3. s[One] \in Operand
  <2>1. MinusOne \in Coefficient
    BY PrimeAssumption DEF MinusOne, Coefficient
  <2>. QED BY <2>1 DEF LoadedOperand, Operand
<1>4. Store(s)
  <2>1. IsFiniteSet({One}) /\ {One} \subseteq Nat
    BY FS_Singleton DEF One
  <2>2. s \in [{One} -> Operand]
    BY <1>3
  <2>. HIDE DEF s
  <2>3. \A o \in {One} : /\ s[o].args \in Seq({One}) /\ (s[o].done => s[o].args = <<>>)
                         /\ (~IsTerminal(s, o) => ~s[o].done /\ ~s[o].dropped)
                         /\ (IsTerminal(s, o) => s[o].uses = 0)
    <3>1. <<>> \in Seq({One})
      OBVIOUS
    <3>. QED BY <1>2, <3>1 DEF IsTerminal
  <2>. QED BY <1>2, <2>1, <2>2, <2>3 DEF Store
<1>5. Kept \in [Nat -> Nat] /\ Kept[One] = 1 /\ \A x \in Nat \ {One} : Kept[x] = 0
  BY DEF Kept, One
<1>6. ASSUME NEW x \in Nat PROVE H[x] = Kept[x]
  <2>. DEFINE v == [i \in Pivot |-> EdgeUses(r[i], x)]
  <2>1. \A i \in Pivot : v[i] = 0
    <3>1. ASSUME NEW i \in Pivot PROVE EdgeUses(r[i], x) = 0
      <4>1. r[i] = <<>> /\ r[i] \in Seq(Edges) /\ Len(r[i]) = 0
        OBVIOUS
      <4>2. \A k \in 1 .. Len(r[i]) : FALSE
        BY <4>1
      <4>. QED BY <4>1, <4>2, EdgeUsesSum
    <3>. QED BY <3>1
  <2>2. H[x] = SumOf(v, Pivot) + Kept[x]
    BY DEF Outside
  <2>. HIDE DEF v, H
  <2>3. SumOf(v, Pivot) = 0
    BY <2>1, PivotsFinite, SumZero
  <2>. QED BY <1>5, <2>2, <2>3
<1>7. r \in [Pivot -> Seq(Edges)]
  OBVIOUS
<1>8. H \in [Nat -> Nat]
  BY <1>5, <1>7, OutsideIs
<1>. HIDE DEF H, s
<1>9. Counted(s, H)
  <2>1. Uses(s, {One}, One) = 0
    <3>. DEFINE v == [n \in {One} |-> Occurrences(s[n].args, One)]
    <3>1. \A n \in {One} : v[n] = 0
      BY <1>2, OccurrencesShort
    <3>. HIDE DEF v
    <3>2. SumOf(v, {One}) = 0
      BY <3>1, FS_Singleton, SumZero
    <3>. QED BY <3>2 DEF Uses, v
  <2>2. Drop(s, One) = 0
    BY <1>2 DEF Drop
  <2>3. H[One] = 1 /\ \A x \in Nat \ {One} : H[x] = 0
    BY <1>5, <1>6 DEF One
  <2>. QED BY <1>2, <1>8, <2>1, <2>2, <2>3 DEF Counted
<1>10. Single(s, H)
  BY <1>2 DEF Single
<1>11. Sound(s, H)
  BY <1>4, <1>9, <1>10 DEF Sound
<1>12. Agree(Empty) /\ Apart(r)
  BY <1>1 DEF Agree, Apart
<1>. QED BY <1>1, <1>2, <1>5, <1>7, <1>11, <1>12 DEF Whole, H

-----------------------------------------------------------------------------
(* The search *)

LEMMA CallIs ==
  ASSUME NEW f \in Calls
  PROVE  /\ f.pivot \in Pivot /\ f.despair \in Nat /\ f.next \in Pivot \cup {None}
         /\ f.found \in Pivot \cup {None} /\ f.j \in Nat /\ f.waiting \in SUBSET Nat
         /\ f.zeros \in SUBSET Nat /\ f.gone \in SUBSET Integral
BY DEF Calls

\* A call is searching for one of the pivots in S.
Searches(g, f, S) ==
  /\ f \in Calls /\ f.next = None /\ f.found = None /\ S \subseteq Pivot \ {f.pivot} /\ SearchOf(g, f, S)

\* What is seen at the edge at k is no other edge's.
SeenWell(g, f, S, k) ==
  LET es == g.refs[f.pivot] IN
  /\ k <= f.j /\ es[k].head \in S /\ One \notin Ends(es[k])
  /\ \A m \in 1 .. Len(es) : m # k => Ends(es[k]) \cap Ends(es[m]) = {}

LEMMA SuitableAlone ==
  ASSUME NEW g, NEW L, Whole(g, L), NEW i \in Pivot, NEW k \in 1 .. Len(g.refs[i]), g.refs[i][k].head # i
  PROVE  /\ One \notin Ends(g.refs[i][k])
         /\ \A m \in 1 .. Len(g.refs[i]) : m # k => Ends(g.refs[i][k]) \cap Ends(g.refs[i][m]) = {}
<1>1. FineEdge(g, i, k)
  BY WholeEdge
<1>2. One \notin Ends(g.refs[i][k])
  BY <1>1 DEF FineEdge
<1>3. ASSUME NEW m \in 1 .. Len(g.refs[i]), m # k PROVE Ends(g.refs[i][k]) \cap Ends(g.refs[i][m]) = {}
  <2>1. Ends(g.refs[i][k]) \cap Ends(g.refs[i][m]) \subseteq {One}
    BY <1>3, OwnApart
  <2>. QED BY <1>2, <2>1
<1>. QED BY <1>2, <1>3

LEMMA SeenIs ==
  ASSUME NEW g, NEW L, Whole(g, L), NEW f, NEW S, Searches(g, f, S),
         NEW k \in 1 .. Len(g.refs[f.pivot]), Seen(g, f, k)
  PROVE  SeenWell(g, f, S, k)
<1>. DEFINE i == f.pivot
<1>1. i \in Pivot /\ S \subseteq Pivot \ {i} /\ SeesSuitable(g, f, S) /\ f.next = None /\ f.found = None
  BY CallIs DEF Searches, SearchOf
<1>2. DOMAIN g.refs[i] = 1 .. Len(g.refs[i])
  BY <1>1, WholeIs, RowIs
<1>3. k <= f.j /\ g.refs[i][k].head \in S
  BY <1>1, <1>2 DEF SeesSuitable
<1>4. g.refs[i][k].head # i
  BY <1>1, <1>3
<1>5. /\ One \notin Ends(g.refs[i][k])
      /\ \A m \in 1 .. Len(g.refs[i]) : m # k => Ends(g.refs[i][k]) \cap Ends(g.refs[i][m]) = {}
  BY <1>1, <1>4, SuitableAlone
<1>. QED BY <1>3, <1>5 DEF SeenWell

\* Where that is which is waited for.
WaitedAt(g, f, S, w, k) ==
  LET es == g.refs[f.pivot] IN
  /\ k \in 1 .. Len(es) /\ es[k].numeric = w /\ IsTerminal(g.op, w) /\ w \in DOMAIN g.op
  /\ Seen(g, f, k) /\ SeenWell(g, f, S, k) /\ es[k].coefficient \notin f.zeros

\* Where a zero is.
ZeroAt(g, f, S, z, k) ==
  LET es == g.refs[f.pivot] IN
  /\ k \in 1 .. Len(es) /\ es[k].coefficient = z /\ IsTerminal(g.op, z) /\ g.op[z].val = 0 /\ z \in DOMAIN g.op
  /\ IsTerminal(g.op, es[k].numeric) /\ g.op[es[k].numeric].done /\ es[k].numeric \in DOMAIN g.op
  /\ es[k].numeric \notin f.waiting
  /\ Seen(g, f, k) /\ SeenWell(g, f, S, k)

LEMMA ZeroIs ==
  ASSUME NEW g, NEW L, Whole(g, L), NEW f, NEW S, Searches(g, f, S), NEW z \in f.zeros
  PROVE  ZeroAt(g, f, S, z, IndexByCoefficient(g.refs[f.pivot], z))
<1>. DEFINE es == g.refs[f.pivot]
            k == IndexByCoefficient(es, z)
<1>1. f.pivot \in Pivot /\ ZerosOfEdges(g, f)
  BY CallIs DEF Searches, SearchOf
<1>2. es \in Seq(Edges) /\ DOMAIN es = 1 .. Len(es)
  BY <1>1, WholeIs, RowIs
<1>3. PICK m \in 1 .. Len(es) :
        /\ es[m].coefficient = z /\ IsTerminal(g.op, z) /\ g.op[z].val = 0
        /\ IsTerminal(g.op, es[m].numeric) /\ g.op[es[m].numeric].done
        /\ es[m].numeric \notin f.waiting
  BY <1>1, <1>2 DEF ZerosOfEdges
<1>4. k \in 1 .. Len(es) /\ es[k].coefficient = z
  BY <1>2, <1>3, IndexIs
<1>5. Seen(g, f, k) /\ Seen(g, f, m)
  BY <1>3, <1>4 DEF Seen
<1>6. SeenWell(g, f, S, k)
  BY <1>4, <1>5, SeenIs
<1>. HIDE DEF k
<1>7. m = k
  <2>1. z \in Ends(es[k]) /\ z \in Ends(es[m])
    BY <1>3, <1>4 DEF Ends
  <2>2. m # k => Ends(es[k]) \cap Ends(es[m]) = {}
    BY <1>6 DEF SeenWell
  <2>. QED BY <2>1, <2>2
<1>8. FineEdge(g, f.pivot, k)
  BY <1>1, <1>4, WholeEdge
<1>9. z \in DOMAIN g.op /\ es[k].numeric \in DOMAIN g.op
  BY <1>4, <1>8 DEF FineEdge
<1>10. ZeroAt(g, f, S, z, k)
  BY <1>3, <1>4, <1>5, <1>6, <1>7, <1>9 DEF ZeroAt
<1>. QED BY <1>10 DEF k

LEMMA WaitedIs ==
  ASSUME NEW g, NEW L, Whole(g, L), NEW f, NEW S, Searches(g, f, S), NEW w \in f.waiting
  PROVE  WaitedAt(g, f, S, w, IndexByNumeric(g.refs[f.pivot], w))
<1>. DEFINE es == g.refs[f.pivot]
            k == IndexByNumeric(es, w)
<1>1. f.pivot \in Pivot /\ WaitsForEdges(g, f)
  BY CallIs DEF Searches, SearchOf
<1>2. es \in Seq(Edges) /\ DOMAIN es = 1 .. Len(es)
  BY <1>1, WholeIs, RowIs
<1>3. PICK m \in 1 .. Len(es) : es[m].numeric = w /\ IsTerminal(g.op, w)
  BY <1>1, <1>2 DEF WaitsForEdges
<1>4. k \in 1 .. Len(es) /\ es[k].numeric = w
  BY <1>2, <1>3, IndexIs
<1>5. Seen(g, f, k)
  BY <1>4 DEF Seen
<1>6. SeenWell(g, f, S, k)
  BY <1>4, <1>5, SeenIs
<1>7. FineEdge(g, f.pivot, k)
  BY <1>1, <1>4, WholeEdge
<1>8. es[k].coefficient \notin f.zeros
  <2>1. ASSUME es[k].coefficient \in f.zeros PROVE FALSE
    <3>. DEFINE z == es[k].coefficient
                n == IndexByCoefficient(es, z)
    <3>1. ZeroAt(g, f, S, z, n)
      BY <2>1, ZeroIs
    <3>2. n \in 1 .. Len(es) /\ es[n].coefficient = z /\ es[n].numeric \notin f.waiting
      BY <3>1 DEF ZeroAt
    <3>. HIDE DEF n, k
    <3>3. n # k
      BY <1>4, <3>2
    <3>4. Ends(es[k]) \cap Ends(es[n]) = {}
      BY <1>6, <3>2, <3>3 DEF SeenWell
    <3>. QED BY <3>2, <3>4 DEF Ends
  <2>. QED BY <2>1
<1>. HIDE DEF k
<1>9. w \in DOMAIN g.op
  BY <1>4, <1>7 DEF FineEdge
<1>10. WaitedAt(g, f, S, w, k)
  BY <1>3, <1>4, <1>5, <1>6, <1>8, <1>9 DEF WaitedAt
<1>. QED BY <1>10 DEF k

\* What goes on with the operands does not disturb the search.
LEMMA SearchLater ==
  ASSUME NEW g, NEW L, Whole(g, L), NEW f, NEW S, Searches(g, f, S),
         NEW h, Whole(h, L), h.refs = g.refs, Later(g.op, h.op)
  PROVE  Searches(h, f, S)
<1>. DEFINE es == g.refs[f.pivot]
<1>1. f.pivot \in Pivot /\ WaitsForEdges(g, f) /\ ZerosOfEdges(g, f) /\ SeesSuitable(g, f, S)
  BY CallIs DEF Searches, SearchOf
<1>2. DOMAIN es = 1 .. Len(es)
  BY <1>1, WholeIs, RowIs
<1>3. ASSUME NEW k \in 1 .. Len(es)
      PROVE  /\ es[k].coefficient \in DOMAIN g.op \cap DOMAIN h.op
             /\ es[k].numeric \in DOMAIN g.op \cap DOMAIN h.op
  <2>1. FineEdge(g, f.pivot, k) /\ FineEdge(h, f.pivot, k)
    BY <1>1, WholeEdge
  <2>. QED BY <2>1 DEF FineEdge
<1>4. ASSUME NEW o \in DOMAIN g.op \cap DOMAIN h.op
      PROVE  /\ IsTerminal(g.op, o) => IsTerminal(h.op, o)
             /\ h.op[o].val = g.op[o].val /\ (g.op[o].done => h.op[o].done)
  BY DEF Later, IsTerminal
<1>5. WaitsForEdges(h, f)
  <2>1. ASSUME NEW w \in f.waiting
        PROVE  \E k \in DOMAIN es : es[k].numeric = w /\ IsTerminal(h.op, w)
    <3>1. PICK k \in DOMAIN es : es[k].numeric = w /\ IsTerminal(g.op, w)
      BY <1>1 DEF WaitsForEdges
    <3>2. IsTerminal(h.op, w)
      BY <1>2, <1>3, <1>4, <3>1
    <3>. QED BY <3>1, <3>2
  <2>. QED BY <2>1 DEF WaitsForEdges
<1>6. ZerosOfEdges(h, f)
  <2>1. ASSUME NEW z \in f.zeros
        PROVE  \E k \in DOMAIN es :
                 /\ es[k].coefficient = z /\ IsTerminal(h.op, z) /\ h.op[z].val = 0
                 /\ IsTerminal(h.op, es[k].numeric) /\ h.op[es[k].numeric].done /\ es[k].numeric \notin f.waiting
    <3>1. PICK k \in DOMAIN es :
            /\ es[k].coefficient = z /\ IsTerminal(g.op, z) /\ g.op[z].val = 0
            /\ IsTerminal(g.op, es[k].numeric) /\ g.op[es[k].numeric].done /\ es[k].numeric \notin f.waiting
      BY <1>1 DEF ZerosOfEdges
    <3>2. IsTerminal(h.op, z) /\ h.op[z].val = 0
      BY <1>2, <1>3, <1>4, <3>1
    <3>3. IsTerminal(h.op, es[k].numeric) /\ h.op[es[k].numeric].done
      BY <1>2, <1>3, <1>4, <3>1
    <3>. QED BY <3>1, <3>2, <3>3
  <2>. QED BY <2>1 DEF ZerosOfEdges
<1>7. SeesSuitable(h, f, S)
  <2>1. \A k : Seen(h, f, k) <=> Seen(g, f, k)
    BY DEF Seen
  <2>. QED BY <1>1, <2>1 DEF SeesSuitable
<1>. QED BY <1>5, <1>6, <1>7 DEF Searches, SearchOf

\* An edge that is at k of the edges of i was at m before.
EdgeKept(g, h, i, m, k) ==
  /\ h.refs[i][k] = g.refs[i][m]
  /\ \A o \in Ends(g.refs[i][m]) : /\ IsTerminal(g.op, o) => IsTerminal(h.op, o)
                                   /\ h.op[o].val = g.op[o].val /\ (g.op[o].done => h.op[o].done)

LEMMA EdgeKeptIs ==
  ASSUME NEW g, NEW h, NEW L, Whole(g, L), Whole(h, L), Later(g.op, h.op), NEW i \in Pivot,
         NEW m \in 1 .. Len(g.refs[i]), NEW k \in 1 .. Len(h.refs[i]), h.refs[i][k] = g.refs[i][m]
  PROVE  EdgeKept(g, h, i, m, k)
<1>1. FineEdge(g, i, m) /\ FineEdge(h, i, k)
  BY WholeEdge
<1>2. Ends(g.refs[i][m]) \subseteq DOMAIN g.op \cap DOMAIN h.op
  BY <1>1 DEF FineEdge
<1>. QED BY <1>2 DEF EdgeKept, Later, IsTerminal

\* What is waited for, and what is a zero, after the edge has moved.
LEMMA WaitedKept ==
  ASSUME NEW g, NEW h, NEW f, NEW S, NEW w, NEW m, NEW k, WaitedAt(g, f, S, w, m), EdgeKept(g, h, f.pivot, m, k)
  PROVE  h.refs[f.pivot][k].numeric = w /\ IsTerminal(h.op, w)
<1>1. w \in Ends(g.refs[f.pivot][m])
  BY DEF WaitedAt, Ends
<1>. QED BY <1>1 DEF WaitedAt, EdgeKept

ZeroHere(h, i, k, z, waiting) ==
  LET e == h.refs[i][k] IN
  /\ e.coefficient = z /\ IsTerminal(h.op, z) /\ h.op[z].val = 0
  /\ IsTerminal(h.op, e.numeric) /\ h.op[e.numeric].done /\ e.numeric \notin waiting

LEMMA ZeroKept ==
  ASSUME NEW g, NEW h, NEW f, NEW S, NEW z, NEW m, NEW k, ZeroAt(g, f, S, z, m), EdgeKept(g, h, f.pivot, m, k),
         NEW waiting, g.refs[f.pivot][m].numeric \notin waiting
  PROVE  ZeroHere(h, f.pivot, k, z, waiting)
<1>. DEFINE e == g.refs[f.pivot][m]
<1>1. /\ e.coefficient = z /\ IsTerminal(g.op, z) /\ g.op[z].val = 0
      /\ IsTerminal(g.op, e.numeric) /\ g.op[e.numeric].done
  BY DEF ZeroAt
<1>2. z \in Ends(e) /\ e.numeric \in Ends(e)
  BY <1>1 DEF Ends
<1>3. h.refs[f.pivot][k] = e
      /\ \A o \in Ends(e) : /\ IsTerminal(g.op, o) => IsTerminal(h.op, o)
                            /\ h.op[o].val = g.op[o].val /\ (g.op[o].done => h.op[o].done)
  BY DEF EdgeKept
<1>. HIDE DEF e
<1>4. IsTerminal(h.op, z) /\ h.op[z].val = 0 /\ IsTerminal(h.op, e.numeric) /\ h.op[e.numeric].done
  BY <1>1, <1>2, <1>3
<1>5. e.numeric \notin waiting
  BY DEF e
<1>. QED BY <1>1, <1>3, <1>4, <1>5 DEF ZeroHere

\* What becomes of a call.
Becomes(f, c, j, waiting, zeros) ==
  c.pivot = f.pivot /\ c.next = None /\ c.found = None /\ c.j = j /\ c.waiting = waiting /\ c.zeros = zeros

\* It finds something.
LEMMA SearchFound ==
  ASSUME NEW g, NEW f, NEW S, Searches(g, f, S), NEW c, c.pivot = f.pivot, c.waiting \subseteq f.waiting,
         c.zeros = f.zeros, c.found # None
  PROVE  SearchOf(g, c, S)
<1>1. WaitsForEdges(g, f) /\ ZerosOfEdges(g, f)
  BY DEF Searches, SearchOf
<1>2. WaitsForEdges(g, c)
  BY <1>1 DEF WaitsForEdges
<1>3. ZerosOfEdges(g, c)
  <2>1. ASSUME NEW z \in c.zeros
        PROVE  \E k \in DOMAIN g.refs[f.pivot] :
                 LET e == g.refs[f.pivot][k] IN
                 /\ e.coefficient = z /\ IsTerminal(g.op, z) /\ g.op[z].val = 0
                 /\ IsTerminal(g.op, e.numeric) /\ g.op[e.numeric].done /\ e.numeric \notin c.waiting
    BY <1>1 DEF ZerosOfEdges
  <2>. QED BY <2>1 DEF ZerosOfEdges
<1>. QED BY <1>2, <1>3 DEF SearchOf, SeesSuitable

\* It finds a zero.
LEMMA SearchZero ==
  ASSUME NEW g, NEW L, Whole(g, L), NEW f, NEW S, Searches(g, f, S), NEW w \in f.waiting,
         g.op[w].done, g.op[w].val = 0, NEW k, WaitedAt(g, f, S, w, k),
         NEW h, CoefficientBaked(g, h, L, f.pivot, k),
         NEW c, Becomes(f, c, f.j, f.waiting \ {w}, f.zeros \cup {h.refs[f.pivot][k].coefficient})
  PROVE  SearchOf(h, c, S)
<1>. DEFINE i == f.pivot
            es == g.refs[i]
            q == h.refs[i]
            z == q[k].coefficient
<1>1. i \in Pivot /\ SeesSuitable(g, f, S) /\ f.next = None /\ f.found = None
  BY CallIs DEF Searches, SearchOf
<1>2. /\ Whole(h, L) /\ Later(g.op, h.op) /\ AtEdge(g, h, i, k) /\ q[k].numeric = es[k].numeric
      /\ Renewed(g.op, h.op, es[k].coefficient, z)
  BY DEF CoefficientBaked
<1>3. /\ k \in 1 .. Len(es) /\ es[k].numeric = w /\ IsTerminal(g.op, w) /\ w \in DOMAIN g.op
      /\ Seen(g, f, k) /\ SeenWell(g, f, S, k)
  BY DEF WaitedAt
<1>4. Len(q) = Len(es) /\ DOMAIN q = 1 .. Len(es) /\ DOMAIN es = 1 .. Len(es)
  <2>1. Len(q) = Len(es)
    BY <1>1, <1>2 DEF AtEdge
  <2>2. g.refs \in [Pivot -> Seq(Edges)] /\ h.refs \in [Pivot -> Seq(Edges)]
    BY <1>2, WholeIs
  <2>3. DOMAIN q = 1 .. Len(q) /\ DOMAIN es = 1 .. Len(es)
    BY <1>1, <2>2, RowIs
  <2>. QED BY <2>1, <2>3
<1>5. ASSUME NEW m \in 1 .. Len(es) PROVE q[m].head = es[m].head /\ (m # k => q[m] = es[m])
  BY <1>1, <1>2, <1>5 DEF AtEdge
<1>6. k \in 1 .. Len(q) /\ FineEdge(h, i, k)
  BY <1>1, <1>2, <1>3, <1>4, WholeEdge
<1>7. q[k].numeric = w /\ w \in DOMAIN h.op /\ IsTerminal(h.op, w) /\ h.op[w].done /\ h.op[w].val = 0
  <2>1. q[k].numeric = w /\ w \in DOMAIN h.op
    BY <1>2, <1>3, <1>6 DEF FineEdge
  <2>. QED BY <1>2, <1>3, <2>1 DEF Later, IsTerminal
<1>8. IsTerminal(h.op, z) /\ h.op[z].val = 0
  BY <1>2, <1>6, <1>7 DEF Renewed, FineEdge
<1>9. q[k].head # i
  <2>1. S \subseteq Pivot \ {i} /\ es[k].head \in S
    BY <1>3 DEF Searches, SeenWell
  <2>. QED BY <1>3, <1>5, <2>1
<1>10. ASSUME NEW m \in 1 .. Len(es), m # k
       PROVE  Ends(q[k]) \cap Ends(es[m]) = {} /\ EdgeKept(g, h, i, m, m)
  <2>1. m \in 1 .. Len(q) /\ q[m] = es[m]
    BY <1>4, <1>5, <1>10
  <2>2. Ends(q[k]) \cap Ends(q[m]) = {}
    BY <1>1, <1>2, <1>6, <1>9, <1>10, <2>1, SuitableAlone
  <2>3. EdgeKept(g, h, i, m, m)
    BY <1>1, <1>2, <2>1, EdgeKeptIs
  <2>. QED BY <2>1, <2>2, <2>3
<1>11. z \in Ends(q[k]) /\ w \in Ends(q[k])
  BY <1>7 DEF Ends
<1>12. c.pivot = i /\ c.next = None /\ c.found = None /\ c.j = f.j /\ c.waiting = f.waiting \ {w} /\ c.zeros = f.zeros \cup {z}
  BY DEF Becomes
<1>. HIDE DEF es, q, z
<1>13. ASSUME NEW v \in c.waiting PROVE \E m \in DOMAIN q : q[m].numeric = v /\ IsTerminal(h.op, v)
  <2>. DEFINE m == IndexByNumeric(g.refs[f.pivot], v)
  <2>1. v \in f.waiting /\ v # w
    BY <1>12, <1>13
  <2>2. WaitedAt(g, f, S, v, m)
    BY <2>1, WaitedIs
  <2>. HIDE DEF m
  <2>3. m \in 1 .. Len(es) /\ es[m].numeric = v
    BY <2>2 DEF WaitedAt, es
  <2>4. m # k
    BY <1>3, <2>1, <2>3
  <2>5. EdgeKept(g, h, i, m, m)
    BY <1>10, <2>3, <2>4
  <2>6. q[m].numeric = v /\ IsTerminal(h.op, v)
    BY <2>2, <2>5, WaitedKept DEF q
  <2>. QED BY <1>4, <2>3, <2>6
<1>14. ASSUME NEW y \in c.zeros PROVE \E m \in DOMAIN q : ZeroHere(h, i, m, y, c.waiting)
  <2>1. CASE y = z
    <3>1. q[k].numeric \notin c.waiting /\ q[k].coefficient = z
      BY <1>7, <1>12 DEF z
    <3>2. ZeroHere(h, i, k, y, c.waiting)
      BY <1>7, <1>8, <2>1, <3>1 DEF ZeroHere, q
    <3>. QED BY <1>3, <1>4, <3>2
  <2>2. CASE y \in f.zeros
    <3>. DEFINE m == IndexByCoefficient(g.refs[f.pivot], y)
    <3>1. ZeroAt(g, f, S, y, m)
      BY <2>2, ZeroIs
    <3>. HIDE DEF m
    <3>2. m \in 1 .. Len(es) /\ es[m].coefficient = y /\ es[m].numeric \notin f.waiting
      BY <3>1 DEF ZeroAt, es
    <3>3. m # k /\ es[m].numeric \notin c.waiting
      BY <1>3, <1>12, <3>2
    <3>4. EdgeKept(g, h, i, m, m)
      BY <1>10, <3>2, <3>3
    <3>5. ZeroHere(h, i, m, y, c.waiting)
      BY <3>1, <3>3, <3>4, ZeroKept DEF es
    <3>. QED BY <1>4, <3>2, <3>5
  <2>. QED BY <1>12, <2>1, <2>2
<1>15. ASSUME NEW m \in 1 .. Len(es) PROVE Seen(h, c, m) <=> Seen(g, f, m)
  <2>1. Seen(h, c, m) <=> q[m].numeric \in f.waiting \ {w} \/ q[m].coefficient \in f.zeros \cup {z}
    BY <1>12 DEF Seen, q
  <2>2. Seen(g, f, m) <=> es[m].numeric \in f.waiting \/ es[m].coefficient \in f.zeros
    BY DEF Seen, es
  <2>3. CASE m = k
    BY <1>3, <2>1, <2>3 DEF z
  <2>4. CASE m # k
    <3>1. q[m] = es[m] /\ es[m].numeric \in Ends(es[m]) /\ es[m].coefficient \in Ends(es[m])
      BY <1>5, <2>4 DEF Ends
    <3>2. es[m].numeric # w /\ es[m].coefficient # z
      BY <1>10, <1>11, <2>4, <3>1
    <3>. QED BY <2>1, <2>2, <3>1, <3>2
  <2>. QED BY <2>3, <2>4
<1>16. WaitsForEdges(h, c)
  BY <1>12, <1>13 DEF WaitsForEdges, q
<1>17. ZerosOfEdges(h, c)
  BY <1>12, <1>14, ZenonT(40) DEF ZerosOfEdges, ZeroHere, q
<1>18. SeesSuitable(h, c, S)
  <2>1. ASSUME NEW m \in DOMAIN q PROVE Seen(h, c, m) <=> m <= c.j /\ q[m].head \in S
    <3>1. m \in 1 .. Len(es) /\ m \in DOMAIN es /\ q[m].head = es[m].head
      BY <1>4, <1>5, <2>1
    <3>2. Seen(g, f, m) <=> m <= f.j /\ es[m].head \in S
      BY <1>1, <3>1 DEF SeesSuitable, es
    <3>. QED BY <1>12, <1>15, <3>1, <3>2
  <2>. QED BY <1>12, <2>1 DEF SeesSuitable, q
<1>. QED BY <1>16, <1>17, <1>18 DEF SearchOf

LEMMA ZerosFrom ==
  ASSUME NEW h, NEW c, \A y \in c.zeros : \E k \in DOMAIN h.refs[c.pivot] : ZeroHere(h, c.pivot, k, y, c.waiting)
  PROVE  ZerosOfEdges(h, c)
BY Zenon DEF ZerosOfEdges, ZeroHere

\* Every edge that was not deleted is somewhere.
LEMMA FromOnto ==
  ASSUME NEW n \in Nat, NEW target \in 1 .. n, NEW replacement \in 1 .. n, NEW m \in 1 .. n, m # target
  PROVE  \E k \in 1 .. (n - 1) : From(k, n, target, replacement) = m
<1>. DEFINE p == Other(m, target, replacement)
            k == IF p = n THEN replacement ELSE p
<1>1. p \in 1 .. n /\ p # replacement /\ Other(p, target, replacement) = m
  BY DEF Other
<1>2. k \in 1 .. (n - 1) /\ (IF k = replacement THEN n ELSE k) = p
  <2>. HIDE DEF p
  <2>. QED BY <1>1
<1>3. From(k, n, target, replacement) = m
  <2>. HIDE DEF p, k
  <2>. QED BY <1>1, <1>2 DEF From
<1>. QED BY <1>2, <1>3

\* The edge at target goes, and with it what the call knows of it.
LEMMA SearchDeleted ==
  ASSUME NEW g, NEW L, Whole(g, L), NEW f, NEW S, Searches(g, f, S),
         NEW target \in 1 .. Len(g.refs[f.pivot]), Seen(g, f, target),
         NEW replacement \in 1 .. Len(g.refs[f.pivot]),
         NEW h, DeletedWell(g, h, L, f.pivot, target, replacement),
         NEW c, NEW j, Becomes(f, c, j, f.waiting \ {g.refs[f.pivot][target].numeric},
                               f.zeros \ {g.refs[f.pivot][target].coefficient}),
         \A k \in 1 .. Len(h.refs[f.pivot]) :
           k <= j <=> From(k, Len(g.refs[f.pivot]), target, replacement) <= f.j
  PROVE  SearchOf(h, c, S)
<1>. DEFINE i == f.pivot
            es == g.refs[i]
            q == h.refs[i]
            n == Len(es)
            d == es[target]
            at(k) == From(k, n, target, replacement)
<1>1. i \in Pivot /\ SeesSuitable(g, f, S) /\ f.next = None /\ f.found = None
  BY CallIs DEF Searches, SearchOf
<1>2. Whole(h, L) /\ Later(g.op, h.op) /\ Deleted(g.refs, h.refs, i, target, replacement)
  BY DEF DeletedWell
<1>3. Len(q) = n - 1 /\ n \in Nat /\ DOMAIN q = 1 .. (n - 1) /\ DOMAIN es = 1 .. n
  <2>1. g.refs \in [Pivot -> Seq(Edges)] /\ h.refs \in [Pivot -> Seq(Edges)]
    BY <1>2, WholeIs
  <2>2. DOMAIN q = 1 .. Len(q) /\ DOMAIN es = 1 .. Len(es) /\ Len(es) \in Nat
    BY <1>1, <2>1, RowIs
  <2>3. Len(q) = n - 1
    BY <1>2 DEF Deleted
  <2>. QED BY <2>2, <2>3
<1>4. ASSUME NEW k \in 1 .. (n - 1)
      PROVE  at(k) \in 1 .. n /\ at(k) # target /\ q[k] = es[at(k)]
  BY <1>2, <1>3 DEF Deleted
<1>5. ASSUME NEW k \in 1 .. (n - 1) PROVE EdgeKept(g, h, i, at(k), k)
  <2>1. at(k) \in 1 .. Len(es) /\ k \in 1 .. Len(q) /\ q[k] = es[at(k)]
    BY <1>3, <1>4
  <2>. QED BY <1>1, <1>2, <2>1, EdgeKeptIs
<1>6. SeenWell(g, f, S, target)
  BY SeenIs
<1>7. ASSUME NEW m \in 1 .. n, m # target
      PROVE  es[m].numeric # d.numeric /\ es[m].coefficient # d.coefficient
  <2>1. Ends(d) \cap Ends(es[m]) = {}
    BY <1>6, <1>7 DEF SeenWell
  <2>. QED BY <2>1 DEF Ends
<1>8. c.pivot = i /\ c.next = None /\ c.found = None /\ c.j = j /\ c.waiting = f.waiting \ {d.numeric}
      /\ c.zeros = f.zeros \ {d.coefficient}
  BY DEF Becomes
<1>9. ASSUME NEW m \in 1 .. n, m # target PROVE \E k \in 1 .. (n - 1) : at(k) = m
  BY <1>3, <1>9, FromOnto
<1>9a. \A k \in 1 .. (n - 1) : k <= j <=> at(k) <= f.j
  BY <1>3
<1>. HIDE DEF es, q, n, d, at
<1>10. ASSUME NEW v \in c.waiting PROVE \E k \in DOMAIN q : q[k].numeric = v /\ IsTerminal(h.op, v)
  <2>. DEFINE m == IndexByNumeric(g.refs[f.pivot], v)
  <2>1. v \in f.waiting /\ v # d.numeric
    BY <1>8, <1>10
  <2>2. WaitedAt(g, f, S, v, m)
    BY <2>1, WaitedIs
  <2>. HIDE DEF m
  <2>3. m \in 1 .. n /\ es[m].numeric = v
    BY <2>2 DEF WaitedAt, es, n
  <2>4. m # target
    BY <2>1, <2>3 DEF d
  <2>5. PICK k \in 1 .. (n - 1) : at(k) = m
    BY <1>9, <2>3, <2>4
  <2>6. EdgeKept(g, h, i, m, k)
    BY <1>5, <2>5
  <2>7. q[k].numeric = v /\ IsTerminal(h.op, v)
    BY <2>2, <2>6, WaitedKept DEF q
  <2>. QED BY <1>3, <2>5, <2>7
<1>11. ASSUME NEW y \in c.zeros PROVE \E k \in DOMAIN q : ZeroHere(h, i, k, y, c.waiting)
  <2>. DEFINE m == IndexByCoefficient(g.refs[f.pivot], y)
  <2>1. y \in f.zeros /\ y # d.coefficient
    BY <1>8, <1>11
  <2>2. ZeroAt(g, f, S, y, m)
    BY <2>1, ZeroIs
  <2>. HIDE DEF m
  <2>3. m \in 1 .. n /\ es[m].coefficient = y /\ es[m].numeric \notin f.waiting
    BY <2>2 DEF ZeroAt, es, n
  <2>4. m # target /\ es[m].numeric \notin c.waiting
    BY <1>8, <2>1, <2>3 DEF d
  <2>5. PICK k \in 1 .. (n - 1) : at(k) = m
    BY <1>9, <2>3, <2>4
  <2>6. EdgeKept(g, h, i, m, k)
    BY <1>5, <2>5
  <2>7. ZeroHere(h, i, k, y, c.waiting)
    BY <2>2, <2>4, <2>6, ZeroKept DEF es
  <2>. QED BY <1>3, <2>5, <2>7
<1>12. ASSUME NEW k \in 1 .. (n - 1) PROVE Seen(h, c, k) <=> Seen(g, f, at(k))
  <2>1. Seen(h, c, k) <=> q[k].numeric \in f.waiting \ {d.numeric} \/ q[k].coefficient \in f.zeros \ {d.coefficient}
    BY <1>8 DEF Seen, q
  <2>2. Seen(g, f, at(k)) <=> es[at(k)].numeric \in f.waiting \/ es[at(k)].coefficient \in f.zeros
    BY DEF Seen, es
  <2>3. q[k] = es[at(k)] /\ es[at(k)].numeric # d.numeric /\ es[at(k)].coefficient # d.coefficient
    BY <1>4, <1>7
  <2>. QED BY <2>1, <2>2, <2>3
<1>13. WaitsForEdges(h, c)
  BY <1>8, <1>10 DEF WaitsForEdges, q
<1>14. ZerosOfEdges(h, c)
  <2>1. \A y \in c.zeros : \E m \in DOMAIN h.refs[c.pivot] : ZeroHere(h, c.pivot, m, y, c.waiting)
    BY <1>8, <1>11 DEF q
  <2>. QED BY <2>1, ZerosFrom
<1>15. SeesSuitable(h, c, S)
  <2>1. ASSUME NEW k \in DOMAIN q PROVE Seen(h, c, k) <=> k <= c.j /\ q[k].head \in S
    <3>1. k \in 1 .. (n - 1) /\ at(k) \in DOMAIN es /\ q[k] = es[at(k)]
      BY <1>3, <1>4, <2>1
    <3>2. Seen(g, f, at(k)) <=> at(k) <= f.j /\ es[at(k)].head \in S
      BY <1>1, <3>1 DEF SeesSuitable, es
    <3>3. k <= c.j <=> at(k) <= f.j
      BY <1>8, <1>9a, <3>1
    <3>. QED BY <1>12, <3>1, <3>2, <3>3
  <2>. QED BY <1>8, <2>1 DEF SeesSuitable, q
<1>. QED BY <1>13, <1>14, <1>15 DEF SearchOf

\* It looks at the next edge, whose numeric it will wait for.
LEMMA SearchLooked ==
  ASSUME NEW g, NEW L, Whole(g, L), NEW f, NEW S, Searches(g, f, S), NEW k, k = f.j + 1,
         k \in 1 .. Len(g.refs[f.pivot]), g.refs[f.pivot][k].head \in S,
         NEW h, NumericBaked(g, h, L, f.pivot, k),
         NEW c, Becomes(f, c, k, f.waiting \cup {h.refs[f.pivot][k].numeric}, f.zeros)
  PROVE  SearchOf(h, c, S)
<1>. DEFINE i == f.pivot
            es == g.refs[i]
            q == h.refs[i]
            w == q[k].numeric
<1>1. i \in Pivot /\ SeesSuitable(g, f, S) /\ f.next = None /\ f.found = None /\ f.j \in Nat
      /\ S \subseteq Pivot \ {i}
  BY CallIs DEF Searches, SearchOf
<1>2. Whole(h, L) /\ Later(g.op, h.op) /\ AtEdge(g, h, i, k) /\ Renewed(g.op, h.op, es[k].numeric, w)
  BY DEF NumericBaked
<1>4. Len(q) = Len(es) /\ DOMAIN q = 1 .. Len(es) /\ DOMAIN es = 1 .. Len(es) /\ Len(es) \in Nat
  <2>1. g.refs \in [Pivot -> Seq(Edges)] /\ h.refs \in [Pivot -> Seq(Edges)]
    BY <1>2, WholeIs
  <2>2. DOMAIN q = 1 .. Len(q) /\ DOMAIN es = 1 .. Len(es) /\ Len(es) \in Nat
    BY <1>1, <2>1, RowIs
  <2>3. Len(q) = Len(es)
    BY <1>1, <1>2 DEF AtEdge
  <2>. QED BY <2>2, <2>3
<1>5. ASSUME NEW m \in 1 .. Len(es) PROVE q[m].head = es[m].head /\ (m # k => q[m] = es[m])
  BY <1>1, <1>2, <1>5 DEF AtEdge
<1>6. k \in 1 .. Len(es) /\ k \in 1 .. Len(q)
  BY <1>4
<1>7. IsTerminal(h.op, w) /\ w \in DOMAIN h.op
  BY <1>2 DEF Renewed
<1>9. q[k].head # i /\ q[k].head \in S
  BY <1>1, <1>5, <1>6
<1>10. ASSUME NEW m \in 1 .. Len(es), m # k
       PROVE  Ends(q[k]) \cap Ends(es[m]) = {} /\ EdgeKept(g, h, i, m, m)
  <2>1. m \in 1 .. Len(q) /\ q[m] = es[m]
    BY <1>4, <1>5, <1>10
  <2>2. Ends(q[k]) \cap Ends(q[m]) = {}
    BY <1>1, <1>2, <1>6, <1>9, <1>10, <2>1, SuitableAlone
  <2>3. EdgeKept(g, h, i, m, m)
    BY <1>1, <1>2, <2>1, EdgeKeptIs
  <2>. QED BY <2>1, <2>2, <2>3
<1>11. w \in Ends(q[k])
  BY DEF Ends
<1>12. c.pivot = i /\ c.next = None /\ c.found = None /\ c.j = k /\ c.waiting = f.waiting \cup {w} /\ c.zeros = f.zeros
  BY DEF Becomes
<1>3. \A m \in 1 .. Len(es) : Seen(g, f, m) => m # k
  <2>1. ASSUME NEW m \in 1 .. Len(es), Seen(g, f, m) PROVE m # k
    <3>1. m <= f.j
      BY <2>1, SeenIs DEF SeenWell
    <3>. QED BY <1>1, <3>1
  <2>. QED BY <2>1
<1>3a. \A m \in 1 .. Len(es) : m # k => (m <= k <=> m <= f.j)
  BY <1>1
<1>. HIDE DEF es, q, w
<1>13. ASSUME NEW v \in c.waiting PROVE \E m \in DOMAIN q : q[m].numeric = v /\ IsTerminal(h.op, v)
  <2>1. CASE v = w
    BY <1>4, <1>6, <1>7, <2>1 DEF w
  <2>2. CASE v \in f.waiting
    <3>. DEFINE m == IndexByNumeric(g.refs[f.pivot], v)
    <3>2. WaitedAt(g, f, S, v, m)
      BY <2>2, WaitedIs
    <3>. HIDE DEF m
    <3>3. m \in 1 .. Len(es) /\ es[m].numeric = v /\ Seen(g, f, m)
      BY <3>2 DEF WaitedAt, es
    <3>4. m # k
      BY <1>3, <3>3
    <3>5. EdgeKept(g, h, i, m, m)
      BY <1>10, <3>3, <3>4
    <3>6. q[m].numeric = v /\ IsTerminal(h.op, v)
      BY <3>2, <3>5, WaitedKept DEF q
    <3>. QED BY <1>4, <3>3, <3>6
  <2>. QED BY <1>12, <1>13, <2>1, <2>2
<1>14. ASSUME NEW y \in c.zeros PROVE \E m \in DOMAIN q : ZeroHere(h, i, m, y, c.waiting)
  <2>. DEFINE m == IndexByCoefficient(g.refs[f.pivot], y)
  <2>0. y \in f.zeros
    BY <1>12, <1>14
  <2>1. ZeroAt(g, f, S, y, m)
    BY <2>0, ZeroIs
  <2>. HIDE DEF m
  <2>2. m \in 1 .. Len(es) /\ es[m].coefficient = y /\ es[m].numeric \notin f.waiting /\ Seen(g, f, m)
    BY <2>1 DEF ZeroAt, es
  <2>3. m # k
    BY <1>3, <2>2
  <2>4. es[m].numeric # w
    BY <1>10, <1>11, <2>2, <2>3 DEF Ends
  <2>5. EdgeKept(g, h, i, m, m)
    BY <1>10, <2>2, <2>3
  <2>6. es[m].numeric \notin c.waiting
    BY <1>12, <2>2, <2>4
  <2>7. ZeroHere(h, i, m, y, c.waiting)
    BY <2>1, <2>5, <2>6, ZeroKept DEF es
  <2>. QED BY <1>4, <2>2, <2>7
<1>15. ASSUME NEW m \in 1 .. Len(es) PROVE Seen(h, c, m) <=> m = k \/ Seen(g, f, m)
  <2>1. Seen(h, c, m) <=> q[m].numeric \in f.waiting \cup {w} \/ q[m].coefficient \in f.zeros
    BY <1>12 DEF Seen, q
  <2>2. Seen(g, f, m) <=> es[m].numeric \in f.waiting \/ es[m].coefficient \in f.zeros
    BY DEF Seen, es
  <2>3. CASE m = k
    BY <2>1, <2>3 DEF w
  <2>4. CASE m # k
    <3>1. q[m] = es[m] /\ es[m].numeric \in Ends(es[m])
      BY <1>5, <2>4 DEF Ends
    <3>2. es[m].numeric # w
      BY <1>10, <1>11, <2>4, <3>1
    <3>. QED BY <2>1, <2>2, <2>4, <3>1, <3>2
  <2>. QED BY <2>3, <2>4
<1>16. WaitsForEdges(h, c)
  BY <1>12, <1>13 DEF WaitsForEdges, q
<1>17. ZerosOfEdges(h, c)
  <2>1. \A y \in c.zeros : \E m \in DOMAIN h.refs[c.pivot] : ZeroHere(h, c.pivot, m, y, c.waiting)
    BY <1>12, <1>14 DEF q
  <2>. QED BY <2>1, ZerosFrom
<1>18. SeesSuitable(h, c, S)
  <2>1. ASSUME NEW m \in DOMAIN q PROVE Seen(h, c, m) <=> m <= c.j /\ q[m].head \in S
    <3>1. m \in 1 .. Len(es) /\ m \in DOMAIN es /\ q[m].head = es[m].head
      BY <1>4, <1>5, <2>1
    <3>2. Seen(g, f, m) <=> m <= f.j /\ es[m].head \in S
      BY <1>1, <3>1 DEF SeesSuitable, es
    <3>3. CASE m = k
      BY <1>9, <1>12, <1>15, <3>1, <3>3
    <3>4. CASE m # k
      BY <1>3a, <1>12, <1>15, <3>1, <3>2, <3>4
    <3>. QED BY <3>3, <3>4
  <2>. QED BY <1>12, <2>1 DEF SeesSuitable, q
<1>. QED BY <1>16, <1>17, <1>18 DEF SearchOf

\* It looks at the next edge and passes over it.
LEMMA SearchPassed ==
  ASSUME NEW g, NEW L, Whole(g, L), NEW f, NEW S, Searches(g, f, S), NEW k, k = f.j + 1,
         k \in 1 .. Len(g.refs[f.pivot]), g.refs[f.pivot][k].head \notin S,
         NEW c, Becomes(f, c, k, f.waiting, f.zeros)
  PROVE  SearchOf(g, c, S)
<1>1. /\ f.pivot \in Pivot /\ SeesSuitable(g, f, S) /\ f.next = None /\ f.found = None /\ f.j \in Nat
      /\ WaitsForEdges(g, f) /\ ZerosOfEdges(g, f)
  BY CallIs DEF Searches, SearchOf
<1>2. c.pivot = f.pivot /\ c.next = None /\ c.found = None /\ c.j = k /\ c.waiting = f.waiting /\ c.zeros = f.zeros
  BY DEF Becomes
<1>3. DOMAIN g.refs[f.pivot] = 1 .. Len(g.refs[f.pivot])
  BY <1>1, WholeIs, RowIs
<1>4. ASSUME NEW m \in DOMAIN g.refs[f.pivot] PROVE Seen(g, c, m) <=> m <= k /\ g.refs[f.pivot][m].head \in S
  <2>1. Seen(g, c, m) <=> Seen(g, f, m)
    BY <1>2 DEF Seen
  <2>2. Seen(g, f, m) <=> m <= f.j /\ g.refs[f.pivot][m].head \in S
    BY <1>1 DEF SeesSuitable
  <2>3. m # k => (m <= k <=> m <= f.j)
    BY <1>1, <1>3
  <2>. QED BY <2>1, <2>2, <2>3, <1>1
<1>5. WaitsForEdges(g, c)
  BY <1>1, <1>2 DEF WaitsForEdges
<1>6. ZerosOfEdges(g, c)
  <2>. SUFFICES ASSUME NEW z \in c.zeros
       PROVE  \E m \in DOMAIN g.refs[c.pivot] :
                LET e == g.refs[c.pivot][m] IN
                /\ e.coefficient = z /\ IsTerminal(g.op, z) /\ g.op[z].val = 0
                /\ IsTerminal(g.op, e.numeric) /\ g.op[e.numeric].done /\ e.numeric \notin c.waiting
    BY Zenon DEF ZerosOfEdges
  <2>1. PICK m \in DOMAIN g.refs[f.pivot] :
          LET e == g.refs[f.pivot][m] IN
          /\ e.coefficient = z /\ IsTerminal(g.op, z) /\ g.op[z].val = 0
          /\ IsTerminal(g.op, e.numeric) /\ g.op[e.numeric].done /\ e.numeric \notin f.waiting
    BY <1>1, <1>2, Zenon DEF ZerosOfEdges
  <2>. QED BY <1>2, <2>1, Zenon
<1>7. SeesSuitable(g, c, S)
  BY <1>2, <1>4 DEF SeesSuitable
<1>. QED BY <1>5, <1>6, <1>7 DEF SearchOf

\* It begins.
LEMMA SearchFresh ==
  ASSUME NEW g, NEW c, c.waiting = {}, c.zeros = {}, c.j = 0, NEW S, g.refs[c.pivot] \in Seq(Edges)
  PROVE  SearchOf(g, c, S)
<1>1. DOMAIN g.refs[c.pivot] = 1 .. Len(g.refs[c.pivot]) /\ Len(g.refs[c.pivot]) \in Nat
  OBVIOUS
<1>2. \A k \in DOMAIN g.refs[c.pivot] : ~ (k <= c.j) /\ ~Seen(g, c, k)
  BY <1>1 DEF Seen
<1>. QED BY <1>2 DEF SearchOf, WaitsForEdges, ZerosOfEdges, SeesSuitable

\* The graph is whole, and the heads of each pivot's edges are its own.
Fine(g) == Whole(g, Kept) /\ \A p \in Pivot : HeadsApart(g.refs[p])

LEMMA FineOn ==
  ASSUME NEW g, NEW h, Fine(g), Whole(h, Kept), HeadsKept(g.refs, h.refs)
  PROVE  Fine(h)
BY DEF Fine, HeadsKept

LEMMA FineSame ==
  ASSUME NEW g, NEW h, Fine(g), Whole(h, Kept), SameHeads(g.refs, h.refs)
  PROVE  Fine(h)
<1>1. g.refs \in [Pivot -> Seq(Edges)] /\ h.refs \in [Pivot -> Seq(Edges)]
  BY WholeIs DEF Fine
<1>. QED BY <1>1, HeadsSame, FineOn

LEMMA FineFinish ==
  ASSUME NEW g, Fine(g), NEW o \in DOMAIN g.op, NEW h, h = [g EXCEPT !.op = Finish(@, o)]
  PROVE  Fine(h) /\ h.refs = g.refs /\ h.op = Finish(g.op, o) /\ Later(g.op, h.op)
         /\ (o \in DOMAIN h.op /\ IsTerminal(g.op, o) => h.op[o].done)
<1>1. Whole(g, Kept)
  BY DEF Fine
<1>2. h = [refs |-> g.refs, op |-> Finish(g.op, o)] /\ Whole(h, Kept) /\ Later(g.op, Finish(g.op, o))
      /\ (o \in DOMAIN Finish(g.op, o) /\ IsTerminal(g.op, o) => Finish(g.op, o)[o].done)
  BY <1>1, FinishWhole
<1>3. h.refs = g.refs /\ h.op = Finish(g.op, o)
  BY <1>2
<1>4. Fine(h)
  BY <1>2, <1>3 DEF Fine
<1>. QED BY <1>2, <1>3, <1>4

\* The call and the graph after a terminal was popped.
SearchedWell(f, S, r) ==
  /\ Fine(r.graph) /\ r.call \in Calls /\ r.call.pivot = f.pivot /\ r.call.despair = f.despair
  /\ r.call.next = None /\ r.call.found # f.pivot /\ SearchOf(r.graph, r.call, S)

\* What becomes of a call: it found h, knows the zero z, or has deleted the edge to h.
FoundCall(f, c, w, h) == c = [[f EXCEPT !.waiting = @ \ {w}] EXCEPT !.found = h]
ZeroCall(f, c, w, z) == c = [[f EXCEPT !.waiting = @ \ {w}] EXCEPT !.zeros = @ \cup {z}]
LessCall(f, c, w, h) == c = [[f EXCEPT !.waiting = @ \ {w}] EXCEPT !.j = @ - 1, !.gone = @ \cup {h}]

SameCall(f, c) == c \in Calls /\ c.pivot = f.pivot /\ c.despair = f.despair /\ c.next = f.next
FoundWell(f, c, w, h) ==
  SameCall(f, c) /\ c.found = h /\ c.waiting \subseteq f.waiting /\ c.zeros = f.zeros
ZeroWell(f, c, w, z) ==
  /\ SameCall(f, c) /\ c.found = f.found /\ c.j = f.j
  /\ c.waiting = f.waiting \ {w} /\ c.zeros = f.zeros \cup {z}
LessWell(f, c, w, h) ==
  /\ SameCall(f, c) /\ c.found = f.found /\ c.j = f.j - 1
  /\ c.waiting = f.waiting \ {w} /\ c.zeros = f.zeros

LEMMA CallFound ==
  ASSUME NEW f, f \in Calls, NEW w, NEW h, h \in Pivot, NEW c, FoundCall(f, c, w, h)
  PROVE  FoundWell(f, c, w, h)
BY DEF Calls, FoundCall, FoundWell, SameCall

LEMMA CallZero ==
  ASSUME NEW f, f \in Calls, NEW w, NEW z, z \in Nat, NEW c, ZeroCall(f, c, w, z)
  PROVE  ZeroWell(f, c, w, z)
BY DEF Calls, ZeroCall, ZeroWell, SameCall

LEMMA CallDeleted ==
  ASSUME NEW f, f \in Calls, f.j >= 1, NEW w, NEW h, h \in Integral, NEW c, LessCall(f, c, w, h)
  PROVE  LessWell(f, c, w, h)
<1>. DEFINE d == [f EXCEPT !.waiting = @ \ {w}]
<1>1. d \in Calls /\ d = [f EXCEPT !.waiting = f.waiting \ {w}]
  BY DEF Calls
<1>2. /\ d.pivot = f.pivot /\ d.despair = f.despair /\ d.next = f.next /\ d.found = f.found
      /\ d.j = f.j /\ d.waiting = f.waiting \ {w} /\ d.zeros = f.zeros
  BY DEF Calls
<1>. HIDE DEF d
<1>3. c = [d EXCEPT !.j = d.j - 1, !.gone = d.gone \cup {h}]
  BY DEF d, LessCall
<1>4. d.j - 1 \in Nat /\ d.gone \cup {h} \in SUBSET Integral /\ f.j \in Nat
  BY <1>1, <1>2, CallIs
<1>5. c \in Calls
  BY <1>1, <1>3, <1>4 DEF Calls
<1>6. /\ c.pivot = d.pivot /\ c.despair = d.despair /\ c.next = d.next /\ c.found = d.found
      /\ c.j = d.j - 1 /\ c.waiting = d.waiting /\ c.zeros = d.zeros
  BY <1>1, <1>3 DEF Calls
<1>. QED BY <1>2, <1>5, <1>6 DEF LessWell, SameCall

\* The search goes on where it was: the edge it looked at last takes the place of the
\* deleted one.
LEMMA PlacesKept ==
  ASSUME NEW n \in Nat, NEW j \in Nat, NEW target \in 1 .. n, target <= j, NEW replacement,
         replacement = IF j < n THEN j ELSE 1
  PROVE  /\ replacement \in 1 .. n
         /\ \A k \in 1 .. (n - 1) : k <= j - 1 <=> From(k, n, target, replacement) <= j
<1>1. replacement \in 1 .. n
  OBVIOUS
<1>2. ASSUME NEW k \in 1 .. (n - 1) PROVE k <= j - 1 <=> From(k, n, target, replacement) <= j
  <2>1. CASE j < n
    <3>1. replacement = j
      BY <2>1
    <3>2. CASE k = j
      <4>1. From(k, n, target, replacement) = n
        BY <2>1, <3>1, <3>2 DEF From, Other
      <4>. QED BY <2>1, <3>2, <4>1
    <3>3. CASE k # j
      <4>1. From(k, n, target, replacement) = Other(k, target, j)
        BY <3>1, <3>3 DEF From
      <4>2. CASE k = target
        BY <3>3, <4>1, <4>2 DEF Other
      <4>3. CASE k # target
        BY <3>3, <4>1, <4>3 DEF Other
      <4>. QED BY <4>2, <4>3
    <3>. QED BY <3>2, <3>3
  <2>2. CASE ~ (j < n)
    <3>1. From(k, n, target, replacement) \in 1 .. n
      BY <1>1 DEF From, Other
    <3>. QED BY <2>2, <3>1
  <2>. QED BY <2>1, <2>2
<1>. QED BY <1>1, <1>2

\* A numeric arrives: its edge is found, kept, made a zero, or deleted.
LEMMA PoppedSound ==
  ASSUME NEW g, Fine(g), NEW f, NEW S, Searches(g, f, S), NEW w \in f.waiting, NEW r \in Popped(f, g, w)
  PROVE  SearchedWell(f, S, r)
<1>. DEFINE i == f.pivot
            k == IndexByNumeric(g.refs[i], w)
            h == [g EXCEPT !.op = Finish(@, w)]
            t == TerminateCoefficient(h, i, k)
            rest == [f EXCEPT !.waiting = @ \ {w}]
            es == g.refs[i]
            n == Len(es)
            repl == IF f.j < n THEN f.j ELSE 1
            found == [rest EXCEPT !.found = g.refs[i][k].head]
            zero == [rest EXCEPT !.zeros = @ \cup {t.refs[i][k].coefficient}]
            less == [rest EXCEPT !.j = @ - 1, !.gone = @ \cup {g.refs[i][k].head}]
<1>1. /\ f \in Calls /\ i \in Pivot /\ f.next = None /\ f.found = None /\ S \subseteq Pivot \ {i} /\ f.j \in Nat
      /\ Whole(g, Kept)
  BY CallIs DEF Searches, Fine
<1>2. WaitedAt(g, f, S, w, k)
  BY <1>1, WaitedIs
<1>3. /\ k \in 1 .. n /\ es[k].numeric = w /\ IsTerminal(g.op, w) /\ w \in DOMAIN g.op
      /\ Seen(g, f, k) /\ k <= f.j /\ es[k].head \in S /\ es[k].coefficient \notin f.zeros
  BY <1>2 DEF WaitedAt, SeenWell
<1>4. /\ Fine(h) /\ h.refs = g.refs /\ Later(g.op, h.op)
      /\ (w \in DOMAIN h.op /\ IsTerminal(g.op, w) => h.op[w].done)
  BY <1>3, FineFinish
<1>5. Whole(h, Kept)
  BY <1>4 DEF Fine
<1>6. Searches(h, f, S)
  BY <1>1, <1>4, <1>5, SearchLater
<1>7. w \in DOMAIN h.op
  <2>1. FineEdge(h, i, k)
    BY <1>1, <1>3, <1>4, <1>5, WholeEdge
  <2>. QED BY <1>3, <1>4, <2>1 DEF FineEdge
<1>8. h.op[w].done /\ h.op[w].val = g.op[w].val
  BY <1>3, <1>4, <1>7 DEF Later
<1>9. WaitedAt(h, f, S, w, k)
  <2>1. WaitedAt(h, f, S, w, IndexByNumeric(h.refs[f.pivot], w))
    BY <1>5, <1>6, WaitedIs
  <2>. QED BY <1>4, <2>1
<1>10. es[k].head \in Pivot /\ es[k].head \in Integral /\ es[k].head # i /\ es[k].head # None
  BY <1>1, <1>3, PivotAssumption
<1>11. CASE g.op[w].val # 0
  <2>1. r = [call |-> found, graph |-> h]
    BY <1>11 DEF Popped
  <2>2. r.call = found /\ r.graph = h
    BY <2>1
  <2>. HIDE DEF h, k
  <2>3. /\ found \in Calls /\ found.pivot = f.pivot /\ found.despair = f.despair /\ found.next = f.next
        /\ found.found = es[k].head /\ found.waiting \subseteq f.waiting /\ found.zeros = f.zeros
    <3>. DEFINE x == es[k].head
    <3>1. FoundCall(f, found, w, x)
      BY DEF FoundCall
    <3>2. x \in Pivot
      BY <1>10
    <3>. HIDE DEF found, x
    <3>3. f \in Calls
      BY <1>1
    <3>4. FoundWell(f, found, w, x)
      BY <3>1, <3>2, <3>3, CallFound
    <3>. QED BY <3>4 DEF x, FoundWell, SameCall
  <2>. HIDE DEF found
  <2>4. SearchOf(h, found, S)
    BY <1>6, <1>10, <2>3, SearchFound
  <2>. QED BY <1>1, <1>4, <1>10, <2>2, <2>3, <2>4 DEF SearchedWell
<1>12. CASE g.op[w].val = 0 /\ elimination # "optimistic"
  <2>1. r = [call |-> zero, graph |-> t]
    BY <1>12 DEF Popped
  <2>2. r.call = zero /\ r.graph = t
    BY <2>1
  <2>. HIDE DEF h, k
  <2>3. k \in 1 .. Len(h.refs[i])
    BY <1>3, <1>4
  <2>4. CoefficientBaked(h, t, Kept, i, k)
    BY <1>1, <1>5, <2>3, CoefficientIsBaked
  <2>5. Whole(t, Kept) /\ AtEdge(h, t, i, k)
    BY <2>4 DEF CoefficientBaked
  <2>6. Fine(t)
    BY <1>4, <2>5, AtSameHeads, FineSame
  <2>. DEFINE z == t.refs[i][k].coefficient
  <2>7. z \in Nat
    <3>1. k \in 1 .. Len(t.refs[i])
      BY <1>1, <2>3, <2>5 DEF AtEdge
    <3>2. FineEdge(t, i, k)
      BY <1>1, <2>5, <3>1, WholeEdge
    <3>3. t.refs[i][k] \in Edges
      BY <3>2 DEF FineEdge
    <3>. QED BY <3>3, EdgeParts
  <2>. HIDE DEF t
  <2>8. /\ zero \in Calls /\ zero.pivot = f.pivot /\ zero.despair = f.despair /\ zero.next = f.next
        /\ zero.found = f.found /\ zero.j = f.j /\ zero.waiting = f.waiting \ {w} /\ zero.zeros = f.zeros \cup {z}
    <3>1. ZeroCall(f, zero, w, z)
      BY DEF z, ZeroCall
    <3>2. f \in Calls
      BY <1>1
    <3>. HIDE DEF zero, z
    <3>3. ZeroWell(f, zero, w, z)
      BY <2>7, <3>1, <3>2, CallZero
    <3>. QED BY <3>3 DEF ZeroWell, SameCall
  <2>. HIDE DEF zero
  <2>9. Becomes(f, zero, f.j, f.waiting \ {w}, f.zeros \cup {t.refs[f.pivot][k].coefficient})
    BY <1>1, <2>8 DEF Becomes
  <2>10. SearchOf(t, zero, S)
    BY <1>5, <1>6, <1>8, <1>9, <1>12, <2>4, <2>9, SearchZero
  <2>11. zero.found # f.pivot
    BY <1>1, <2>8, PivotAssumption
  <2>. QED BY <1>1, <2>2, <2>6, <2>8, <2>10, <2>11 DEF SearchedWell
<1>13. CASE g.op[w].val = 0 /\ elimination = "optimistic"
  <2>1. PICK arrived \in BOOLEAN : r = [call |-> less, graph |-> Delete(h, i, k, repl, arrived)]
    BY <1>13 DEF Popped
  <2>. DEFINE d == Delete(h, i, k, repl, arrived)
  <2>2. r.call = less /\ r.graph = d
    BY <2>1
  <2>3. n \in Nat /\ Len(h.refs[i]) = n /\ k \in 1 .. Len(h.refs[i])
    BY <1>1, <1>3, <1>4, WholeIs, RowIs
  <2>. HIDE DEF h, k, n
  <2>4. repl \in 1 .. n /\ \A x \in 1 .. (n - 1) : x <= f.j - 1 <=> From(x, n, k, repl) <= f.j
    BY <1>1, <1>3, <2>3, PlacesKept
  <2>. HIDE DEF repl
  <2>5. DeletedWell(h, d, Kept, i, k, repl)
    BY <1>1, <1>5, <2>3, <2>4, DeleteSound
  <2>. HIDE DEF d
  <2>6. Whole(d, Kept) /\ HeadsKept(h.refs, d.refs) /\ Len(d.refs[i]) = n - 1
    BY <2>3, <2>5 DEF DeletedWell, Deleted
  <2>7. Fine(d)
    BY <1>4, <2>6, FineOn
  <2>8. f.j >= 1
    BY <1>1, <1>3, <2>3
  <2>9. /\ less \in Calls /\ less.pivot = f.pivot /\ less.despair = f.despair /\ less.next = f.next
        /\ less.found = f.found /\ less.j = f.j - 1 /\ less.waiting = f.waiting \ {w} /\ less.zeros = f.zeros
    <3>. DEFINE x == es[k].head
    <3>1. LessCall(f, less, w, x)
      BY DEF LessCall
    <3>2. x \in Integral
      BY <1>10
    <3>3. f \in Calls
      BY <1>1
    <3>. HIDE DEF less, x
    <3>4. LessWell(f, less, w, x)
      BY <2>8, <3>1, <3>2, <3>3, CallDeleted
    <3>. QED BY <3>4 DEF LessWell, SameCall
  <2>. HIDE DEF less
  <2>10. h.refs[f.pivot][k].numeric = w /\ f.zeros \ {h.refs[f.pivot][k].coefficient} = f.zeros
    BY <1>3, <1>4
  <2>11. Becomes(f, less, f.j - 1, f.waiting \ {h.refs[f.pivot][k].numeric}, f.zeros \ {h.refs[f.pivot][k].coefficient})
    BY <1>1, <2>9, <2>10 DEF Becomes
  <2>12. \A x \in 1 .. Len(d.refs[f.pivot]) : x <= f.j - 1 <=> From(x, Len(h.refs[f.pivot]), k, repl) <= f.j
    BY <2>3, <2>4, <2>6
  <2>13. Seen(h, f, k)
    BY <1>9 DEF WaitedAt
  <2>14. SearchOf(d, less, S)
    BY <1>5, <1>6, <2>3, <2>4, <2>5, <2>11, <2>12, <2>13, SearchDeleted
  <2>15. less.found # f.pivot
    BY <1>1, <2>9, PivotAssumption
  <2>. QED BY <1>1, <2>2, <2>7, <2>9, <2>14, <2>15 DEF SearchedWell
<1>. QED BY <1>11, <1>12, <1>13

-----------------------------------------------------------------------------
(* The steps of the search *)

LEMMA SearchesIs ==
  ASSUME NEW g, NEW f, NEW S, Searches(g, f, S)
  PROVE  /\ f \in Calls /\ f.pivot \in Pivot /\ f.next = None /\ f.found = None /\ f.found # f.pivot
         /\ f.j \in Nat /\ f.waiting \in SUBSET Nat /\ f.zeros \in SUBSET Nat /\ f.gone \in SUBSET Integral
         /\ S \subseteq Pivot \ {f.pivot} /\ SearchOf(g, f, S)
BY CallIs, PivotAssumption DEF Searches

\* A call goes on to k, and waits for one more, or for no more.
LookedCall(f, c, k, waiting) == c = [f EXCEPT !.j = k, !.waiting = waiting]
LookedWell(f, c, k, waiting) ==
  /\ c \in Calls /\ c.pivot = f.pivot /\ c.despair = f.despair /\ c.next = f.next /\ c.found = f.found
  /\ c.j = k /\ c.waiting = waiting /\ c.zeros = f.zeros

LEMMA CallLooked ==
  ASSUME NEW f, f \in Calls, NEW k, k \in Nat, NEW waiting, waiting \in SUBSET Nat, NEW c, LookedCall(f, c, k, waiting)
  PROVE  LookedWell(f, c, k, waiting)
BY DEF Calls, LookedCall, LookedWell

\* The call that has looked at the next edge is searching still.
LookedOn(f, S, c, h) == Fine(h) /\ Searches(h, c, S) /\ c.pivot = f.pivot /\ c.despair = f.despair

\* The next edge is suitable: it is waited for, ...
LEMMA LookSuitable ==
  ASSUME NEW g, Fine(g), NEW f, NEW S, Searches(g, f, S), NEW k, k = f.j + 1, k \in 1 .. Len(g.refs[f.pivot]),
         g.refs[f.pivot][k].head \in S,
         NEW h, h = TerminateNumeric(g, f.pivot, k),
         NEW c, LookedCall(f, c, k, f.waiting \cup {h.refs[f.pivot][k].numeric})
  PROVE  LookedOn(f, S, c, h)
<1>. DEFINE i == f.pivot
            o == h.refs[i][k].numeric
<1>1. /\ f \in Calls /\ i \in Pivot /\ f.next = None /\ f.found = None /\ f.j \in Nat /\ f.waiting \in SUBSET Nat
      /\ S \subseteq Pivot \ {i}
  BY SearchesIs
<1>2. Whole(g, Kept) /\ k \in Nat
  BY <1>1 DEF Fine
<1>3. NumericBaked(g, h, Kept, i, k)
  BY <1>1, <1>2, NumericIsBaked
<1>4. Whole(h, Kept) /\ AtEdge(g, h, i, k)
  BY <1>3 DEF NumericBaked
<1>5. Fine(h)
  BY <1>4, AtSameHeads, FineSame
<1>6. o \in Nat
  <2>1. k \in 1 .. Len(h.refs[i])
    BY <1>1, <1>4 DEF AtEdge
  <2>2. FineEdge(h, i, k)
    BY <1>1, <1>4, <2>1, WholeEdge
  <2>3. h.refs[i][k] \in Edges
    BY <2>2 DEF FineEdge
  <2>. QED BY <2>3, EdgeParts
<1>. DEFINE waiting == f.waiting \cup {o}
<1>7. waiting \in SUBSET Nat
  BY <1>1, <1>6
<1>8. LookedWell(f, c, k, waiting)
  <2>1. LookedCall(f, c, k, waiting)
    OBVIOUS
  <2>2. f \in Calls
    BY <1>1
  <2>. HIDE DEF waiting
  <2>. QED BY <1>2, <1>7, <2>1, <2>2, CallLooked
<1>9. Becomes(f, c, k, f.waiting \cup {h.refs[f.pivot][k].numeric}, f.zeros)
  BY <1>1, <1>8 DEF LookedWell, Becomes
<1>10. SearchOf(h, c, S)
  BY <1>2, <1>3, <1>9, SearchLooked
<1>11. Searches(h, c, S)
  BY <1>1, <1>8, <1>10 DEF LookedWell, Searches
<1>. QED BY <1>5, <1>8, <1>11 DEF LookedOn, LookedWell

\* ... or it is not, and the search goes on.
LEMMA LookPast ==
  ASSUME NEW g, Fine(g), NEW f, NEW S, Searches(g, f, S), NEW k, k = f.j + 1, k \in 1 .. Len(g.refs[f.pivot]),
         g.refs[f.pivot][k].head \notin S, NEW c, LookedCall(f, c, k, f.waiting)
  PROVE  LookedOn(f, S, c, g)
<1>1. /\ f \in Calls /\ f.pivot \in Pivot /\ f.next = None /\ f.found = None /\ f.j \in Nat /\ f.waiting \in SUBSET Nat
      /\ S \subseteq Pivot \ {f.pivot}
  BY SearchesIs
<1>2. Whole(g, Kept) /\ k \in Nat
  BY <1>1 DEF Fine
<1>3. LookedWell(f, c, k, f.waiting)
  <2>1. f \in Calls /\ f.waiting \in SUBSET Nat
    BY <1>1
  <2>. QED BY <1>2, <2>1, CallLooked
<1>4. Becomes(f, c, k, f.waiting, f.zeros)
  BY <1>1, <1>3 DEF LookedWell, Becomes
<1>5. SearchOf(g, c, S)
  BY <1>2, <1>4, SearchPassed
<1>6. Searches(g, c, S)
  BY <1>1, <1>3, <1>5 DEF LookedWell, Searches
<1>. QED BY <1>3, <1>6 DEF LookedOn, LookedWell

\* A zero is deleted.
ClearedCall(f, c, z, h) == c = [f EXCEPT !.zeros = @ \ {z}, !.gone = @ \cup {h}]
ClearedWell(f, c, z) ==
  /\ c \in Calls /\ c.pivot = f.pivot /\ c.despair = f.despair /\ c.next = f.next /\ c.found = f.found
  /\ c.j = f.j /\ c.waiting = f.waiting /\ c.zeros = f.zeros \ {z}

LEMMA CallCleared ==
  ASSUME NEW f, f \in Calls, NEW z, NEW h, h \in Integral, NEW c, ClearedCall(f, c, z, h)
  PROVE  ClearedWell(f, c, z)
BY DEF Calls, ClearedCall, ClearedWell

ConfirmedWell(f, S, d, c) ==
  /\ Fine(d) /\ SearchOf(d, c, S) /\ c \in Calls /\ c.pivot = f.pivot /\ c.despair = f.despair
  /\ c.next = None /\ c.found # f.pivot

\* A zero is confirmed by its coefficient, and the edge is deleted.
LEMMA ConfirmDelete ==
  ASSUME NEW h, Fine(h), NEW f, NEW S, Searches(h, f, S), f.waiting = {}, ~ (f.j < Len(h.refs[f.pivot])),
         NEW z \in f.zeros, NEW k, k = IndexByCoefficient(h.refs[f.pivot], z),
         NEW d, d = Delete(h, f.pivot, k, 1, TRUE),
         NEW c, ClearedCall(f, c, z, h.refs[f.pivot][k].head)
  PROVE  ConfirmedWell(f, S, d, c)
<1>. DEFINE i == f.pivot
<1>1. /\ f \in Calls /\ i \in Pivot /\ f.next = None /\ f.found = None /\ f.found # i /\ f.j \in Nat
      /\ S \subseteq Pivot \ {i}
  BY SearchesIs
<1>2. Whole(h, Kept)
  BY DEF Fine
<1>3. ZeroAt(h, f, S, z, k)
  BY <1>2, ZeroIs
<1>4. k \in 1 .. Len(h.refs[i]) /\ h.refs[i][k].coefficient = z /\ Seen(h, f, k)
  BY <1>3 DEF ZeroAt
<1>5. h.refs \in [Pivot -> Seq(Edges)]
  BY <1>2, WholeIs
<1>6. Len(h.refs[i]) \in Nat
  BY <1>1, <1>5, RowIs
<1>7. 1 \in 1 .. Len(h.refs[i])
  <2>. DEFINE n == Len(h.refs[i])
  <2>1. n \in Nat /\ k \in 1 .. n
    BY <1>4, <1>6
  <2>. HIDE DEF n
  <2>2. 1 \in 1 .. n
    BY <2>1
  <2>. QED BY <2>2 DEF n
<1>8. DeletedWell(h, d, Kept, i, k, 1)
  <2>1. TRUE \in BOOLEAN
    OBVIOUS
  <2>2. i \in Pivot
    BY <1>1
  <2>3. DeletedWell(h, Delete(h, i, k, 1, TRUE), Kept, i, k, 1)
    <3>. HIDE DEF i
    <3>. QED BY <1>2, <1>4, <1>7, <2>1, <2>2, DeleteSound
  <2>. QED BY <2>3
<1>9. Whole(d, Kept) /\ HeadsKept(h.refs, d.refs) /\ Deleted(h.refs, d.refs, i, k, 1)
  BY <1>8 DEF DeletedWell
<1>10. Fine(d)
  BY <1>9, FineOn
<1>11. h.refs[i][k].head \in Integral
  <2>1. FineEdge(h, i, k)
    BY <1>1, <1>2, <1>4, WholeEdge
  <2>2. h.refs[i][k] \in Edges
    BY <2>1 DEF FineEdge
  <2>. QED BY <2>2, EdgeParts
<1>12. ClearedWell(f, c, z)
  <2>. DEFINE x == h.refs[i][k].head
  <2>1. f \in Calls /\ x \in Integral /\ ClearedCall(f, c, z, x)
    BY <1>1, <1>11
  <2>. HIDE DEF x
  <2>. QED BY <2>1, CallCleared
<1>13. Becomes(f, c, f.j, f.waiting \ {h.refs[f.pivot][k].numeric}, f.zeros \ {h.refs[f.pivot][k].coefficient})
  BY <1>1, <1>4, <1>12 DEF ClearedWell, Becomes
<1>14. \A x \in 1 .. Len(d.refs[f.pivot]) : x <= f.j <=> From(x, Len(h.refs[f.pivot]), k, 1) <= f.j
  <2>. DEFINE n == Len(h.refs[i])
              m == f.j
  <2>1. Len(d.refs[i]) = n - 1
    BY <1>9 DEF Deleted
  <2>2. TAKE x \in 1 .. Len(d.refs[i])
  <2>. DEFINE y == From(x, n, k, 1)
  <2>3. y \in 1 .. n
    BY <1>9, <2>2 DEF Deleted
  <2>4. n \in Nat /\ m \in Nat /\ ~ (m < n) /\ x \in 1 .. (n - 1)
    BY <1>1, <1>6, <2>1, <2>2
  <2>5. x <= m /\ y <= m
    <3>. HIDE DEF n, m, y
    <3>. QED BY <2>3, <2>4
  <2>. QED BY <2>5
<1>15. SearchOf(d, c, S)
  <2>1. i \in Pivot
    BY <1>1
  <2>. DEFINE j == f.j
  <2>2. Becomes(f, c, j, f.waiting \ {h.refs[f.pivot][k].numeric}, f.zeros \ {h.refs[f.pivot][k].coefficient})
        /\ \A x \in 1 .. Len(d.refs[f.pivot]) : x <= j <=> From(x, Len(h.refs[f.pivot]), k, 1) <= f.j
    BY <1>13, <1>14
  <2>. HIDE DEF j
  <2>. QED BY <1>2, <1>4, <1>7, <1>8, <2>2, SearchDeleted
<1>. QED BY <1>1, <1>10, <1>12, <1>15 DEF ClearedWell, ConfirmedWell

\* A zero is confirmed, or turns out not to be one.
LEMMA ConfirmSound ==
  ASSUME NEW g, Fine(g), NEW f, NEW S, Searches(g, f, S), f.waiting = {}, ~ (f.j < Len(g.refs[f.pivot])),
         NEW z \in f.zeros, NEW h, h = [g EXCEPT !.op = Finish(@, z)],
         NEW k, k = IndexByCoefficient(h.refs[f.pivot], z),
         NEW d, d = Delete(h, f.pivot, k, 1, TRUE),
         NEW c, ClearedCall(f, c, z, h.refs[f.pivot][k].head)
  PROVE  ConfirmedWell(f, S, d, c)
<1>1. Whole(g, Kept)
  BY DEF Fine
<1>2. ZeroAt(g, f, S, z, IndexByCoefficient(g.refs[f.pivot], z))
  BY <1>1, ZeroIs
<1>3. z \in DOMAIN g.op
  BY <1>2 DEF ZeroAt
<1>4. Fine(h) /\ h.refs = g.refs /\ Later(g.op, h.op)
  BY <1>3, FineFinish
<1>5. Whole(h, Kept)
  BY <1>4 DEF Fine
<1>6. Searches(h, f, S)
  BY <1>1, <1>4, <1>5, SearchLater
<1>7. ~ (f.j < Len(h.refs[f.pivot]))
  BY <1>4
<1>. QED BY <1>4, <1>6, <1>7, ConfirmDelete

Finished(g, h) == Fine(h) /\ h.refs = g.refs /\ Later(g.op, h.op)

LEMMA FineFinished ==
  ASSUME NEW g, Fine(g), NEW o, o \in DOMAIN g.op, NEW h, h = [g EXCEPT !.op = Finish(@, o)]
  PROVE  Finished(g, h)
BY FineFinish DEF Finished

\* The end of a search that found nothing: the edge of i to itself is known then, and if
\* it is not zero, i can be solved.
LEMMA SelfKnownSound ==
  ASSUME NEW g, Fine(g), NEW i \in Pivot, NEW j, j = IndexOf(g.refs[i], i),
         NEW t, t = TerminateNumeric(g, i, j), NEW h,
         h = IF j = 0 THEN g ELSE [t EXCEPT !.op = Finish(@, t.refs[i][j].numeric)]
  PROVE  /\ Fine(h)
         /\ j # 0 /\ g.op[g.refs[i][j].numeric].val # 0 => Fine(Normalize(h, i))
<1>1. CASE j = 0
  <2>1. h = g
    BY <1>1
  <2>. QED BY <1>1, <2>1
<1>2. CASE j # 0
  <2>1. Whole(g, Kept) /\ g.refs[i] \in Seq(Edges)
    BY WholeIs DEF Fine
  <2>2. j \in 1 .. Len(g.refs[i]) /\ g.refs[i][j].head = i
    BY <1>2, <2>1, IndexIs
  <2>3. NumericBaked(g, t, Kept, i, j)
    BY <2>1, <2>2, NumericIsBaked
  <2>4. /\ Whole(t, Kept) /\ AtEdge(g, t, i, j) /\ Later(g.op, t.op)
        /\ t.refs[i][j].coefficient = g.refs[i][j].coefficient
    BY <2>3 DEF NumericBaked
  <2>5. Fine(t)
    BY <2>4, AtSameHeads, FineSame
  <2>6. Len(t.refs[i]) = Len(g.refs[i]) /\ t.refs[i][j].head = i
    BY <2>2, <2>4 DEF AtEdge
  <2>7. FineEdge(g, i, j) /\ FineEdge(t, i, j)
    BY <2>1, <2>2, <2>4, <2>6, WholeEdge
  <2>8. t.op[t.refs[i][j].numeric].val = g.op[g.refs[i][j].numeric].val
    <3>1. t.op[g.refs[i][j].coefficient].val = g.op[g.refs[i][j].coefficient].val
      BY <2>4, <2>7 DEF FineEdge, Later
    <3>. QED BY <2>4, <2>7, <3>1 DEF FineEdge
  <2>. DEFINE o == t.refs[i][j].numeric
  <2>9. o \in DOMAIN t.op
    BY <2>7 DEF FineEdge
  <2>10. h = [t EXCEPT !.op = Finish(@, o)]
    BY <1>2
  <2>11. Fine(h) /\ h.refs = t.refs /\ Later(t.op, h.op) /\ Whole(h, Kept)
    <3>. HIDE DEF o
    <3>1. Finished(t, h)
      BY <2>5, <2>9, <2>10, FineFinished
    <3>. QED BY <3>1 DEF Finished, Fine
  <2>. HIDE DEF o
  <2>12. ASSUME g.op[g.refs[i][j].numeric].val # 0
         PROVE  Fine(Normalize(h, i))
    <3>1. Whole(h, Kept) /\ HeadsApart(h.refs[i]) /\ h.refs[i] \in Seq(Edges)
      <4>1. h.refs \in [Pivot -> Seq(Edges)]
        BY <2>11, WholeIs
      <4>. QED BY <2>11, <4>1 DEF Fine
    <3>2. IndexOf(h.refs[i], i) \in 1 .. Len(h.refs[i]) /\ h.refs[i][IndexOf(h.refs[i], i)].head = i
      <4>1. h.refs[i][j].head = i /\ j \in 1 .. Len(h.refs[i])
        BY <2>2, <2>6, <2>11
      <4>. QED BY <3>1, <4>1, IndexIs
    <3>3. IndexOf(h.refs[i], i) = j
      <4>. DEFINE es == h.refs[i]
                  m == IndexOf(h.refs[i], i)
      <4>1. Len(es) \in Nat /\ DOMAIN es = 1 .. Len(es)
        BY <3>1
      <4>2. j \in 1 .. Len(es) /\ m \in 1 .. Len(es) /\ es[j].head = es[m].head /\ HeadsApart(es)
        BY <2>2, <2>6, <2>11, <3>1, <3>2
      <4>. HIDE DEF es, m
      <4>3. m = j
        BY <4>1, <4>2 DEF HeadsApart
      <4>. QED BY <4>3 DEF m
    <3>4. o \in DOMAIN h.op
      <4>1. FineEdge(h, i, j)
        BY <2>2, <2>6, <2>11, <3>1, WholeEdge
      <4>. QED BY <2>11, <4>1 DEF FineEdge, o
    <3>5. h.op[o].val = t.op[o].val
      BY <2>9, <2>11, <3>4 DEF Later
    <3>6. h.op[h.refs[i][j].numeric].val # 0
      BY <2>8, <2>11, <2>12, <3>5 DEF o
    <3>7. Whole(Normalize(h, i), Kept) /\ HeadsKept(h.refs, Normalize(h, i).refs)
      BY <1>2, <3>1, <3>3, <3>6, NormalizeSound
    <3>. QED BY <2>11, <3>7, FineOn
  <2>. QED BY <2>11, <2>12
<1>. QED BY <1>1, <1>2

-----------------------------------------------------------------------------
(* The stack *)

\* SearchOnTop of any stack.
OnTop(st) ==
  \A k \in 1 .. Len(st) :
    /\ st[k].next # st[k].pivot /\ st[k].found # st[k].pivot
    /\ st[k].next # None => /\ st[k].found = None /\ st[k].j = 0
                            /\ st[k].waiting = {} /\ st[k].zeros = {} /\ st[k].gone = {}
    /\ k < Len(st) => st[k].next = st[k + 1].pivot

StackWell(st) == st \in Seq(Calls) /\ OnTop(st)

\* The call on top, and one that is not searching.
TopOf(st) == st[Len(st)]
Idle(f) == f.found = None /\ f.j = 0 /\ f.waiting = {} /\ f.zeros = {}

LEMMA StackIs ==
  ASSUME NEW st, StackWell(st), st # <<>>
  PROVE  /\ Len(st) \in Nat /\ Len(st) >= 1 /\ Len(st) \in 1 .. Len(st) /\ TopOf(st) \in Calls
         /\ TopOf(st).next # TopOf(st).pivot /\ TopOf(st).found # TopOf(st).pivot
<1>1. st \in Seq(Calls) /\ OnTop(st)
  BY DEF StackWell
<1>2. Len(st) \in Nat /\ Len(st) # 0
  BY <1>1, EmptySeq
<1>3. Len(st) \in 1 .. Len(st)
  BY <1>2
<1>4. TopOf(st) \in Calls
  BY <1>1, <1>3 DEF TopOf
<1>. QED BY <1>1, <1>2, <1>3, <1>4 DEF OnTop, TopOf

\* A call that may be on top of that at m.
Follows(st, m, f) == f \in Calls /\ f.next # f.pivot /\ f.found # f.pivot
                     /\ (f.next # None => Idle(f) /\ f.gone = {})
                     /\ (m >= 1 => st[m].next = f.pivot)

\* The calls below stay, and f is the next one.
Topped(st, t, m, f) ==
  /\ t \in Seq(Calls) /\ Len(t) = m + 1 /\ t[m + 1] = f
  /\ \A k \in 1 .. m : t[k] = st[k]

LEMMA ToppedWell ==
  ASSUME NEW st, StackWell(st), NEW m \in Nat, m <= Len(st), NEW f, Follows(st, m, f),
         NEW t, Topped(st, t, m, f)
  PROVE  StackWell(t) /\ t # <<>> /\ TopOf(t) = f
<1>1. st \in Seq(Calls) /\ OnTop(st) /\ Len(st) \in Nat
  BY DEF StackWell
<1>2. t \in Seq(Calls) /\ Len(t) = m + 1 /\ t[m + 1] = f /\ \A k \in 1 .. m : t[k] = st[k]
  BY DEF Topped
<1>3. t # <<>> /\ TopOf(t) = f
  BY <1>2 DEF TopOf
<1>4. ASSUME NEW k \in 1 .. Len(t)
      PROVE  /\ t[k].next # t[k].pivot /\ t[k].found # t[k].pivot
             /\ t[k].next # None => /\ t[k].found = None /\ t[k].j = 0
                                    /\ t[k].waiting = {} /\ t[k].zeros = {} /\ t[k].gone = {}
             /\ k < Len(t) => t[k].next = t[k + 1].pivot
  <2>1. CASE k = m + 1
    <3>1. t[k] = f /\ ~ (k < Len(t))
      BY <1>2, <2>1
    <3>. QED BY <3>1 DEF Follows, Idle
  <2>2. CASE k # m + 1
    <3>1. k \in 1 .. m /\ k \in 1 .. Len(st) /\ t[k] = st[k]
      BY <1>1, <1>2, <2>2
    <3>2. /\ st[k].next # st[k].pivot /\ st[k].found # st[k].pivot
          /\ st[k].next # None => /\ st[k].found = None /\ st[k].j = 0
                                  /\ st[k].waiting = {} /\ st[k].zeros = {} /\ st[k].gone = {}
          /\ k < Len(st) => st[k].next = st[k + 1].pivot
      BY <1>1, <3>1 DEF OnTop
    <3>3. t[k].next = t[k + 1].pivot
      <4>1. CASE k = m
        <5>1. t[k + 1] = f /\ m >= 1
          BY <1>2, <4>1, <3>1
        <5>. QED BY <3>1, <4>1, <5>1 DEF Follows
      <4>2. CASE k # m
        <5>1. k + 1 \in 1 .. m /\ k < Len(st)
          BY <1>1, <3>1, <4>2
        <5>2. t[k + 1] = st[k + 1]
          BY <1>2, <5>1
        <5>. QED BY <3>1, <3>2, <5>1, <5>2
      <4>. QED BY <4>1, <4>2
    <3>. QED BY <3>1, <3>2, <3>3
  <2>. QED BY <2>1, <2>2
<1>5. OnTop(t)
  BY <1>4 DEF OnTop
<1>. QED BY <1>2, <1>3, <1>5 DEF StackWell

\* The call on top goes on, ...
LEMMA StackContinued ==
  ASSUME NEW st, StackWell(st), st # <<>>, NEW f \in Calls, f.pivot = TopOf(st).pivot, f.next = None,
         f.found # f.pivot, NEW t, t = [st EXCEPT ![Len(st)] = f]
  PROVE  StackWell(t) /\ t # <<>> /\ TopOf(t) = f
<1>. DEFINE m == Len(st) - 1
<1>1. st \in Seq(Calls) /\ OnTop(st) /\ Len(st) \in 1 .. Len(st) /\ Len(st) \in Nat /\ Len(st) >= 1
  BY StackIs DEF StackWell
<1>2. IsChanged(t, Calls, st, Len(st), f)
  BY <1>1, ChangedIs
<1>3. m \in Nat /\ m <= Len(st) /\ m + 1 = Len(st)
  BY <1>1
<1>4. Topped(st, t, m, f)
  <2>1. /\ t \in Seq(Calls) /\ Len(t) = Len(st) /\ t[Len(st)] = f
        /\ \A k \in 1 .. Len(t) : k # Len(st) => t[k] = st[k]
    BY <1>2 DEF IsChanged
  <2>2. \A k \in 1 .. m : t[k] = st[k]
    BY <1>1, <2>1
  <2>. QED BY <1>3, <2>1, <2>2 DEF Topped
<1>5. Follows(st, m, f)
  <2>1. ASSUME m >= 1 PROVE st[m].next = f.pivot
    <3>1. m \in 1 .. Len(st) /\ m < Len(st) /\ m + 1 = Len(st)
      BY <1>1, <1>3, <2>1
    <3>2. st[m].next = st[m + 1].pivot
      BY <1>1, <3>1 DEF OnTop
    <3>. QED BY <3>1, <3>2 DEF TopOf
  <2>2. f.pivot # None
    BY CallIs, PivotAssumption
  <2>. QED BY <2>1, <2>2 DEF Follows
<1>. HIDE DEF m
<1>. QED BY <1>3, <1>4, <1>5, ToppedWell

\* ... returns, ...
LEMMA StackLowered ==
  ASSUME NEW st, StackWell(st), st # <<>>, NEW t, t = Front(st)
  PROVE  StackWell(t) /\ (t # <<>> => Idle(TopOf(t)))
<1>. DEFINE m == Len(st) - 1
<1>1. st \in Seq(Calls) /\ OnTop(st) /\ Len(st) \in Nat /\ Len(st) >= 1
  BY StackIs DEF StackWell
<1>2. t = SubSeq(st, 1, m) /\ m \in Nat
  BY <1>1 DEF Front
<1>3. t \in Seq(Calls) /\ Len(t) = m /\ \A k \in 1 .. m : t[k] = st[k]
  <2>. HIDE DEF m
  <2>1. m <= Len(st)
    BY <1>1 DEF m
  <2>. QED BY <1>1, <1>2, <2>1
<1>4. ASSUME NEW k \in 1 .. m
      PROVE  /\ t[k].next # t[k].pivot /\ t[k].found # t[k].pivot
             /\ t[k].next # None => /\ t[k].found = None /\ t[k].j = 0
                                    /\ t[k].waiting = {} /\ t[k].zeros = {} /\ t[k].gone = {}
             /\ k < Len(t) => t[k].next = t[k + 1].pivot
             /\ t[k].next # None
  <2>1. k \in 1 .. Len(st) /\ k < Len(st) /\ k + 1 \in 1 .. Len(st) /\ t[k] = st[k] /\ (k < Len(t) => t[k + 1] = st[k + 1])
    BY <1>1, <1>3
  <2>2. /\ st[k].next # st[k].pivot /\ st[k].found # st[k].pivot
        /\ st[k].next # None => /\ st[k].found = None /\ st[k].j = 0
                                /\ st[k].waiting = {} /\ st[k].zeros = {} /\ st[k].gone = {}
        /\ st[k].next = st[k + 1].pivot
    BY <1>1, <2>1 DEF OnTop
  <2>3. st[k + 1] \in Calls
    BY <1>1, <2>1
  <2>4. st[k + 1].pivot # None
    BY <2>3, CallIs, PivotAssumption
  <2>. QED BY <2>1, <2>2, <2>4
<1>5. OnTop(t)
  BY <1>3, <1>4 DEF OnTop
<1>6. ASSUME t # <<>> PROVE Idle(TopOf(t))
  <2>1. m \in 1 .. m
    <3>1. Len(t) # 0
      BY <1>3, <1>6, EmptySeq
    <3>. QED BY <1>2, <1>3, <3>1
  <2>. HIDE DEF m
  <2>2. TopOf(t) = t[m]
    BY <1>3 DEF TopOf
  <2>. QED BY <1>4, <2>1, <2>2 DEF Idle
<1>. QED BY <1>3, <1>5, <1>6 DEF StackWell

\* ... or calls another one.
LEMMA StackPushed ==
  ASSUME NEW st, StackWell(st), st # <<>>, NEW u \in Calls, u.pivot = TopOf(st).pivot, u.next # None, u.next # u.pivot,
         Idle(u), u.gone = {}, NEW v \in Calls, v.pivot = u.next, v.next = None, v.found = None,
         NEW t, t = Append(Append(Front(st), u), v)
  PROVE  StackWell(t) /\ t # <<>> /\ TopOf(t) = v
<1>. DEFINE m == Len(st) - 1
            x == Front(st)
            y == Append(x, u)
<1>1. st \in Seq(Calls) /\ OnTop(st) /\ Len(st) \in Nat /\ Len(st) >= 1
  BY StackIs DEF StackWell
<1>2. x \in Seq(Calls) /\ Len(x) = m /\ \A k \in 1 .. m : x[k] = st[k]
  <2>1. x = SubSeq(st, 1, m) /\ m \in Nat /\ m <= Len(st)
    BY <1>1 DEF Front
  <2>. HIDE DEF m, x
  <2>. QED BY <1>1, <2>1
<1>3. m \in Nat /\ m <= Len(st) /\ m + 1 = Len(st)
  BY <1>1
<1>. HIDE DEF m, x
<1>4. IsAppended(y, Calls, x, u)
  BY <1>2, AppendIs
<1>5. Topped(st, y, m, u)
  <2>1. y \in Seq(Calls) /\ Len(y) = m + 1
    BY <1>2, <1>4 DEF IsAppended
  <2>2. y[m + 1] = u
    BY <1>2, <1>3, <2>1, <1>4 DEF IsAppended
  <2>3. \A k \in 1 .. m : y[k] = st[k]
    BY <1>2, <1>4 DEF IsAppended
  <2>. QED BY <2>1, <2>2, <2>3 DEF Topped
<1>6. Follows(st, m, u)
  <2>1. ASSUME m >= 1 PROVE st[m].next = u.pivot
    <3>1. m \in 1 .. Len(st) /\ m < Len(st) /\ m + 1 = Len(st)
      BY <1>1, <1>3, <2>1
    <3>2. st[m].next = st[m + 1].pivot
      BY <1>1, <3>1 DEF OnTop
    <3>. QED BY <3>1, <3>2 DEF TopOf
  <2>2. u.found # u.pivot
    BY CallIs, PivotAssumption DEF Idle
  <2>. QED BY <2>1, <2>2 DEF Follows
<1>7. StackWell(y) /\ y # <<>> /\ TopOf(y) = u
  BY <1>3, <1>5, <1>6, ToppedWell
<1>8. Len(y) = m + 1 /\ y \in Seq(Calls) /\ Len(y) \in Nat /\ Len(y) >= 1
  BY <1>3, <1>5 DEF Topped
<1>. HIDE DEF y
<1>9. IsAppended(t, Calls, y, v)
  <2>1. t = Append(y, v)
    BY DEF x, y
  <2>. QED BY <1>8, <2>1, AppendIs
<1>10. Topped(y, t, Len(y), v)
  <2>1. t \in Seq(Calls) /\ Len(t) = Len(y) + 1
    BY <1>9 DEF IsAppended
  <2>2. t[Len(y) + 1] = v
    BY <1>8, <1>9, <2>1 DEF IsAppended
  <2>3. \A k \in 1 .. Len(y) : t[k] = y[k]
    BY <1>9 DEF IsAppended
  <2>. QED BY <2>1, <2>2, <2>3 DEF Topped
<1>11. Follows(y, Len(y), v)
  <2>1. y[Len(y)].next = v.pivot
    BY <1>7 DEF TopOf
  <2>2. v.pivot # None
    BY CallIs, PivotAssumption
  <2>. QED BY <2>1, <2>2 DEF Follows
<1>. QED BY <1>7, <1>8, <1>10, <1>11, ToppedWell

\* The first one.
LEMMA StackOfOne ==
  ASSUME NEW f \in Calls, f.next = None, f.found = None, NEW t, t = <<f>>
  PROVE  StackWell(t) /\ t # <<>> /\ TopOf(t) = f
<1>1. t \in Seq(Calls) /\ Len(t) = 1 /\ t[1] = f /\ t # <<>>
  OBVIOUS
<1>2. f.pivot # None
  BY CallIs, PivotAssumption
<1>3. OnTop(t)
  BY <1>1, <1>2 DEF OnTop
<1>. QED BY <1>1, <1>3 DEF StackWell, TopOf

\* A call that begins.
LEMMA CallFresh ==
  ASSUME NEW i \in Pivot, NEW d \in Nat
  PROVE  /\ Call(i, d) \in Calls /\ Call(i, d).pivot = i /\ Call(i, d).despair = d /\ Idle(Call(i, d))
         /\ Call(i, d).gone = {} /\ Call(i, d).next = None
         /\ \A n \in Pivot : LET u == [Call(i, d) EXCEPT !.next = n] IN
              u \in Calls /\ u.pivot = i /\ Idle(u) /\ u.gone = {} /\ u.next = n
BY DEF Call, Calls, Idle

-----------------------------------------------------------------------------
(* What the invariant says, and what it takes to keep it *)

\* TypeOK but for the stack.
Typed ==
  /\ system \in [Pivot -> Row] /\ order \in [Pivot -> Nat]
  /\ solved \in [Pivot -> BOOLEAN] /\ touched \in [Pivot -> BOOLEAN]
  /\ consideration \in [Pivot -> Int]
  /\ request \in Pivot \cup {None}
  /\ elimination \in {"wait", "optimistic"}
  /\ terminate \in BOOLEAN /\ aborted \in BOOLEAN

\* Those that are suitable for i.
Suit(sv, or, co, i, d) ==
  {c \in Pivot : c # i /\ (sv[c] \/ (or[c] < or[i] /\ co[c] = 0) \/ (d # 0 /\ d >= co[c]))}

LEMMA SuitIs ==
  ASSUME NEW f
  PROVE  SuitableFor(f) = Suit(solved, order, consideration, f.pivot, f.despair)
BY DEF SuitableFor, Suitable, Suit

LEMMA SuitIsNext ==
  SuitableFor(Top)' = Suit(solved', order', consideration', Top'.pivot, Top'.despair)
BY DEF SuitableFor, Suitable, Suit

LEMMA InvIs ==
  ASSUME IInv
  PROVE  Typed /\ StackWell(stack) /\ (ended = None => Fine(Graph)) /\ Top = TopOf(stack)
<1>1. Typed /\ stack \in Seq(Calls)
  BY DEF IInv, TypeOK, Typed
<1>2. StackWell(stack)
  BY <1>1 DEF IInv, SearchOnTop, StackWell, OnTop
<1>3. ended = None => Fine(Graph)
  BY DEF IInv, GraphSound, Fine, Graph
<1>. QED BY <1>1, <1>2, <1>3 DEF Top, TopOf, Depth

\* While there are calls.
LEMMA InvTop ==
  ASSUME IInv, stack # <<>>
  PROVE  /\ Fine(Graph) /\ ended = None /\ StackWell(stack) /\ Top = TopOf(stack) /\ Top \in Calls
         /\ Top.next # Top.pivot /\ Top.found # Top.pivot
         /\ SearchOf(Graph, Top, SuitableFor(Top))
         /\ Top.next = None /\ Top.found = None => Searches(Graph, Top, SuitableFor(Top))
<1>1. StackWell(stack) /\ Top = TopOf(stack)
  BY InvIs
<1>2. Top \in Calls /\ Top.next # Top.pivot /\ Top.found # Top.pivot
  BY <1>1, StackIs
<1>3. ended = None
  BY DEF IInv, GraphSound
<1>4. Fine(Graph)
  BY <1>3, InvIs
<1>5. SearchOf(Graph, Top, SuitableFor(Top))
  BY DEF IInv, SearchSound
<1>6. SuitableFor(Top) \subseteq Pivot \ {Top.pivot}
  BY DEF SuitableFor, Suitable
<1>. QED BY <1>1, <1>2, <1>3, <1>4, <1>5, <1>6 DEF Searches

LEMMA GraphNext ==
  ASSUME NEW g, Fine(g), SetGraph(g)
  PROVE  Graph' = g
BY DEF Fine, Whole, SetGraph, Graph

\* While the graph is there.
LEMMA InvNext ==
  ASSUME NEW g, Fine(g), SetGraph(g), ended' = None, Typed', StackWell(stack'),
         stack' # <<>> => SearchOf(g, TopOf(stack'), Suit(solved', order', consideration', TopOf(stack').pivot, TopOf(stack').despair))
  PROVE  IInv'
<1>1. Graph' = g
  BY GraphNext
<1>2. TypeOK'
  BY DEF Typed, TypeOK, StackWell
<1>3. SearchOnTop'
  BY DEF SearchOnTop, StackWell, OnTop
<1>4. GraphSound'
  <2>1. refs' = g.refs
    BY DEF SetGraph
  <2>. QED BY <1>1, <2>1 DEF GraphSound, Fine
<1>5. SearchSound'
  <2>1. Top' = TopOf(stack')
    BY DEF Top, TopOf, Depth
  <2>2. SuitableFor(Top)' = Suit(solved', order', consideration', TopOf(stack').pivot, TopOf(stack').despair)
    BY <2>1, SuitIsNext
  <2>3. SUFFICES ASSUME stack' # <<>> PROVE SearchOf(Graph, Top, SuitableFor(Top))'
    BY DEF SearchSound
  <2>4. SearchOf(g, TopOf(stack'), SuitableFor(Top)')
    BY <2>2, <2>3
  <2>. QED BY <1>1, <2>1, <2>4
<1>. QED BY <1>2, <1>3, <1>4, <1>5 DEF IInv

\* While the search of the call on top goes on.
LEMMA InvSearched ==
  ASSUME IInv, stack # <<>>, NEW d, NEW c, ConfirmedWell(Top, SuitableFor(Top), d, c),
         Continue(c), SetGraph(d), UNCHANGED <<metaVars, request, aborted, controlVars, ended>>
  PROVE  IInv'
<1>1. /\ Fine(d) /\ SearchOf(d, c, SuitableFor(Top)) /\ c \in Calls /\ c.pivot = Top.pivot /\ c.despair = Top.despair
      /\ c.next = None /\ c.found # c.pivot
  BY DEF ConfirmedWell
<1>2. StackWell(stack) /\ Top = TopOf(stack) /\ ended = None /\ Typed
  BY InvIs, InvTop
<1>3. stack' = [stack EXCEPT ![Len(stack)] = c]
  BY DEF Continue, Depth
<1>4. StackWell(stack') /\ stack' # <<>> /\ TopOf(stack') = c
  <2>1. c.pivot = TopOf(stack).pivot
    BY <1>1, <1>2
  <2>. DEFINE t == stack'
  <2>2. t = [stack EXCEPT ![Len(stack)] = c]
    BY <1>3
  <2>. HIDE DEF t
  <2>3. StackWell(t) /\ t # <<>> /\ TopOf(t) = c
    BY <1>1, <1>2, <2>1, <2>2, StackContinued
  <2>. QED BY <2>3 DEF t
<1>5. Typed'
  BY <1>2 DEF Typed, metaVars, controlVars
<1>6. Suit(solved', order', consideration', TopOf(stack').pivot, TopOf(stack').despair) = SuitableFor(Top)
  <2>1. solved' = solved /\ order' = order /\ consideration' = consideration
    BY DEF metaVars
  <2>. QED BY <1>1, <1>4, <2>1, SuitIs
<1>7. ended' = None
  BY <1>2
<1>. QED BY <1>1, <1>4, <1>5, <1>6, <1>7, InvNext

\* While the call on top is one that begins or goes on after another one.
LEMMA InvIdle ==
  ASSUME NEW g, Fine(g), SetGraph(g), ended' = None, Typed', StackWell(stack'), stack' # <<>> => Idle(TopOf(stack'))
  PROVE  IInv'
<1>1. ASSUME stack' # <<>>
      PROVE  SearchOf(g, TopOf(stack'), Suit(solved', order', consideration', TopOf(stack').pivot, TopOf(stack').despair))
  <2>. DEFINE c == TopOf(stack')
              S == Suit(solved', order', consideration', TopOf(stack').pivot, TopOf(stack').despair)
  <2>1. c \in Calls /\ Idle(c)
    <3>. DEFINE t == stack'
    <3>1. StackWell(t) /\ t # <<>>
      BY <1>1
    <3>. HIDE DEF t
    <3>2. TopOf(t) \in Calls
      BY <3>1, StackIs
    <3>. QED BY <1>1, <3>2 DEF t
  <2>2. g.refs[c.pivot] \in Seq(Edges)
    <3>1. g.refs \in [Pivot -> Seq(Edges)]
      BY WholeIs DEF Fine
    <3>. HIDE DEF c
    <3>2. c.pivot \in Pivot
      BY <2>1, CallIs
    <3>. QED BY <3>1, <3>2
  <2>. HIDE DEF c, S
  <2>3. SearchOf(g, c, S)
    BY <2>1, <2>2, SearchFresh DEF Idle
  <2>. QED BY <2>3 DEF c, S
<1>. QED BY <1>1, InvNext

-----------------------------------------------------------------------------
(* The actions keep the invariant *)

\* A terminal that is popped.
LEMMA PopKeeps ==
  ASSUME IInv, stack # <<>>, NEW f, NEW g, Fine(g), Searches(g, f, SuitableFor(Top)),
         f.pivot = Top.pivot, f.despair = Top.despair, Pop(f, g),
         UNCHANGED <<metaVars, request, aborted, controlVars, ended>>
  PROVE  IInv'
<1>1. PICK w \in f.waiting : \E r \in Popped(f, g, w) : Continue(r.call) /\ SetGraph(r.graph)
  BY DEF Pop
<1>2. PICK r \in Popped(f, g, w) : Continue(r.call) /\ SetGraph(r.graph)
  BY <1>1
<1>3. SearchedWell(f, SuitableFor(Top), r)
  <2>. DEFINE S == SuitableFor(Top)
  <2>1. Searches(g, f, S)
    OBVIOUS
  <2>. HIDE DEF S
  <2>2. SearchedWell(f, S, r)
    BY <1>2, <2>1, PoppedSound
  <2>. QED BY <2>2 DEF S
<1>. DEFINE d == r.graph
            c == r.call
<1>4. ConfirmedWell(Top, SuitableFor(Top), d, c)
  BY <1>3 DEF SearchedWell, ConfirmedWell
<1>5. Continue(c) /\ SetGraph(d)
  BY <1>2
<1>. HIDE DEF c, d
<1>. QED BY <1>4, <1>5, InvSearched

\* Each step of the solver keeps the invariant.
LEMMA LookKeeps ==
  ASSUME IInv, Look
  PROVE  IInv'
<1>. DEFINE i == Top.pivot
            k == Top.j + 1
            suitable == Suitable(i, refs[i][k].head, Top.despair)
            g == IF suitable THEN TerminateNumeric(Graph, i, k) ELSE Graph
            f == [Top EXCEPT !.j = k,
                             !.waiting = IF suitable THEN @ \cup {g.refs[i][k].numeric} ELSE @]
            S == SuitableFor(Top)
<1>1. /\ stack # <<>> /\ Top.next = None /\ Top.found = None /\ Top.j < Len(refs[i])
      /\ UNCHANGED <<metaVars, request, aborted, controlVars, ended>>
  BY DEF Look, Searching
<1>2. Pop(f, g) \/ (NoneFinished(g.op, f.waiting) /\ Continue(f) /\ SetGraph(g))
  BY DEF Look
<1>3. Fine(Graph) /\ Searches(Graph, Top, S)
  BY <1>1, InvTop
<1>4. /\ Top \in Calls /\ i \in Pivot /\ Top.j \in Nat /\ S \subseteq Pivot \ {i}
  BY <1>3, SearchesIs
<1>5. Graph.refs = refs
  BY DEF Graph
<1>6. k \in 1 .. Len(refs[i])
  <2>1. refs \in [Pivot -> Seq(Edges)]
    BY <1>3, <1>5, WholeIs DEF Fine
  <2>2. Len(refs[i]) \in Nat
    BY <1>4, <2>1, RowIs
  <2>. QED BY <1>1, <1>4, <2>2
<1>7. suitable <=> refs[i][k].head \in S
  BY DEF SuitableFor, Suitable
<1>8. LookedOn(Top, S, f, g)
  <2>1. CASE suitable
    <3>1. g = TerminateNumeric(Graph, i, k)
      BY <2>1
    <3>2. f = [Top EXCEPT !.j = k, !.waiting = @ \cup {g.refs[i][k].numeric}]
      BY <2>1
    <3>3. refs[i][k].head \in S
      BY <1>7, <2>1
    <3>. HIDE DEF suitable, g, f, S
    <3>4. LookedCall(Top, f, k, Top.waiting \cup {g.refs[Top.pivot][k].numeric})
      BY <3>2 DEF LookedCall
    <3>. QED BY <1>3, <1>5, <1>6, <3>1, <3>3, <3>4, LookSuitable
  <2>2. CASE ~suitable
    <3>1. g = Graph
      BY <2>2
    <3>2. f = [Top EXCEPT !.j = k, !.waiting = @]
      BY <2>2
    <3>3. refs[i][k].head \notin S
      BY <1>7, <2>2
    <3>. HIDE DEF suitable, g, f, S
    <3>4. LookedCall(Top, f, k, Top.waiting)
      BY <3>2 DEF LookedCall
    <3>. QED BY <1>3, <1>5, <1>6, <3>1, <3>3, <3>4, LookPast
  <2>. QED BY <2>1, <2>2
<1>. HIDE DEF suitable, g, f
<1>9. Fine(g) /\ Searches(g, f, S) /\ f.pivot = Top.pivot /\ f.despair = Top.despair
  BY <1>8 DEF LookedOn
<1>10. CASE Pop(f, g)
  BY <1>1, <1>9, <1>10, PopKeeps
<1>11. CASE Continue(f) /\ SetGraph(g)
  <2>1. ConfirmedWell(Top, S, g, f)
    BY <1>9, SearchesIs DEF Searches, ConfirmedWell
  <2>. QED BY <1>1, <1>11, <2>1, InvSearched
<1>. QED BY <1>2, <1>10, <1>11

LEMMA WaitKeeps ==
  ASSUME IInv, Wait
  PROVE  IInv'
<1>1. /\ stack # <<>> /\ Top.next = None /\ Top.found = None /\ Pop(Top, Graph)
      /\ UNCHANGED <<metaVars, request, aborted, controlVars, ended>>
  BY DEF Wait, Searching
<1>2. Fine(Graph) /\ Searches(Graph, Top, SuitableFor(Top))
  BY <1>1, InvTop
<1>. QED BY <1>1, <1>2, PopKeeps

LEMMA ConfirmKeeps ==
  ASSUME IInv, Confirm
  PROVE  IInv'
<1>. DEFINE i == Top.pivot
            S == SuitableFor(Top)
<1>1. /\ stack # <<>> /\ ~aborted /\ Top.next = None /\ Top.found = None /\ ~Searching
      /\ UNCHANGED <<metaVars, request, aborted, controlVars, ended>>
  BY DEF Confirm
<1>2. ~ (Top.j < Len(refs[i])) /\ Top.waiting = {}
  BY <1>1 DEF Searching
<1>3. PICK z \in Top.zeros :
        LET g == [Graph EXCEPT !.op = Finish(@, z)]
            k == IndexByCoefficient(g.refs[i], z)
        IN /\ SetGraph(Delete(g, i, k, 1, TRUE))
           /\ Continue([Top EXCEPT !.zeros = @ \ {z}, !.gone = @ \cup {g.refs[i][k].head}])
  BY DEF Confirm
<1>. DEFINE g == [Graph EXCEPT !.op = Finish(@, z)]
            k == IndexByCoefficient(g.refs[i], z)
            d == Delete(g, i, k, 1, TRUE)
            c == [Top EXCEPT !.zeros = @ \ {z}, !.gone = @ \cup {g.refs[i][k].head}]
<1>4. SetGraph(d) /\ Continue(c)
  BY <1>3
<1>5. Fine(Graph) /\ Searches(Graph, Top, S) /\ Graph.refs = refs
  BY <1>1, InvTop DEF Graph
<1>6. ClearedCall(Top, c, z, g.refs[Top.pivot][k].head)
  BY DEF ClearedCall
<1>7. ConfirmedWell(Top, S, d, c)
  <2>1. /\ g = [Graph EXCEPT !.op = Finish(@, z)] /\ k = IndexByCoefficient(g.refs[Top.pivot], z)
        /\ d = Delete(g, Top.pivot, k, 1, TRUE)
    OBVIOUS
  <2>2. ~ (Top.j < Len(Graph.refs[Top.pivot])) /\ Top.waiting = {} /\ z \in Top.zeros
    BY <1>2, <1>3, <1>5
  <2>. HIDE DEF g, k, d, c, S
  <2>. QED BY <1>5, <1>6, <2>1, <2>2, ConfirmSound
<1>. HIDE DEF d, c
<1>. QED BY <1>1, <1>4, <1>7, InvSearched

\* While neither the graph nor the calls change.
LEMMA InvSame ==
  ASSUME IInv, Typed', UNCHANGED <<refs, op, metaVars, stack, request, ended>>
  PROVE  IInv'
<1>1. Typed /\ StackWell(stack) /\ Top = TopOf(stack)
  BY InvIs
<1>2. StackWell(stack')
  BY <1>1
<1>3. CASE ended = None
  <2>. DEFINE g == Graph
  <2>1. Fine(g)
    BY <1>3, InvIs
  <2>2. SetGraph(g)
    BY DEF SetGraph, Graph
  <2>3. ASSUME stack' # <<>>
        PROVE  SearchOf(g, TopOf(stack'), Suit(solved', order', consideration', TopOf(stack').pivot, TopOf(stack').despair))
    <3>1. SearchOf(Graph, Top, SuitableFor(Top))
      BY <2>3, InvTop
    <3>2. SuitableFor(Top) = Suit(solved, order, consideration, TopOf(stack).pivot, TopOf(stack).despair)
      BY <1>1, SuitIs
    <3>3. solved' = solved /\ order' = order /\ consideration' = consideration /\ stack' = stack
      BY DEF metaVars
    <3>. QED BY <1>1, <3>1, <3>2, <3>3
  <2>4. ended' = None
    BY <1>3
  <2>. HIDE DEF g
  <2>. QED BY <1>2, <2>1, <2>2, <2>3, <2>4, InvNext
<1>4. CASE ended # None
  <2>1. TypeOK' /\ SearchOnTop'
    BY <1>2 DEF Typed, TypeOK, SearchOnTop, StackWell, OnTop
  <2>2. refs = [i \in Pivot |-> <<>>] /\ Sound(op, Nothing) /\ stack = <<>> /\ request = None
    BY <1>4 DEF IInv, GraphSound
  <2>3. GraphSound' /\ SearchSound'
    BY <1>4, <2>2 DEF GraphSound, SearchSound
  <2>. QED BY <2>1, <2>3 DEF IInv
<1>. QED BY <1>3, <1>4

LEMMA EliminateKeeps ==
  ASSUME IInv, Eliminate
  PROVE  IInv'
<1>. DEFINE u == [Again(Top) EXCEPT !.next = Top.found]
            v == Call(Top.found, 0)
            g == Graph
<1>1. /\ stack # <<>> /\ Top.next = None /\ Top.found # None
      /\ solved' = [solved EXCEPT ![Top.pivot] = FALSE] /\ touched' = [touched EXCEPT ![Top.pivot] = FALSE]
      /\ consideration' = [consideration EXCEPT ![Top.found] = @ + 1]
      /\ stack' = Append(Append(Lower, u), v)
      /\ UNCHANGED <<refs, op, order, request, aborted, controlVars, ended>>
  BY DEF Eliminate, Decided
<1>2. Fine(g) /\ ended = None /\ StackWell(stack) /\ Top = TopOf(stack) /\ Top \in Calls /\ Top.found # Top.pivot
  BY <1>1, InvTop
<1>3. Top.pivot \in Pivot /\ Top.despair \in Nat /\ Top.found \in Pivot /\ None \notin Pivot
  BY <1>1, <1>2, CallIs, PivotAssumption
<1>4. /\ u \in Calls /\ u.pivot = Top.pivot /\ Idle(u) /\ u.gone = {} /\ u.next = Top.found
      /\ v \in Calls /\ v.pivot = Top.found /\ v.next = None /\ Idle(v)
  <2>1. 0 \in Nat
    OBVIOUS
  <2>. QED BY <1>3, <2>1, CallFresh DEF Again
<1>5. StackWell(stack') /\ stack' # <<>> /\ TopOf(stack') = v
  <2>. DEFINE t == stack'
  <2>1. t = Append(Append(Front(stack), u), v)
    BY <1>1 DEF Lower
  <2>2. u.pivot = TopOf(stack).pivot /\ u.next # None /\ u.next # u.pivot /\ v.pivot = u.next /\ v.found = None
    BY <1>1, <1>2, <1>3, <1>4 DEF Idle
  <2>. HIDE DEF t, u, v
  <2>3. StackWell(t) /\ t # <<>> /\ TopOf(t) = v
    BY <1>1, <1>2, <1>4, <2>1, <2>2, StackPushed
  <2>. QED BY <2>3 DEF t
<1>6. Typed'
  <2>1. Typed
    BY InvIs
  <2>. QED BY <1>1, <1>3, <2>1 DEF Typed, controlVars
<1>7. SetGraph(g) /\ ended' = None
  BY <1>1, <1>2 DEF SetGraph, Graph
<1>. HIDE DEF g, u, v
<1>. QED BY <1>2, <1>4, <1>5, <1>6, <1>7, InvIdle

\* The call returns, or begins again, with the graph g.
LEMMA LowerKeeps ==
  ASSUME IInv, stack # <<>>, NEW g, Fine(g), SetGraph(g), stack' = Lower, Typed', ended' = ended
  PROVE  IInv'
<1>1. StackWell(stack) /\ ended = None
  BY InvTop
<1>. DEFINE t == stack'
<1>2. t = Front(stack)
  BY DEF Lower
<1>. HIDE DEF t
<1>3. StackWell(t) /\ (t # <<>> => Idle(TopOf(t)))
  BY <1>1, <1>2, StackLowered
<1>4. StackWell(stack') /\ (stack' # <<>> => Idle(TopOf(stack'))) /\ ended' = None
  BY <1>1, <1>3 DEF t
<1>. QED BY <1>4, InvIdle

LEMMA AgainKeeps ==
  ASSUME IInv, stack # <<>>, NEW g, Fine(g), SetGraph(g), NEW d \in Nat, Continue(Call(Top.pivot, d)), Typed', ended' = ended
  PROVE  IInv'
<1>. DEFINE c == Call(Top.pivot, d)
            t == stack'
<1>1. StackWell(stack) /\ ended = None /\ Top = TopOf(stack) /\ Top \in Calls
  BY InvTop
<1>2. Top.pivot \in Pivot
  BY <1>1, CallIs
<1>3. c \in Calls /\ c.pivot = Top.pivot /\ Idle(c) /\ c.next = None
  BY <1>2, CallFresh
<1>4. c.found # c.pivot
  BY <1>2, <1>3, PivotAssumption DEF Idle
<1>5. t = [stack EXCEPT ![Len(stack)] = c]
  BY DEF Continue, Depth
<1>. HIDE DEF c, t
<1>6. StackWell(t) /\ t # <<>> /\ TopOf(t) = c
  BY <1>1, <1>3, <1>4, <1>5, StackContinued
<1>7. StackWell(stack') /\ (stack' # <<>> => Idle(TopOf(stack'))) /\ ended' = None
  BY <1>1, <1>3, <1>6 DEF t
<1>. QED BY <1>7, InvIdle

LEMMA EliminatedKeeps ==
  ASSUME IInv, Eliminated
  PROVE  IInv'
<1>. DEFINE i == Top.pivot
            h == CollectAll(Relay(Graph, i, Top.next), i)
            g == IF touched[i] THEN Graph ELSE h
<1>1. /\ stack # <<>> /\ Top.next # None
      /\ consideration' = [consideration EXCEPT ![Top.next] = @ - 1]
      /\ UNCHANGED <<order, solved, request, aborted, controlVars, ended>>
  BY DEF Eliminated
<1>2. Fine(Graph) /\ ended = None /\ Top \in Calls /\ Top.next # Top.pivot
  BY <1>1, InvTop
<1>3. i \in Pivot /\ Top.despair \in Nat /\ Top.next \in Pivot
  BY <1>1, <1>2, CallIs
<1>4. Typed
  BY InvIs
<1>5. CASE terminate
  <2>. DEFINE x == Graph
  <2>1. stack' = Lower /\ UNCHANGED <<refs, op, touched>>
    BY <1>5 DEF Eliminated
  <2>2. Typed'
    BY <1>1, <1>3, <1>4, <2>1 DEF Typed, controlVars
  <2>3. Fine(x) /\ SetGraph(x) /\ ended' = ended
    BY <1>1, <1>2, <2>1 DEF SetGraph, Graph
  <2>. HIDE DEF x
  <2>. QED BY <1>1, <2>1, <2>2, <2>3, LowerKeeps
<1>6. CASE ~terminate
  <2>1. SetGraph(g) /\ touched' = [touched EXCEPT ![i] = TRUE] /\ Continue(Again(Top))
    BY <1>6 DEF Eliminated
  <2>2. Typed'
    BY <1>1, <1>3, <1>4, <2>1 DEF Typed, controlVars
  <2>3. Fine(h)
    <3>. DEFINE q == Graph
                m == Top.next
    <3>1. Whole(q, Kept) /\ \A p \in Pivot : HeadsApart(q.refs[p])
      BY <1>2 DEF Fine
    <3>2. h = CollectAll(Relay(q, i, m), i) /\ i \in Pivot /\ m \in Pivot /\ m # i
      BY <1>2, <1>3
    <3>. HIDE DEF q, h, i, m
    <3>3. Whole(h, Kept) /\ \A p \in Pivot : HeadsApart(h.refs[p])
      BY <3>1, <3>2, EliminateSound
    <3>. QED BY <3>3 DEF Fine
  <2>4. Fine(g)
    BY <1>2, <2>3
  <2>5. Continue(Call(Top.pivot, Top.despair)) /\ ended' = ended
    BY <1>1, <2>1 DEF Again
  <2>. HIDE DEF g, h
  <2>. QED BY <1>1, <1>3, <2>1, <2>2, <2>4, <2>5, AgainKeeps
<1>. QED BY <1>5, <1>6

LEMMA InterruptedKeeps ==
  ASSUME IInv, Interrupted
  PROVE  IInv'
<1>. DEFINE x == Graph
<1>1. stack # <<>> /\ stack' = Lower /\ UNCHANGED <<refs, op, metaVars, request, aborted, controlVars, ended>>
  BY DEF Interrupted, Decided
<1>2. Fine(x) /\ SetGraph(x) /\ ended' = ended
  BY <1>1, InvTop DEF SetGraph, Graph
<1>3. Typed'
  BY <1>1, InvIs DEF Typed, controlVars, metaVars
<1>. HIDE DEF x
<1>. QED BY <1>1, <1>2, <1>3, LowerKeeps

LEMMA ConcludeKeeps ==
  ASSUME IInv, Conclude
  PROVE  IInv'
<1>. DEFINE i == Top.pivot
            g == SelfKnown(i)
            j == IndexOf(refs[i], i)
<1>1. /\ stack # <<>> /\ UNCHANGED <<order, touched, consideration, request, controlVars, ended>>
      /\ Unmodified(i) \/ Solvable(i) \/ Widen(i) \/ GiveUp(i)
  BY DEF Conclude, Decided
<1>2. Fine(Graph) /\ Top \in Calls /\ Graph.refs = refs /\ Graph.op = op /\ Typed
  BY <1>1, InvTop, InvIs DEF Graph
<1>3. i \in Pivot /\ Top.despair \in Nat
  BY <1>2, CallIs
<1>4. Fine(g) /\ (j # 0 /\ op[refs[i][j].numeric].val # 0 => Fine(Normalize(g, i)))
  <2>. DEFINE x == Graph
              t == TerminateNumeric(x, i, j)
  <2>1. j = IndexOf(x.refs[i], i) /\ g = IF j = 0 THEN x ELSE [t EXCEPT !.op = Finish(@, t.refs[i][j].numeric)]
    BY <1>2 DEF SelfKnown
  <2>2. Fine(x) /\ i \in Pivot /\ t = TerminateNumeric(x, i, j) /\ x.refs = refs /\ x.op = op
    BY <1>2, <1>3
  <2>. HIDE DEF x, t, g, j, i
  <2>3. Fine(g) /\ (j # 0 /\ x.op[x.refs[i][j].numeric].val # 0 => Fine(Normalize(g, i)))
    BY <2>1, <2>2, SelfKnownSound
  <2>. QED BY <2>2, <2>3
<1>5. CASE Unmodified(i)
  <2>. DEFINE x == Graph
  <2>1. stack' = Lower /\ UNCHANGED <<refs, op, solved, aborted>>
    BY <1>5 DEF Unmodified
  <2>2. Typed' /\ ended' = ended
    BY <1>1, <1>2, <2>1 DEF Typed, controlVars
  <2>3. Fine(x) /\ SetGraph(x)
    BY <1>2, <2>1 DEF SetGraph
  <2>. HIDE DEF x
  <2>. QED BY <1>1, <2>1, <2>2, <2>3, LowerKeeps
<1>6. CASE Solvable(i)
  <2>. DEFINE y == Normalize(g, i)
  <2>1. ~SelfZero(i) /\ SetGraph(y) /\ solved' = [solved EXCEPT ![i] = TRUE] /\ stack' = Lower /\ UNCHANGED aborted
    BY <1>6 DEF Solvable
  <2>2. Typed' /\ ended' = ended
    BY <1>1, <1>2, <1>3, <2>1 DEF Typed, controlVars
  <2>3. j # 0 /\ op[refs[i][j].numeric].val # 0
    BY <2>1 DEF SelfZero
  <2>4. Fine(y)
    BY <1>4, <2>3
  <2>. HIDE DEF y
  <2>. QED BY <1>1, <2>1, <2>2, <2>4, LowerKeeps
<1>7. CASE Widen(i)
  <2>. DEFINE d == Top.despair + 1
  <2>1. SetGraph(g) /\ Continue(Call(Top.pivot, d)) /\ UNCHANGED <<solved, aborted>>
    BY <1>7 DEF Widen
  <2>2. Typed' /\ ended' = ended
    BY <1>1, <1>2, <2>1 DEF Typed, controlVars
  <2>3. d \in Nat
    BY <1>3
  <2>. HIDE DEF g, d
  <2>. QED BY <1>1, <1>4, <2>1, <2>2, <2>3, AgainKeeps
<1>8. CASE GiveUp(i)
  <2>1. SetGraph(g) /\ Continue(Call(Top.pivot, Top.despair)) /\ aborted' = TRUE /\ UNCHANGED solved
    BY <1>8 DEF GiveUp, Again
  <2>2. Typed' /\ ended' = ended
    BY <1>1, <1>2, <2>1 DEF Typed, controlVars
  <2>. HIDE DEF g
  <2>. QED BY <1>1, <1>3, <1>4, <2>1, <2>2, AgainKeeps
<1>. QED BY <1>1, <1>5, <1>6, <1>7, <1>8

LEMMA SolveKeeps ==
  ASSUME IInv, NEW i \in Requests, Solve(i)
  PROVE  IInv'
<1>. DEFINE g == Graph
            c == Call(i, 1)
            t == stack'
<1>1. /\ ended = None /\ consideration' = [consideration EXCEPT ![i] = 1] /\ request' = i /\ t = <<c>>
      /\ UNCHANGED <<refs, op, order, solved, touched, aborted, controlVars, ended>>
  BY DEF Solve
<1>2. i \in Pivot /\ 1 \in Nat
  BY RequestAssumption
<1>3. c \in Calls /\ Idle(c) /\ c.next = None /\ c.found = None
  BY <1>2, CallFresh DEF Idle
<1>4. Fine(g) /\ SetGraph(g) /\ ended' = None
  BY <1>1, InvIs DEF SetGraph, Graph
<1>5. Typed'
  BY <1>1, <1>2, InvIs DEF Typed, controlVars
<1>. HIDE DEF g, c, t
<1>6. StackWell(t) /\ t # <<>> /\ TopOf(t) = c
  BY <1>1, <1>3, StackOfOne
<1>7. StackWell(stack') /\ (stack' # <<>> => Idle(TopOf(stack')))
  BY <1>3, <1>6 DEF t
<1>. QED BY <1>4, <1>5, <1>7, InvIdle

LEMMA SolvedKeeps ==
  ASSUME IInv, Solved
  PROVE  IInv'
<1>. DEFINE x == Graph
            y == Acquire(x, request)
<1>1. /\ stack = <<>> /\ request # None /\ consideration' = [consideration EXCEPT ![request] = 0]
      /\ UNCHANGED <<refs, op>> \/ SetGraph(y)
      /\ request' = None
      /\ UNCHANGED <<order, solved, touched, stack, aborted, controlVars, ended>>
  BY DEF Solved
<1>2. ended = None
  BY <1>1 DEF IInv, GraphSound
<1>3. Fine(x) /\ Typed /\ StackWell(stack)
  BY <1>2, InvIs
<1>4. request \in Pivot
  BY <1>1, <1>3 DEF Typed
<1>5. Typed'
  BY <1>1, <1>3, <1>4 DEF Typed, controlVars
<1>6. Fine(y)
  <2>1. Whole(x, Kept)
    BY <1>3 DEF Fine
  <2>. HIDE DEF x
  <2>2. Onward(x, y, Kept) /\ HeadsKept(x.refs, y.refs)
    BY <1>4, <2>1, AcquireSound
  <2>3. Whole(y, Kept)
    BY <2>2 DEF Onward
  <2>. HIDE DEF y
  <2>. QED BY <1>3, <2>2, <2>3, FineOn
<1>7. StackWell(stack') /\ (stack' # <<>> => Idle(TopOf(stack'))) /\ ended' = None
  BY <1>1, <1>2, <1>3
<1>8. CASE UNCHANGED <<refs, op>>
  <2>1. SetGraph(x)
    BY <1>8 DEF SetGraph, Graph
  <2>. HIDE DEF x
  <2>. QED BY <1>3, <1>5, <1>7, <2>1, InvIdle
<1>9. CASE SetGraph(y)
  <2>. HIDE DEF y
  <2>. QED BY <1>5, <1>6, <1>7, <1>9, InvIdle
<1>. QED BY <1>1, <1>8, <1>9

LEMMA SignalKeeps ==
  ASSUME IInv, Signal
  PROVE  IInv'
<1>1. terminate' = TRUE /\ UNCHANGED <<refs, op, metaVars, stack, request, aborted, elimination, system, ended>>
  BY DEF Signal
<1>2. Typed'
  BY <1>1, InvIs DEF Typed, metaVars
<1>. QED BY <1>1, <1>2, InvSame

LEMMA OverKeeps ==
  ASSUME IInv, UNCHANGED vars
  PROVE  IInv'
<1>1. UNCHANGED <<refs, op, metaVars, stack, request, ended>> /\ UNCHANGED <<aborted, controlVars>>
  BY DEF vars
<1>2. Typed'
  BY <1>1, InvIs DEF Typed, metaVars, controlVars
<1>. QED BY <1>1, <1>2, InvSame

\* The rows there are in the end are rows.
LEMMA RowsAre ==
  ASSUME Fine(Graph), stack = <<>>, ended = None
  PROVE  Rows \in [Pivot -> Row]
<1>1. Whole(Graph, Kept) /\ Graph.refs = refs /\ Graph.op = op
  BY DEF Fine, Graph
<1>2. Store(op) /\ refs \in [Pivot -> Seq(Edges)]
  BY <1>1, WholeIs
<1>3. ASSUME NEW i \in Pivot PROVE RowOf(i) \in Row
  <2>. DEFINE H == Heads(i) \cup Gone(i)
              K(h) == {k \in DOMAIN refs[i] : refs[i][k].head = h}
              c(h) == [k \in K(h) |-> op[refs[i][k].coefficient].val]
              S(h) == SumOf(c(h), K(h))
  <2>1. refs[i] \in Seq(Edges) /\ Len(refs[i]) \in Nat /\ DOMAIN refs[i] = 1 .. Len(refs[i])
    BY <1>2, RowIs
  <2>2. \A k \in DOMAIN refs[i] : refs[i][k].head \in Integral /\ op[refs[i][k].coefficient].val \in Nat
    <3>1. TAKE k \in DOMAIN refs[i]
    <3>2. FineEdge(Graph, i, k)
      BY <1>1, <2>1, WholeEdge
    <3>3. refs[i][k] \in Edges /\ refs[i][k].coefficient \in DOMAIN op
      BY <1>1, <3>2 DEF FineEdge
    <3>4. op[refs[i][k].coefficient].val \in Coefficient
      BY <1>2, <3>3, StoreIs
    <3>. QED BY <3>3, <3>4, PrimeAssumption DEF Edges, Coefficient
  <2>3. H \in SUBSET Integral
    BY <2>2 DEF Heads, Gone
  <2>4. ASSUME NEW h \in H PROVE S(h) % P \in Coefficient
    <3>1. IsFiniteSet(1 .. Len(refs[i]))
      BY <2>1, FS_Interval
    <3>2. IsFiniteSet(K(h))
      BY <2>1, <3>1, FS_Subset
    <3>3. \A k \in K(h) : c(h)[k] \in Nat
      BY <2>2
    <3>4. S(h) \in Nat
      <4>. DEFINE f == c(h)
                  Q == K(h)
      <4>1. IsFiniteSet(Q) /\ \A k \in Q : f[k] \in Nat
        BY <3>2, <3>3
      <4>. HIDE DEF f, Q
      <4>2. SumOf(f, Q) \in Nat
        BY <4>1, SumNat
      <4>. QED BY <4>2 DEF f, Q
    <3>. HIDE DEF S
    <3>. QED BY <3>4, PrimeAssumption DEF Coefficient
  <2>5. RowOf(i) = [h \in H |-> S(h) % P]
    BY DEF RowOf
  <2>. HIDE DEF H, S
  <2>6. RowOf(i) \in [H -> Coefficient]
    BY <2>4, <2>5
  <2>. QED BY <2>3, <2>6 DEF Row
<1>4. Rows = [i \in Pivot |-> RowOf(i)]
  BY DEF Rows
<1>. QED BY <1>3, <1>4

LEMMA DestroyKeeps ==
  ASSUME IInv, Destroy
  PROVE  IInv'
<1>. DEFINE g == Graph
            freed == FreeEvery(TerminateEvery(g, SetToSeq(Pivot)), SetToSeq(Pivot))
            t == [freed EXCEPT !.op = Unref(@, One)]
<1>1. /\ stack = <<>> /\ request = None /\ ended = None /\ SetGraph(t) /\ ended' = Rows
      /\ UNCHANGED <<metaVars, stack, request, aborted, controlVars>>
  BY DEF Destroy
<1>2. Fine(g) /\ Typed /\ StackWell(stack)
  BY <1>1, InvIs
<1>3. /\ freed = [refs |-> freed.refs, op |-> freed.op] /\ freed.refs = [i \in Pivot |-> <<>>]
      /\ Sound(Unref(freed.op, One), Nothing)
  <2>1. Whole(g, Kept)
    BY <1>2 DEF Fine
  <2>. HIDE DEF g
  <2>. QED BY <2>1, DestroySound
<1>. HIDE DEF freed
<1>4. t = [refs |-> freed.refs, op |-> Unref(freed.op, One)]
  BY <1>3
<1>5. refs' = [i \in Pivot |-> <<>>] /\ op' = Unref(freed.op, One)
  BY <1>1, <1>3, <1>4 DEF SetGraph
<1>6. ended' # None
  <2>1. Rows \in [Pivot -> Row]
    BY <1>1, <1>2, RowsAre
  <2>. QED BY <1>1, <2>1, NoneAssumption
<1>7. Sound(op', Nothing)
  BY <1>3, <1>5
<1>8. GraphSound'
  BY <1>1, <1>5, <1>6, <1>7 DEF GraphSound
<1>9. Typed' /\ StackWell(stack') /\ stack' = <<>>
  BY <1>1, <1>2 DEF Typed, metaVars, controlVars
<1>10. TypeOK' /\ SearchOnTop' /\ SearchSound'
  BY <1>9 DEF Typed, TypeOK, SearchOnTop, StackWell, OnTop, SearchSound
<1>. QED BY <1>8, <1>10 DEF IInv

LEMMA InitKeeps == Init => IInv
<1>. SUFFICES ASSUME Init PROVE IInv
  OBVIOUS
<1>. DEFINE pivots == SetToSeq(Pivot)
            g == LoadEvery(Empty, pivots)
<1>1. /\ system \in Systems /\ refs = g.refs /\ op = g.op /\ elimination \in {"wait", "optimistic"}
      /\ order = Order /\ solved = [i \in Pivot |-> FALSE] /\ touched = [i \in Pivot |-> FALSE]
      /\ consideration = [i \in Pivot |-> 0] /\ stack = <<>> /\ request = None
      /\ terminate = FALSE /\ aborted = FALSE /\ ended = None
  BY DEF Init
<1>2. Fine(g)
  <2>. DEFINE e == Empty
  <2>1. Whole(e, Kept) /\ \A p \in Pivot : e.refs[p] = <<>>
    BY EmptyWhole DEF Empty
  <2>2. pivots \in Seq(Pivot) /\ \A k, m \in 1 .. Len(pivots) : pivots[k] = pivots[m] => k = m
    BY PivotsFinite, SetToSeqIs
  <2>3. system \in [Pivot -> Row]
    BY <1>1, SystemAssumption
  <2>. HIDE DEF e, pivots
  <2>4. Whole(LoadEvery(e, pivots), Kept) /\ \A p \in Pivot : HeadsApart(LoadEvery(e, pivots).refs[p])
    BY <2>1, <2>2, <2>3, LoadEverySound
  <2>. QED BY <2>4 DEF Fine, e
<1>. HIDE DEF g
<1>3. Graph = g /\ refs = g.refs
  BY <1>1, <1>2 DEF Fine, Whole, Graph
<1>4. GraphSound
  BY <1>1, <1>2, <1>3 DEF GraphSound, Fine
<1>5. TypeOK
  <2>1. stack \in Seq(Calls)
    BY <1>1
  <2>2. system \in [Pivot -> Row] /\ order \in [Pivot -> Nat]
    BY <1>1, SystemAssumption, OrderAssumption
  <2>3. solved \in [Pivot -> BOOLEAN] /\ touched \in [Pivot -> BOOLEAN]
    BY <1>1
  <2>4. consideration \in [Pivot -> Int]
    BY <1>1
  <2>5. terminate \in BOOLEAN /\ aborted \in BOOLEAN
    BY <1>1, Zenon
  <2>. QED BY <1>1, <2>1, <2>2, <2>3, <2>4, <2>5 DEF TypeOK
<1>6. SearchOnTop /\ SearchSound
  BY <1>1 DEF SearchOnTop, SearchSound
<1>. QED BY <1>4, <1>5, <1>6 DEF IInv

\* No step of the solver, of the frontend or of the end of the program leaves the invariant.
LEMMA NextKeeps == IInv /\ [Next]_vars => IInv'
<1>. SUFFICES ASSUME IInv, [Next]_vars PROVE IInv'
  OBVIOUS
<1>1. CASE Step
  BY <1>1, LookKeeps, WaitKeeps, ConfirmKeeps, EliminateKeeps, EliminatedKeeps, InterruptedKeeps,
     ConcludeKeeps DEF Step
<1>2. CASE Solved
  BY <1>2, SolvedKeeps
<1>3. CASE Signal
  BY <1>3, SignalKeeps
<1>4. CASE Destroy
  BY <1>4, DestroyKeeps
<1>5. CASE Over
  BY <1>5, OverKeeps DEF Over
<1>6. CASE \E i \in Requests : Solve(i)
  BY <1>6, SolveKeeps
<1>7. CASE UNCHANGED vars
  BY <1>7, OverKeeps
<1>. QED BY <1>1, <1>2, <1>3, <1>4, <1>5, <1>6, <1>7 DEF Next

\* The inductive invariant: at every step of the solver the graph is whole, each head has
\* one edge, and the call on top of the stack knows what it has seen of its edges.
THEOREM Invariance == Spec => []IInv
BY InitKeeps, NextKeeps, PTL DEF Spec

-----------------------------------------------------------------------------
(* What the invariant implies *)

LEMMA EdgeSum ==
  ASSUME NEW r \in [Pivot -> Seq(Edges)], NEW o
  PROVE  /\ SumOf([i \in Pivot |-> EdgeUses(r[i], o)], Pivot) \in Nat
         /\ (\A i \in Pivot : r[i] = <<>>) => SumOf([i \in Pivot |-> EdgeUses(r[i], o)], Pivot) = 0
<1>. DEFINE u == [i \in Pivot |-> EdgeUses(r[i], o)]
<1>1. \A i \in Pivot : u[i] \in Nat
  <2>1. TAKE i \in Pivot
  <2>2. r[i] \in Seq(Edges)
    OBVIOUS
  <2>3. EdgeUses(r[i], o) \in Nat
    BY <2>2, EdgeUsesSum
  <2>. QED BY <2>3
<1>2. ASSUME \A i \in Pivot : r[i] = <<>> PROVE \A i \in Pivot : u[i] = 0
  <2>. DEFINE none == <<>>
  <2>1. none \in Seq(Edges) /\ Len(none) = 0
    OBVIOUS
  <2>2. \A i \in Pivot : u[i] = EdgeUses(none, o)
    BY <1>2
  <2>. HIDE DEF none
  <2>3. EdgeUses(none, o) = 0 <=> \A k \in 1 .. Len(none) : none[k].coefficient # o /\ none[k].numeric # o
    BY <2>1, EdgeUsesSum
  <2>4. \A k \in 1 .. Len(none) : FALSE
    BY <2>1
  <2>. QED BY <2>2, <2>3, <2>4
<1>. HIDE DEF u
<1>3. SumOf(u, Pivot) \in Nat
  BY <1>1, PivotsFinite, SumNat
<1>4. (\A i \in Pivot : r[i] = <<>>) => SumOf(u, Pivot) = 0
  BY <1>2, PivotsFinite, SumZero
<1>. QED BY <1>3, <1>4 DEF u

\* What is whole has exact counts, ...
LEMMA CountsFollow ==
  ASSUME IInv
  PROVE  CountsExact
<1>1. Graph.refs = refs /\ Graph.op = op
  BY DEF Graph
<1>2. refs \in [Pivot -> Seq(Edges)] /\ Store(op)
  <2>1. CASE ended = None
    BY <1>1, <2>1, InvIs, WholeIs DEF Fine
  <2>2. CASE ended # None
    <3>1. refs = [i \in Pivot |-> <<>>] /\ Store(op)
      BY <2>2 DEF IInv, GraphSound, Sound
    <3>2. <<>> \in Seq(Edges)
      OBVIOUS
    <3>. QED BY <3>1, <3>2
  <2>. QED BY <2>1, <2>2
<1>3. ASSUME NEW o \in DOMAIN op PROVE op[o].count = References(o)
  <2>. DEFINE sum == SumOf([i \in Pivot |-> EdgeUses(refs[i], o)], Pivot)
              uses == Uses(op, DOMAIN op, o)
              own == IF o = One /\ ended = None THEN 1 ELSE 0
  <2>1. o \in Nat /\ sum \in Nat /\ uses \in Nat /\ Drop(op, o) \in Nat
    <3>1. o \in Nat /\ Drop(op, o) \in Nat
      BY <1>2, StoreIs
    <3>2. sum \in Nat
      BY <1>2, EdgeSum
    <3>3. DOMAIN op \in SUBSET DOMAIN op
      OBVIOUS
    <3>4. uses \in Nat
      BY <1>2, <3>3, UsesIs
    <3>. QED BY <3>1, <3>2, <3>4
  <2>2. References(o) = sum + uses + Drop(op, o) + own
    BY DEF References, Drop
  <2>3. CASE ended = None
    <3>1. Counted(op, Outside(refs, Kept))
      BY <1>1, <2>3, InvIs, WholeIs DEF Fine
    <3>2. op[o].count = uses + Drop(op, o) + Outside(refs, Kept)[o]
      BY <3>1 DEF Counted
    <3>3. Outside(refs, Kept)[o] = sum + Kept[o]
      BY <2>1 DEF Outside
    <3>4. Kept[o] = own /\ own \in Nat
      BY <2>1, <2>3 DEF Kept
    <3>. HIDE DEF sum, uses, own
    <3>. QED BY <2>1, <2>2, <3>2, <3>3, <3>4
  <2>4. CASE ended # None
    <3>1. Counted(op, Nothing) /\ refs = [i \in Pivot |-> <<>>]
      BY <2>4 DEF IInv, GraphSound, Sound
    <3>2. op[o].count = uses + Drop(op, o) + Nothing[o]
      BY <3>1 DEF Counted
    <3>3. Nothing[o] = 0 /\ own = 0
      BY <2>1, <2>4 DEF Nothing
    <3>4. sum = 0
      <4>1. \A i \in Pivot : refs[i] = <<>>
        BY <3>1
      <4>. QED BY <1>2, <4>1, EdgeSum
    <3>. HIDE DEF sum, uses, own
    <3>. QED BY <2>1, <2>2, <3>2, <3>3, <3>4
  <2>. QED BY <2>3, <2>4
<1>4. ASSUME NEW i \in Pivot, NEW k \in DOMAIN refs[i]
      PROVE  {refs[i][k].coefficient, refs[i][k].numeric} \subseteq DOMAIN op
  <2>1. CASE ended = None
    <3>1. Whole(Graph, Kept)
      BY <2>1, InvIs DEF Fine
    <3>2. k \in 1 .. Len(Graph.refs[i])
      BY <1>1, <1>2, RowIs
    <3>3. FineEdge(Graph, i, k)
      BY <3>1, <3>2, WholeEdge
    <3>. QED BY <1>1, <3>3 DEF FineEdge
  <2>2. CASE ended # None
    <3>1. refs = [p \in Pivot |-> <<>>]
      BY <2>2 DEF IInv, GraphSound
    <3>2. refs[i] = <<>>
      BY <3>1
    <3>3. Len(refs[i]) = 0 /\ DOMAIN refs[i] = 1 .. Len(refs[i])
      BY <1>2, <3>2, RowIs
    <3>. QED BY <3>3
  <2>. QED BY <2>1, <2>2
<1>5. ASSUME NEW o \in DOMAIN op PROVE ToSet(op[o].args) \subseteq DOMAIN op
  <2>1. op[o].args \in Seq(DOMAIN op)
    BY <1>2, StoreIs
  <2>. QED BY <2>1 DEF ToSet
<1>. QED BY <1>3, <1>4, <1>5 DEF CountsExact

\* ... no expression that is used twice, ...
LEMMA UsedFollows ==
  ASSUME IInv
  PROVE  UsedOnce
<1>. SUFFICES ASSUME NEW o \in DOMAIN op PROVE op[o].uses <= 1
  BY DEF UsedOnce
<1>1. PICK H \in [Nat -> Nat] : Store(op) /\ Single(op, H)
  <2>1. CASE ended = None
    <3>1. Sound(op, Outside(refs, Kept)) /\ Outside(refs, Kept) \in [Nat -> Nat]
      BY <2>1, InvIs, WholeIs DEF Fine, Whole, Graph
    <3>. QED BY <3>1 DEF Sound
  <2>2. CASE ended # None
    <3>1. Sound(op, Nothing) /\ Nothing \in [Nat -> Nat]
      BY <2>2 DEF IInv, GraphSound, Nothing
    <3>. QED BY <3>1 DEF Sound
  <2>. QED BY <2>1, <2>2
<1>2. o \in Nat /\ op[o].uses \in Nat /\ Drop(op, o) \in Nat
  BY <1>1, StoreIs
<1>3. CASE op[o].done
  <2>1. op[o].uses = 0
    BY <1>1, <1>3 DEF Store
  <2>. QED BY <2>1
<1>4. CASE ~op[o].done
  <2>1. op[o].uses + H[o] + Drop(op, o) <= 1 /\ H[o] \in Nat
    BY <1>1, <1>2, <1>4 DEF Single
  <2>. QED BY <1>2, <2>1
<1>. QED BY <1>3, <1>4

\* Each place in A has something of W of its own.
OneEach(f, A, W) ==
  f \in [A -> W] /\ (\A w \in W : \E k \in A : f[k] = w) /\ \A k, m \in A : f[k] = f[m] => k = m

\* There are as many things as there are places that have one of them each.
LEMMA AsManyAsPlaces ==
  ASSUME NEW n \in Nat, NEW A \in SUBSET (1 .. n), NEW W, NEW f, OneEach(f, A, W)
  PROVE  IsFiniteSet(A) /\ IsFiniteSet(W) /\ Cardinality(W) = Cardinality(A)
<1>1. IsFiniteSet(A)
  <2>1. IsFiniteSet(1 .. n)
    BY FS_Interval
  <2>. QED BY <2>1, FS_Subset
<1>2. f \in Bijection(A, W)
  BY DEF OneEach, Bijection, Injection, IsInjective, Surjection
<1>3. ExistsBijection(A, W)
  BY <1>2 DEF ExistsBijection
<1>. QED BY <1>1, <1>3, FS_Bijection

\* ... and one edge to each head.
LEMMA EdgesFollow ==
  ASSUME IInv
  PROVE  EdgesWhole
<1>. SUFFICES ASSUME NEW i \in Pivot
              PROVE  /\ Cardinality(Heads(i)) = Len(refs[i])
                     /\ \A k \in DOMAIN refs[i] : op[refs[i][k].coefficient].val = op[refs[i][k].numeric].val
  BY DEF EdgesWhole
<1>1. refs[i] \in Seq(Edges) /\ HeadsApart(refs[i])
      /\ \A k \in DOMAIN refs[i] : op[refs[i][k].coefficient].val = op[refs[i][k].numeric].val
  <2>1. CASE ended = None
    <3>1. Fine(Graph) /\ Graph.refs = refs /\ Graph.op = op
      BY <2>1, InvIs DEF Graph
    <3>2. refs \in [Pivot -> Seq(Edges)] /\ Agree(Graph) /\ HeadsApart(refs[i])
      BY <3>1, WholeIs DEF Fine, Whole
    <3>. QED BY <3>1, <3>2 DEF Agree
  <2>2. CASE ended # None
    <3>1. refs[i] = <<>>
      BY <2>2 DEF IInv, GraphSound
    <3>. QED BY <3>1 DEF HeadsApart
  <2>. QED BY <2>1, <2>2
<1>. DEFINE n == Len(refs[i])
            f == [k \in 1 .. n |-> refs[i][k].head]
<1>2. n \in Nat /\ DOMAIN refs[i] = 1 .. n
  BY <1>1
<1>3. /\ f \in [1 .. n -> Heads(i)] /\ \A w \in Heads(i) : \E k \in 1 .. n : f[k] = w
      /\ \A k, m \in 1 .. n : f[k] = f[m] => k = m
  BY <1>1, <1>2 DEF Heads, HeadsApart
<1>. DEFINE A == 1 .. n
<1>4. A \in SUBSET (1 .. n) /\ Cardinality(A) = n
  BY <1>2, FS_Interval
<1>5. OneEach(f, A, Heads(i))
  BY <1>3 DEF OneEach
<1>. HIDE DEF f, A, n
<1>6. Cardinality(Heads(i)) = Cardinality(A)
  BY <1>2, <1>4, <1>5, AsManyAsPlaces
<1>. QED BY <1>1, <1>4, <1>6 DEF n

\* Waiting for something and knowing a zero are different, and each belongs to one edge.
LEMMA PlacesAreOwn ==
  ASSUME NEW g, NEW L, Whole(g, L), NEW f, NEW S, Searches(g, f, S),
         NEW k \in 1 .. Len(g.refs[f.pivot])
  PROVE  /\ g.refs[f.pivot][k].numeric \in f.waiting =>
              /\ g.refs[f.pivot][k].coefficient \notin f.zeros
              /\ \A m \in 1 .. Len(g.refs[f.pivot]) : g.refs[f.pivot][m].numeric = g.refs[f.pivot][k].numeric => m = k
         /\ g.refs[f.pivot][k].coefficient \in f.zeros =>
              \A m \in 1 .. Len(g.refs[f.pivot]) : g.refs[f.pivot][m].coefficient = g.refs[f.pivot][k].coefficient => m = k
<1>. DEFINE es == g.refs[f.pivot]
<1>1. ASSUME es[k].numeric \in f.waiting
      PROVE  es[k].coefficient \notin f.zeros /\ \A m \in 1 .. Len(es) : es[m].numeric = es[k].numeric => m = k
  <2>. DEFINE w == es[k].numeric
              p == IndexByNumeric(g.refs[f.pivot], w)
  <2>1. w \in f.waiting
    BY <1>1
  <2>. HIDE DEF w
  <2>2. WaitedAt(g, f, S, w, p)
    BY <2>1, WaitedIs
  <2>. HIDE DEF p
  <2>3. p \in 1 .. Len(es) /\ es[p].numeric = w /\ es[p].coefficient \notin f.zeros /\ SeenWell(g, f, S, p)
    BY <2>2 DEF WaitedAt
  <2>4. \A m \in 1 .. Len(es) : m # p => Ends(es[p]) \cap Ends(es[m]) = {}
    BY <2>3 DEF SeenWell
  <2>5. \A m \in 1 .. Len(es) : es[m].numeric = w => m = p
    BY <2>3, <2>4 DEF Ends
  <2>. QED BY <2>3, <2>5 DEF w
<1>2. ASSUME es[k].coefficient \in f.zeros
      PROVE  \A m \in 1 .. Len(es) : es[m].coefficient = es[k].coefficient => m = k
  <2>. DEFINE z == es[k].coefficient
              p == IndexByCoefficient(g.refs[f.pivot], z)
  <2>1. z \in f.zeros
    BY <1>2
  <2>. HIDE DEF z
  <2>2. ZeroAt(g, f, S, z, p)
    BY <2>1, ZeroIs
  <2>. HIDE DEF p
  <2>3. p \in 1 .. Len(es) /\ es[p].coefficient = z /\ SeenWell(g, f, S, p)
    BY <2>2 DEF ZeroAt
  <2>4. \A m \in 1 .. Len(es) : m # p => Ends(es[p]) \cap Ends(es[m]) = {}
    BY <2>3 DEF SeenWell
  <2>5. \A m \in 1 .. Len(es) : es[m].coefficient = z => m = p
    BY <2>3, <2>4 DEF Ends
  <2>. QED BY <2>3, <2>5 DEF z
<1>. QED BY <1>1, <1>2

\* As much is waited for or known to be zero as there are edges that were seen.
LEMMA SeenCounted ==
  ASSUME NEW g, NEW L, Whole(g, L), NEW f, NEW S, Searches(g, f, S)
  PROVE  Cardinality(f.waiting) + Cardinality(f.zeros)
           = Cardinality({k \in 1 .. Len(g.refs[f.pivot]) : Seen(g, f, k)})
<1>. DEFINE es == g.refs[f.pivot]
            n == Len(es)
            A == {k \in 1 .. n : es[k].numeric \in f.waiting}
            B == {k \in 1 .. n : es[k].coefficient \in f.zeros}
            a == [k \in A |-> es[k].numeric]
            b == [k \in B |-> es[k].coefficient]
<1>1. n \in Nat
  <2>1. f.pivot \in Pivot /\ g.refs \in [Pivot -> Seq(Edges)]
    BY SearchesIs, WholeIs
  <2>. QED BY <2>1, RowIs
<1>2. /\ \A k \in A : es[k].coefficient \notin f.zeros
      /\ \A k, m \in A : es[k].numeric = es[m].numeric => k = m
      /\ \A k, m \in B : es[k].coefficient = es[m].coefficient => k = m
  BY PlacesAreOwn
<1>3. \A w \in f.waiting : \E k \in A : es[k].numeric = w
  <2>1. TAKE w \in f.waiting
  <2>. DEFINE p == IndexByNumeric(g.refs[f.pivot], w)
  <2>2. WaitedAt(g, f, S, w, p)
    BY WaitedIs
  <2>. HIDE DEF p
  <2>3. p \in A /\ es[p].numeric = w
    BY <2>2 DEF WaitedAt
  <2>. QED BY <2>3
<1>4. \A z \in f.zeros : \E k \in B : es[k].coefficient = z
  <2>1. TAKE z \in f.zeros
  <2>. DEFINE p == IndexByCoefficient(g.refs[f.pivot], z)
  <2>2. ZeroAt(g, f, S, z, p)
    BY ZeroIs
  <2>. HIDE DEF p
  <2>3. p \in B /\ es[p].coefficient = z
    BY <2>2 DEF ZeroAt
  <2>. QED BY <2>3
<1>5. /\ A \in SUBSET (1 .. n) /\ a \in [A -> f.waiting] /\ \A w \in f.waiting : \E k \in A : a[k] = w
      /\ \A k, m \in A : a[k] = a[m] => k = m
  BY <1>2, <1>3
<1>6. /\ B \in SUBSET (1 .. n) /\ b \in [B -> f.zeros] /\ \A w \in f.zeros : \E k \in B : b[k] = w
      /\ \A k, m \in B : b[k] = b[m] => k = m
  BY <1>2, <1>4
<1>7. A \cap B = {}
  BY <1>2
<1>8. {k \in 1 .. n : Seen(g, f, k)} = A \cup B
  BY DEF Seen
<1>. DEFINE W == f.waiting
            Z == f.zeros
<1>9. OneEach(a, A, W) /\ OneEach(b, B, Z)
  BY <1>5, <1>6 DEF OneEach
<1>. HIDE DEF A, B, a, b, n, W, Z
<1>10. IsFiniteSet(A) /\ Cardinality(W) = Cardinality(A)
  BY <1>1, <1>5, <1>9, AsManyAsPlaces
<1>11. IsFiniteSet(B) /\ Cardinality(Z) = Cardinality(B)
  BY <1>1, <1>6, <1>9, AsManyAsPlaces
<1>12. Cardinality(A \cup B) = Cardinality(A) + Cardinality(B) - Cardinality(A \cap B)
  BY <1>10, <1>11, FS_Union
<1>13. Cardinality(A \cap B) = 0 /\ Cardinality(A) \in Nat /\ Cardinality(B) \in Nat
  BY <1>7, <1>10, <1>11, FS_EmptySet, FS_CardinalityType
<1>14. Cardinality(W) + Cardinality(Z) = Cardinality(A \cup B)
  BY <1>10, <1>11, <1>12, <1>13
<1>. QED BY <1>8, <1>14 DEF W, Z, n

\* What the search has seen is what it waits for or has as zero, one for one.
LEMMA SearchFollows ==
  ASSUME IInv
  PROVE  SearchComplete
<1>. SUFFICES ASSUME stack # <<>>, Top.next = None, Top.found = None
              PROVE  LET i == Top.pivot
                         edges == refs[i]
                         SeenAt(k) == edges[k].numeric \in Top.waiting \/ edges[k].coefficient \in Top.zeros
                     IN /\ \A k \in DOMAIN edges :
                             SeenAt(k) <=> k <= Top.j /\ Suitable(i, edges[k].head, Top.despair)
                        /\ Cardinality(Top.waiting) + Cardinality(Top.zeros)
                             = Cardinality({k \in DOMAIN edges : SeenAt(k)})
  BY DEF SearchComplete
<1>. DEFINE i == Top.pivot
            edges == refs[i]
            SeenAt(k) == edges[k].numeric \in Top.waiting \/ edges[k].coefficient \in Top.zeros
            S == SuitableFor(Top)
<1>1. Fine(Graph) /\ Searches(Graph, Top, S) /\ Graph.refs = refs
  BY InvTop DEF Graph
<1>2. Whole(Graph, Kept)
  BY <1>1 DEF Fine
<1>3. DOMAIN edges = 1 .. Len(edges)
  <2>1. refs \in [Pivot -> Seq(Edges)] /\ i \in Pivot
    BY <1>1, <1>2, WholeIs, SearchesIs
  <2>. QED BY <2>1, RowIs
<1>4. \A k : SeenAt(k) <=> Seen(Graph, Top, k)
  BY <1>1 DEF Seen
<1>5. SearchOf(Graph, Top, S)
  BY <1>1 DEF Searches
<1>6. \A k \in DOMAIN edges : SeenAt(k) <=> k <= Top.j /\ edges[k].head \in S
  BY <1>1, <1>4, <1>5 DEF SearchOf, SeesSuitable
<1>7. \A c : c \in S <=> Suitable(i, c, Top.despair)
  BY DEF SuitableFor, Suitable
<1>8. Cardinality(Top.waiting) + Cardinality(Top.zeros) = Cardinality({k \in DOMAIN edges : SeenAt(k)})
  <2>. DEFINE x == Graph
              f == Top
  <2>1. Whole(x, Kept) /\ Searches(x, f, S)
    BY <1>1, <1>2
  <2>2. {k \in DOMAIN edges : SeenAt(k)} = {k \in 1 .. Len(x.refs[f.pivot]) : Seen(x, f, k)}
    BY <1>1, <1>3, <1>4
  <2>3. Cardinality(f.waiting) + Cardinality(f.zeros) = Cardinality({k \in 1 .. Len(x.refs[f.pivot]) : Seen(x, f, k)})
    <3>. HIDE DEF x, f, S
    <3>. QED BY <2>1, SeenCounted
  <2>. HIDE DEF SeenAt, edges
  <2>. QED BY <2>2, <2>3
<1>. HIDE DEF S
<1>. QED BY <1>6, <1>7, <1>8

-----------------------------------------------------------------------------
(* The theorems *)

\* No operation of pivotgraph.c loses a reference or gives back too many: each operand is
\* counted as often as edges, expressions, workers and the graph refer to it, and nothing
\* refers to one that is gone.
THEOREM ReferencesCounted == Spec => []CountsExact
BY Invariance, CountsFollow, PTL

\* assert( !next->debug_used ) in qs_operand_bake: an expression has one user at most.
THEOREM ExpressionsUsedOnce == Spec => []UsedOnce
BY Invariance, UsedFollows, PTL

\* Whatever is relayed, collected, normalized, deleted or acquired, each head has one edge,
\* and its numeric stands for its coefficient.
THEOREM EdgesStayWhole == Spec => []EdgesWhole
BY Invariance, EdgesFollow, PTL

\* However edges are deleted while the search goes through them, it misses none that is
\* suitable, and looks at none twice.
THEOREM SearchMissesNone == Spec => []SearchComplete
BY Invariance, SearchFollows, PTL
=============================================================================
