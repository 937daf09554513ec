---------------------------- MODULE ADCInvariant ----------------------------
(***************************************************************************)
(* The inductive invariant of ADC: who calls terminal_decrease_adc for     *)
(* what, which entries of the lists of dependers are still to be notified, *)
(* and what each count and each contribution is worth while changes of     *)
(* them are under way.                                                     *)
(***************************************************************************)
EXTENDS ADC

CallType == [at : {"change", "next", "compare"}, t : Terminal, decrement : 0 .. MaxADC,
             rd : Nat, j : Nat \ {0}, n : Nat]

TypeOK ==
  /\ operands \in Graphs
  /\ adc \in [Terminal -> Count]
  /\ contributions \in [Terminal -> Seq(Count)]
  /\ dependers \in [Terminal -> Seq(Terminal)]
  /\ dc \in [Terminal -> Nat]
  /\ lock \in [Terminal -> Thread \cup {None}]
  /\ baked \subseteq Terminal /\ result \subseteq Terminal /\ independent \subseteq Terminal
  /\ fpc \in {"add", "read", "count", "built", "independ"}
  /\ ft \in 1 .. N + 1 /\ fk \in Nat \ {0}
  /\ wpc \in [Worker -> {"idle", "evaluate", "publish", "notify"}]
  /\ wt \in [Worker -> Terminal \cup {None}]
  /\ wj \in [Worker -> Nat \ {0}]
  /\ wn \in [Worker -> Nat]
  /\ stack \in [Thread -> Seq(CallType)]

-----------------------------------------------------------------------------
(* The graph *)

\* The frontend is in the midst of one terminal; the operand it adds is read-locked.
Baking ==
  /\ baked = {t \in Terminal : t < ft \/ (t = ft /\ fpc \in {"built", "independ"})}
  /\ fpc # "add" => ft \in Terminal
  /\ fpc \in {"read", "count"} => fk <= Len(operands[ft]) /\ Dependee \notin result

\* Entries are made by dependers that come later.
Listed ==
  \A p \in Terminal : \A j \in DOMAIN dependers[p] :
    /\ p \in ToSet(operands[dependers[p][j]])
    /\ p < dependers[p][j] /\ dependers[p][j] <= ft

\* The entries whose dependers are still to be notified.
Due(p, j) ==
  \/ p \notin result
  \/ \E w \in Worker : wpc[w] = "notify" /\ wt[w] = p /\ wj[w] <= j /\ j <= wn[w]

Awaited(t) ==
  UNION {{<<p, j>> : j \in {i \in DOMAIN dependers[p] : dependers[p][i] = t /\ Due(p, i)}} :
         p \in Terminal}

\* terminal->expression->dc counts them, and the guard of the construction.
Counted ==
  \A t \in Terminal :
    /\ IsFiniteSet(Awaited(t))
    /\ dc[t] = Cardinality(Awaited(t)) + (IF t < ft THEN 0 ELSE 1)

Settled(t) == dc[t] = 0 /\ t < ft

\* What awaits nothing is in one place.
Scheduled ==
  /\ \A t \in independent \cup result : Settled(t)
  /\ independent \cap result = {}
  /\ \A w \in Worker : wpc[w] # "idle" =>
       /\ wt[w] \in Terminal /\ Settled(wt[w])
       /\ wt[w] \notin independent
       /\ wt[w] \in result <=> wpc[w] = "notify"
       /\ \A v \in Worker : wpc[v] # "idle" /\ wt[v] = wt[w] => v = w

Notifying ==
  \A w \in Worker : wpc[w] = "notify" => wj[w] <= wn[w] + 1 /\ wn[w] <= Len(dependers[wt[w]])

-----------------------------------------------------------------------------
(* The calls of terminal_decrease_adc *)

\* Who makes the outermost call, for what.
Caller(x) == (x = Frontend /\ fpc = "independ") \/ (x \in Worker /\ wpc[x] = "publish")
Origin(x) == IF x = Frontend THEN ft ELSE wt[x]

Outermost ==
  \A x \in Thread : stack[x] # <<>> =>
    LET f == stack[x][Len(stack[x])] IN Caller(x) /\ f.t = Origin(x) /\ f.rd = 0

\* Each call is in its loop, and the calls it made are for the depender it has just left.
Calls ==
  \A x \in Thread : \A i \in DOMAIN stack[x] :
    LET f == stack[x][i] IN
      /\ f.t \notin result
      /\ f.n <= Len(dependers[f.t])
      /\ f.at = "change" => f.j = 1
      /\ f.at = "compare" => f.j <= f.n
      /\ f.at = "next" => f.j <= f.n + 1
      /\ i > 1 => f.at = "next"
      /\ i < Len(stack[x]) =>
           LET g == stack[x][i + 1] IN g.j > 1 /\ dependers[g.t][g.j - 1] = f.t

\* adc_contribution_lock is held where it says.
Holds(x, t) ==
  \/ In(x, "change") /\ Call(x).t = t
  \/ In(x, "compare") /\ Depender(Call(x)) = t
  \/ x = Frontend /\ fpc = "count" /\ Dependee = t

Locked == \A t \in Terminal : \A x \in Thread : lock[t] = x <=> Holds(x, t)

-----------------------------------------------------------------------------
(* The counts *)

\* A terminal never tells a depender less than it has still before it.
Contributed ==
  \A p \in Terminal :
    /\ p \notin result => Len(contributions[p]) = Len(dependers[p])
    /\ \A j \in DOMAIN contributions[p] :
         LET c == contributions[p][j] IN
         c # Overflown => adc[p] # Overflown /\ adc[p] <= c

Evaluated(t)  == t \in result \/ \E w \in Worker : wt[w] = t /\ wpc[w] = "publish"
Changing(t)   == \E x \in Thread : In(x, "change") /\ Call(x).t = t
Incomplete(t) == t \notin baked \/ (t = ft /\ fpc = "built")

\* No change is under way: the count is what can be collected.
Exact ==
  \A t \in Terminal : ~Changing(t) =>
    IF Evaluated(t) THEN adc[t] = 0
    ELSE adc[t] = Collected(t) \/ (adc[t] = Overflown /\ Incomplete(t))

\* A change is under way: it will be.
Changes ==
  \A x \in Thread : In(x, "change") =>
    LET f == Call(x) IN
      IF Evaluated(f.t) THEN adc[f.t] = f.decrement
      ELSE adc[f.t] # Overflown =>
             f.decrement <= adc[f.t] /\ adc[f.t] - f.decrement = Collected(f.t)

\* What is evaluated has told everybody, but those it is still to tell.
Told ==
  \A w \in Worker : wpc[w] = "publish" =>
    \A j \in DOMAIN contributions[wt[w]] :
      \/ contributions[wt[w]][j] = 0
      \/ /\ stack[w] # <<>>
         /\ LET f == stack[w][Len(stack[w])] IN f.at = "change" \/ (f.j <= j /\ j <= f.n)

IInv == /\ TypeOK /\ Baking /\ Listed /\ Counted /\ Scheduled /\ Notifying
        /\ Outermost /\ Calls /\ Locked
        /\ Contributed /\ Exact /\ Changes /\ Told
=============================================================================
