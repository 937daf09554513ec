--------------------------- MODULE EvaluatorProof ---------------------------
(***************************************************************************)
(* The invariant of the conversation with Fermat, proved: first how one is *)
(* read to its delimiters, then what a process and a worker make of a      *)
(* stage of it, and that the conversations do not disturb each other.      *)
(***************************************************************************)
EXTENDS EvaluatorInvariant, SequenceTheorems, TLAPS

-----------------------------------------------------------------------------
(* Sequences *)

\* Reading from short ones.
LEMMA Reading ==
  ASSUME NEW a, NEW b
  PROVE  /\ Head(<<a>>) = a /\ Tail(<<a>>) = <<>>
         /\ Head(<<a, b>>) = a /\ Tail(<<a, b>>) = <<b>>
OBVIOUS

\* Two words are written like one after the other.
LEMMA Writing ==
  ASSUME NEW S, NEW a \in S, NEW b \in S
  PROVE  <<a>> \o <<b>> = <<a, b>>
<1>. DEFINE s == <<a>>
            u == <<b>>
            t == <<a, b>>
<1>1. s \in Seq(S) /\ Len(s) = 1 /\ s[1] = a /\ u \in Seq(S) /\ Len(u) = 1 /\ u[1] = b
        /\ Len(t) = 2 /\ t[1] = a /\ t[2] = b /\ t \in Seq(S)
  OBVIOUS
<1>. HIDE DEF s, t, u
<1>2. s \o u \in Seq(S) /\ Len(s \o u) = Len(s) + Len(u)
        /\ \A i \in 1 .. Len(s) + Len(u) :
             (s \o u)[i] = IF i <= Len(s) THEN s[i] ELSE u[i - Len(s)]
  BY <1>1, ConcatProperties
<1>3. \A i \in 1 .. Len(t) : (s \o u)[i] = t[i]
  BY <1>1, <1>2
<1>4. s \o u = t
  BY <1>1, <1>2, <1>3, SeqEqual
<1>. QED
  BY <1>4 DEF s, t, u

\* Where the first delimiter is.
LEMMA FirstPlace ==
  ASSUME NEW p, NEW d, NEW n \in Nat, Len(answers[p]) = n, NEW k \in 1 .. n, answers[p][k] = d,
         \A j \in 1 .. (k - 1) : answers[p][j] # d
  PROVE  Place(p, d) = k
<1>. DEFINE I == {i \in 1 .. Len(answers[p]) : answers[p][i] = d}
<1>1. k \in I /\ \A i \in I : k <= i
  OBVIOUS
<1>2. Place(p, d) = Min(I)
  BY <1>1 DEF Place, SelectInSeq
<1>3. Min(I) \in I /\ \A i \in I : Min(I) <= i
  BY <1>1 DEF Min
<1>. HIDE DEF I
<1>4. Min(I) \in 1 .. n /\ Min(I) <= k /\ k <= Min(I)
  BY <1>1, <1>3 DEF I
<1>. QED
  BY <1>2, <1>4

\* What getdelim returns is what precedes the delimiter, and it leaves what follows.
LEMMA Delimited ==
  ASSUME NEW p, NEW d \in Text, NEW u \in Seq(Text), NEW t \in Seq(Text),
         answers[p] = (u \o <<d>>) \o t, \A i \in 1 .. Len(u) : u[i] # d
  PROVE  Ready(p, d) /\ Before(p, d) = u /\ After(p, d) = t
<1>. DEFINE S == Text
            s == answers[p]
            m == Len(u)
            n == Len(t)
<1>0. m \in Nat /\ n \in Nat /\ <<d>> \in Seq(S) /\ Len(<<d>>) = 1 /\ <<d>>[1] = d
  BY LenProperties
<1>1. /\ u \o <<d>> \in Seq(S) /\ Len(u \o <<d>>) = m + 1
      /\ \A i \in 1 .. (m + 1) : (u \o <<d>>)[i] = IF i <= m THEN u[i] ELSE <<d>>[i - m]
  BY <1>0, ConcatProperties
<1>2. /\ s \in Seq(S) /\ Len(s) = m + 1 + n
      /\ \A i \in 1 .. (m + 1 + n) :
           s[i] = IF i <= m + 1 THEN (u \o <<d>>)[i] ELSE t[i - (m + 1)]
  BY <1>0, <1>1, ConcatProperties
<1>. HIDE DEF m, n, s
<1>3. /\ \A i \in 1 .. m : s[i] = u[i] /\ u[i] \in S
      /\ s[m + 1] = d
      /\ \A i \in 1 .. n : s[m + 1 + i] = t[i] /\ t[i] \in S
  <2>1. ASSUME NEW i \in 1 .. m PROVE s[i] = u[i] /\ u[i] \in S
    <3>1. i \in 1 .. (m + 1) /\ i \in 1 .. (m + 1 + n) /\ i <= m /\ i <= m + 1
      BY <1>0
    <3>. QED
      BY <1>1, <1>2, <3>1, ElementOfSeq DEF m
  <2>2. s[m + 1] = d
    <3>1. m + 1 \in 1 .. (m + 1) /\ m + 1 \in 1 .. (m + 1 + n) /\ ~(m + 1 <= m)
            /\ m + 1 - m = 1 /\ m + 1 <= m + 1
      BY <1>0
    <3>. QED
      BY <1>0, <1>1, <1>2, <3>1
  <2>3. ASSUME NEW i \in 1 .. n PROVE s[m + 1 + i] = t[i] /\ t[i] \in S
    <3>1. m + 1 + i \in 1 .. (m + 1 + n) /\ ~(m + 1 + i <= m + 1) /\ m + 1 + i - (m + 1) = i
      BY <1>0
    <3>2. PICK j : j = m + 1 + i
      OBVIOUS
    <3>3. j \in 1 .. (m + 1 + n) /\ ~(j <= m + 1) /\ j - (m + 1) = i
      BY <1>0, <3>1, <3>2
    <3>4. s[j] = t[j - (m + 1)]
      BY <1>2, <3>3
    <3>5. t[i] \in S
      BY ElementOfSeq DEF n
    <3>. QED
      BY <3>2, <3>3, <3>4, <3>5
  <2>. QED
    BY <2>1, <2>2, <2>3
<1>4. Place(p, d) = m + 1
  <2>1. \A j \in 1 .. (m + 1 - 1) : s[j] # d
    BY <1>0, <1>3 DEF m
  <2>2. m + 1 \in 1 .. (m + 1 + n) /\ m + 1 + n \in Nat
    BY <1>0
  <2>. DEFINE k == m + 1
              N == m + 1 + n
  <2>3. k \in 1 .. N /\ N \in Nat /\ Len(s) = N /\ s[k] = d
    BY <1>2, <1>3, <2>2
  <2>5. \A j \in 1 .. (k - 1) : s[j] # d
    BY <1>0, <2>1
  <2>. HIDE DEF k, N
  <2>4. Place(p, d) = k
    BY <2>3, <2>5, FirstPlace DEF s
  <2>. QED
    BY <2>4 DEF k
<1>5. Ready(p, d)
  <2>1. m + 1 \in DOMAIN s
    BY <1>0, <1>2, LenProperties
  <2>. QED
    BY <1>3, <2>1 DEF Ready, ToSet, s
<1>6. Before(p, d) = u
  <2>. DEFINE b == SubSeq(s, 1, m)
  <2>1. /\ b \in Seq(S) /\ Len(b) = IF 1 <= m THEN m - 1 + 1 ELSE 0
        /\ \A i \in 1 .. m - 1 + 1 : b[i] = s[1 + i - 1]
    BY <1>0, <1>3, SubSeqProperties
  <2>. HIDE DEF b
  <2>2. Len(b) = m /\ \A i \in 1 .. m : b[i] = u[i]
    <3>1. \A i \in 1 .. m : i \in 1 .. m - 1 + 1 /\ 1 + i - 1 = i
      BY <1>0
    <3>. QED
      BY <1>0, <1>3, <2>1, <3>1
  <2>3. b = u
    BY <2>1, <2>2, SeqEqual DEF m
  <2>4. m + 1 - 1 = m
    BY <1>0
  <2>5. Place(p, d) - 1 = m
    BY <1>0, <1>4, <2>4
  <2>6. Before(p, d) = SubSeq(s, 1, Place(p, d) - 1)
    BY DEF Before, s
  <2>. QED
    BY <2>3, <2>5, <2>6 DEF b
<1>7. After(p, d) = t
  <2>. DEFINE b == SubSeq(s, m + 2, m + 1 + n)
  <2>1. \A i \in m + 2 .. m + 1 + n : s[i] \in S
    <3>1. \A i \in m + 2 .. m + 1 + n : i - (m + 1) \in 1 .. n /\ m + 1 + (i - (m + 1)) = i
      BY <1>0
    <3>. QED
      BY <1>3, <3>1
  <2>2. m + 2 \in Int /\ m + 1 + n \in Int
    BY <1>0
  <2>3. /\ b \in Seq(S) /\ Len(b) = IF m + 2 <= m + 1 + n THEN m + 1 + n - (m + 2) + 1 ELSE 0
        /\ \A i \in 1 .. m + 1 + n - (m + 2) + 1 : b[i] = s[m + 2 + i - 1]
    <3>. DEFINE from == m + 2
                to == m + 1 + n
    <3>1. from \in Int /\ to \in Int /\ \A i \in from .. to : s[i] \in S
      BY <2>1, <2>2
    <3>. HIDE DEF from, to
    <3>2. /\ SubSeq(s, from, to) \in Seq(S)
          /\ Len(SubSeq(s, from, to)) = IF from <= to THEN to - from + 1 ELSE 0
          /\ \A i \in 1 .. to - from + 1 : SubSeq(s, from, to)[i] = s[from + i - 1]
      BY <3>1, SubSeqProperties
    <3>3. to - from + 1 = m + 1 + n - (m + 2) + 1
      BY <1>0 DEF from, to
    <3>. QED
      BY <3>2, <3>3 DEF from, to, b
  <2>. HIDE DEF b
  <2>4. Len(b) = n /\ \A i \in 1 .. n : b[i] = t[i]
    <3>1. \A i \in 1 .. n : i \in 1 .. m + 1 + n - (m + 2) + 1 /\ m + 2 + i - 1 = m + 1 + i
      BY <1>0
    <3>. QED
      BY <1>0, <1>3, <2>3, <3>1
  <2>5. b = t
    BY <2>3, <2>4, SeqEqual DEF n
  <2>6. m + 1 + 1 = m + 2
    BY <1>0
  <2>. QED
    BY <1>2, <1>4, <2>5, <2>6 DEF After, b, s
<1>. QED
  BY <1>5, <1>6, <1>7

-----------------------------------------------------------------------------
(* The stages of a conversation *)

\* What a conversation may begin with, and what is answered to that.
Question(f, v) == (f = "symbols" /\ v = <<>>) \/ (f \in Expression /\ v = <<f>>)

\* The texts it consists of.
LEMMA Answers ==
  ASSUME NEW f, NEW v, Question(f, v)
  PROVE  /\ v \in Seq(Text) /\ \A i \in 1 .. Len(v) : v[i] # "#"
         /\ Append(v, "#") = v \o <<"#">>
         /\ Append(v \o <<"#">>, "0") = v \o <<"#", "0">>
         /\ (v \o <<"#">>) \o <<>> = v \o <<"#">>
         /\ (v \o <<"#">>) \o <<"0">> = v \o <<"#", "0">>
         /\ v \o <<"#">> \in Seq(Text) /\ v \o <<"#", "0">> \in Seq(Text)
<1>1. "#" \in Text /\ "0" \in Text /\ (f \in Expression => f \in Text /\ f # "#")
  BY ExpressionAssumption DEF Text
<1>2. v \in Seq(Text) /\ \A i \in 1 .. Len(v) : v[i] # "#"
  <2>1. CASE v = <<>>
    BY <2>1
  <2>2. CASE f \in Expression /\ v = <<f>>
    BY <1>1, <2>2
  <2>. QED
    BY <2>1, <2>2 DEF Question
<1>3. <<"#">> \in Seq(Text) /\ <<"0">> \in Seq(Text) /\ <<>> \in Seq(Text)
        /\ <<"#", "0">> \in Seq(Text)
  BY <1>1
<1>4. <<"#">> \o <<"0">> = <<"#", "0">>
  BY <1>1, Writing
<1>5. v \o <<"#">> \in Seq(Text) /\ v \o <<"#", "0">> \in Seq(Text)
  BY <1>2, <1>3, ConcatProperties
<1>6. (v \o <<"#">>) \o <<"0">> = v \o <<"#", "0">>
  BY <1>2, <1>3, <1>4, ConcatAssociative
<1>7. (v \o <<"#">>) \o <<>> = v \o <<"#">>
  BY <1>5, ConcatEmptySeq
<1>8. Append(v, "#") = v \o <<"#">>
  BY <1>1, <1>2, AppendIsConcat
<1>9. Append(v \o <<"#">>, "0") = v \o <<"#", "0">>
  BY <1>1, <1>5, <1>6, AppendIsConcat
<1>. QED
  BY <1>2, <1>5, <1>6, <1>7, <1>8, <1>9

\* What a process in some state has done and has to do.
LEMMA StateOf ==
  ASSUME NEW p, NEW a, NEW b, NEW c
  PROVE  State(p) = <<a, b, c>> <=> answers[p] = a /\ printing[p] = b /\ inbox[p] = c
BY DEF State

LEMMA StageOf ==
  ASSUME NEW p, NEW f, NEW v
  PROVE  State(p) \in Stages(f, v) <=>
           \/ answers[p] = <<>> /\ printing[p] = <<>> /\ inbox[p] = <<f, "sync">>
           \/ answers[p] = <<>> /\ printing[p] = v /\ inbox[p] = <<"sync">>
           \/ answers[p] = v /\ printing[p] = <<>> /\ inbox[p] = <<"sync">>
           \/ answers[p] = v /\ printing[p] = <<"#", "0">> /\ inbox[p] = <<>>
           \/ answers[p] = v \o <<"#">> /\ printing[p] = <<"0">> /\ inbox[p] = <<>>
           \/ answers[p] = v \o <<"#", "0">> /\ printing[p] = <<>> /\ inbox[p] = <<>>
<1>1. State(p) \in Stages(f, v) <=>
        \/ State(p) = << <<>>, <<>>, <<f, "sync">> >>
        \/ State(p) = << <<>>, v, <<"sync">> >>
        \/ State(p) = << v, <<>>, <<"sync">> >>
        \/ State(p) = << v, <<"#", "0">>, <<>> >>
        \/ State(p) = << v \o <<"#">>, <<"0">>, <<>> >>
        \/ State(p) = << v \o <<"#", "0">>, <<>>, <<>> >>
  BY DEF Stages
<1>2. State(p) = << <<>>, <<>>, <<f, "sync">> >> <=>
        answers[p] = <<>> /\ printing[p] = <<>> /\ inbox[p] = <<f, "sync">>
  BY DEF State
<1>3. State(p) = << <<>>, v, <<"sync">> >> <=>
        answers[p] = <<>> /\ printing[p] = v /\ inbox[p] = <<"sync">>
  BY DEF State
<1>4. State(p) = << v, <<>>, <<"sync">> >> <=>
        answers[p] = v /\ printing[p] = <<>> /\ inbox[p] = <<"sync">>
  BY DEF State
<1>5. State(p) = << v, <<"#", "0">>, <<>> >> <=>
        answers[p] = v /\ printing[p] = <<"#", "0">> /\ inbox[p] = <<>>
  BY DEF State
<1>6. State(p) = << v \o <<"#">>, <<"0">>, <<>> >> <=>
        answers[p] = v \o <<"#">> /\ printing[p] = <<"0">> /\ inbox[p] = <<>>
  BY DEF State
<1>7. State(p) = << v \o <<"#", "0">>, <<>>, <<>> >> <=>
        answers[p] = v \o <<"#", "0">> /\ printing[p] = <<>> /\ inbox[p] = <<>>
  BY DEF State
<1>. QED
  BY <1>1, <1>2, <1>3, <1>4, <1>5, <1>6, <1>7

\* A process that reads its next word is at the next stage.
LEMMA ReadStage ==
  ASSUME TypeOK, NEW p \in Process, Read(p), NEW f, NEW v, Question(f, v),
         State(p) \in Stages(f, v)
  PROVE  running' = running /\ State(p)' \in Stages(f, v)
<1>0. /\ printing[p] = <<>> /\ inbox[p] # <<>>
      /\ ((f = "symbols" /\ v = <<>>) \/ (f \notin {"quit", "sync", "symbols"} /\ v = <<f>>))
  BY ExpressionAssumption DEF Read, Question
<1>1. \/ answers[p] = <<>> /\ inbox[p] = <<f, "sync">>
      \/ answers[p] = v /\ inbox[p] = <<"sync">>
  BY <1>0, StageOf
<1>2. CASE answers[p] = <<>> /\ inbox[p] = <<f, "sync">>
  <2>1. Head(inbox[p]) = f /\ Tail(inbox[p]) = <<"sync">>
    BY <1>2, Reading
  <2>2. /\ running' = running /\ answers' = answers
        /\ inbox' = [inbox EXCEPT ![p] = <<"sync">>]
        /\ printing' = [printing EXCEPT ![p] = v]
    BY <1>0, <2>1, ExpressionAssumption DEF Read
  <2>3. State(p)' = << <<>>, v, <<"sync">> >>
    BY <1>2, <2>2 DEF TypeOK, State
  <2>. QED
    BY <2>2, <2>3 DEF Stages
<1>3. CASE answers[p] = v /\ inbox[p] = <<"sync">>
  <2>1. Head(inbox[p]) = "sync" /\ Tail(inbox[p]) = <<>>
    BY <1>3, Reading
  <2>2. /\ running' = running /\ answers' = answers
        /\ inbox' = [inbox EXCEPT ![p] = <<>>]
        /\ printing' = [printing EXCEPT ![p] = <<"#", "0">>]
    BY <2>1 DEF Read
  <2>3. State(p)' = << v, <<"#", "0">>, <<>> >>
    BY <1>3, <2>2 DEF TypeOK, State
  <2>. QED
    BY <2>2, <2>3 DEF Stages
<1>. QED
  BY <1>1, <1>2, <1>3

\* And so is one that prints its next text.
LEMMA AnswerStage ==
  ASSUME TypeOK, NEW p \in Process, Answer(p), NEW f, NEW v, Question(f, v),
         State(p) \in Stages(f, v)
  PROVE  State(p)' \in Stages(f, v)
<1>1. /\ printing[p] # <<>>
      /\ inbox' = inbox
      /\ answers'[p] = Append(answers[p], Head(printing[p]))
      /\ printing'[p] = Tail(printing[p])
  BY DEF Answer, TypeOK
<1>2. \/ answers[p] = <<>> /\ printing[p] = v /\ inbox[p] = <<"sync">>
      \/ answers[p] = v /\ printing[p] = <<"#", "0">> /\ inbox[p] = <<>>
      \/ answers[p] = v \o <<"#">> /\ printing[p] = <<"0">> /\ inbox[p] = <<>>
  BY <1>1, StageOf
<1>3. CASE answers[p] = <<>> /\ printing[p] = v /\ inbox[p] = <<"sync">>
  <2>1. v = <<f>>
    BY <1>1, <1>3 DEF Question
  <2>2. answers'[p] = v /\ printing'[p] = <<>>
    BY <1>1, <1>3, <2>1
  <2>3. State(p)' = << v, <<>>, <<"sync">> >>
    BY <1>1, <1>3, <2>2 DEF State
  <2>. QED
    BY <2>3 DEF Stages
<1>4. CASE answers[p] = v /\ printing[p] = <<"#", "0">> /\ inbox[p] = <<>>
  <2>1. answers'[p] = v \o <<"#">> /\ printing'[p] = <<"0">>
    BY <1>1, <1>4, Reading, Answers
  <2>2. State(p)' = << v \o <<"#">>, <<"0">>, <<>> >>
    BY <1>1, <1>4, <2>1 DEF State
  <2>. QED
    BY <2>2 DEF Stages
<1>5. CASE answers[p] = v \o <<"#">> /\ printing[p] = <<"0">> /\ inbox[p] = <<>>
  <2>1. answers'[p] = v \o <<"#", "0">> /\ printing'[p] = <<>>
    BY <1>1, <1>5, Reading, Answers
  <2>2. State(p)' = << v \o <<"#", "0">>, <<>>, <<>> >>
    BY <1>1, <1>5, <2>1 DEF State
  <2>. QED
    BY <2>2 DEF Stages
<1>. QED
  BY <1>2, <1>3, <1>4, <1>5

\* What is left of a process that ends at some stage.
LEMMA StageRemains ==
  ASSUME NEW p, NEW f, NEW v, State(p) \in Stages(f, v)
  PROVE  answers[p] \in Remains(v)
BY StageOf DEF Remains

\* The answers of a process end only when it does.
LEMMA EndOfDead ==
  ASSUME HoldsOwn, NEW p, NEW d, AtEnd(p, d)
  PROVE  p \notin running
BY DEF HoldsOwn, AtEnd

\* What the worker is asking.
LEMMA AskedQuestion ==
  ASSUME Equipped, NEW w \in Worker, wpc[w] \notin {"idle", "gone"}
  PROVE  Question(Asked(w), Answered(w))
BY DEF Equipped, Question, Asked, Answered

-----------------------------------------------------------------------------
(* What the worker reads *)

\* Where a worker has a process.
LEMMA OwnProcess ==
  ASSUME TypeOK, Equipped, NEW w \in Worker,
         wpc[w] \in {"fork", "close", "submit", "sync", "waste"} \/ evaluations[w] # 0
  PROVE  cas[w] \in Process
BY DEF TypeOK, Equipped

\* A text with a delimiter in it is not empty, nor just what was answered.
LEMMA NotReady ==
  ASSUME NEW p, NEW f, NEW v, Question(f, v), answers[p] \in {<<>>, v}
  PROVE  ~Ready(p, "#")
<1>1. CASE answers[p] = <<>>
  BY <1>1 DEF Ready, ToSet
<1>2. CASE answers[p] = v
  <2>1. v \in Seq(Text) /\ \A i \in 1 .. Len(v) : v[i] # "#"
    BY Answers
  <2>2. \A i \in DOMAIN v : v[i] # "#"
    BY <2>1
  <2>. QED
    BY <1>2, <2>2 DEF Ready, ToSet
<1>. QED
  BY <1>1, <1>2

\* Up to the first delimiter it reads the answer to its question, and the second delimiter
\* is all that is left.
LEMMA SyncReadEffect ==
  ASSUME IInv, NEW w \in Worker, SyncRead(w), NEW p, p = cas[w]
  PROVE  /\ p \in Process /\ text'[w] = Answered(w)
         /\ answers' = [answers EXCEPT ![p] = After(p, "#")]
         /\ \/ After(p, "#") = <<>> /\ printing[p] = <<"0">> /\ inbox[p] = <<>>
            \/ After(p, "#") = <<"0">> /\ printing[p] = <<>> /\ inbox[p] = <<>>
            \/ p \notin running /\ After(p, "#") = <<>>
<1>0. TypeOK /\ Equipped /\ Silent /\ Syncing
  BY DEF IInv
<1>1. PICK f, v : f = Asked(w) /\ v = Answered(w)
  OBVIOUS
<1>2. /\ wpc[w] = "sync" /\ Ready(p, "#") /\ text'[w] = Before(p, "#")
      /\ answers' = [answers EXCEPT ![p] = After(p, "#")]
  BY <1>0 DEF SyncRead, Goes, TypeOK
<1>3. Question(f, v) /\ p \in Process
  BY <1>0, <1>1, <1>2, AskedQuestion, OwnProcess
<1>4. /\ v \in Seq(Text) /\ \A i \in 1 .. Len(v) : v[i] # "#"
      /\ (v \o <<"#">>) \o <<>> = v \o <<"#">>
      /\ (v \o <<"#">>) \o <<"0">> = v \o <<"#", "0">>
  BY <1>3, Answers
<1>5. "#" \in Text /\ <<>> \in Seq(Text) /\ <<"0">> \in Seq(Text)
  BY DEF Text
<1>6. ASSUME answers[p] = v \o <<"#">> PROVE Before(p, "#") = v /\ After(p, "#") = <<>>
  <2>1. PICK t : t = <<>>
    OBVIOUS
  <2>2. t \in Seq(Text) /\ answers[p] = (v \o <<"#">>) \o t
    BY <1>4, <1>5, <1>6, <2>1
  <2>3. v \in Seq(Text) /\ \A i \in 1 .. Len(v) : v[i] # "#"
    BY <1>4
  <2>4. "#" \in Text
    BY <1>5
  <2>5. Before(p, "#") = v /\ After(p, "#") = t
    BY <2>2, <2>3, <2>4, Delimited
  <2>. QED
    BY <2>1, <2>5
<1>7. ASSUME answers[p] = v \o <<"#", "0">> PROVE Before(p, "#") = v /\ After(p, "#") = <<"0">>
  <2>1. PICK t : t = <<"0">>
    OBVIOUS
  <2>2. t \in Seq(Text) /\ answers[p] = (v \o <<"#">>) \o t
    BY <1>4, <1>5, <1>7, <2>1
  <2>3. v \in Seq(Text) /\ \A i \in 1 .. Len(v) : v[i] # "#"
    BY <1>4
  <2>4. "#" \in Text
    BY <1>5
  <2>5. Before(p, "#") = v /\ After(p, "#") = t
    BY <2>2, <2>3, <2>4, Delimited
  <2>. QED
    BY <2>1, <2>5
<1>8. answers[p] # <<>> /\ answers[p] # v
  BY <1>2, <1>3, NotReady
<1>9. \/ State(p) \in Stages(f, v)
      \/ p \notin running /\ answers[p] \in Remains(v)
  BY <1>0, <1>1, <1>2 DEF Syncing
<1>10. CASE State(p) \in Stages(f, v)
  <2>1. \/ answers[p] = v \o <<"#">> /\ printing[p] = <<"0">> /\ inbox[p] = <<>>
        \/ answers[p] = v \o <<"#", "0">> /\ printing[p] = <<>> /\ inbox[p] = <<>>
    BY <1>8, <1>10, StageOf
  <2>. QED
    BY <1>1, <1>2, <1>3, <1>6, <1>7, <2>1
<1>11. CASE p \notin running /\ answers[p] \in Remains(v)
  <2>1. answers[p] = v \o <<"#">> \/ answers[p] = v \o <<"#", "0">>
    BY <1>8, <1>11 DEF Remains
  <2>2. inbox[p] = <<>> /\ printing[p] = <<>>
    BY <1>0, <1>3, <1>11 DEF Silent
  <2>. QED
    BY <1>1, <1>2, <1>3, <1>6, <1>7, <1>11, <2>1, <2>2
<1>. QED
  BY <1>9, <1>10, <1>11

\* After the second one nothing is left.
LEMMA RestEffect ==
  ASSUME IInv, NEW w \in Worker, wpc[w] = "waste", NEW p, p = cas[w],
         Ready(p, "0") \/ AtEnd(p, "0")
  PROVE  p \in Process /\ Rest(p) = <<>> /\ printing[p] = <<>> /\ inbox[p] = <<>>
<1>0. TypeOK /\ Equipped /\ HoldsOwn /\ Silent /\ Wasting
  BY DEF IInv
<1>1. p \in Process
  BY <1>0, OwnProcess
<1>2. \/ answers[p] = <<>> /\ printing[p] = <<"0">> /\ inbox[p] = <<>>
      \/ answers[p] = <<"0">> /\ printing[p] = <<>> /\ inbox[p] = <<>>
      \/ p \notin running /\ answers[p] = <<>>
  <2>1. \/ State(p) \in {<< <<>>, <<"0">>, <<>> >>, << <<"0">>, <<>>, <<>> >>}
        \/ p \notin running /\ answers[p] = <<>>
    BY <1>0 DEF Wasting
  <2>2. State(p) = << <<>>, <<"0">>, <<>> >> <=>
          answers[p] = <<>> /\ printing[p] = <<"0">> /\ inbox[p] = <<>>
    BY DEF State
  <2>3. State(p) = << <<"0">>, <<>>, <<>> >> <=>
          answers[p] = <<"0">> /\ printing[p] = <<>> /\ inbox[p] = <<>>
    BY DEF State
  <2>. QED
    BY <2>1, <2>2, <2>3
<1>3. answers[p] = <<>> => ~Ready(p, "0")
  BY DEF Ready, ToSet
<1>4. ASSUME answers[p] = <<"0">> PROVE Ready(p, "0") /\ After(p, "0") = <<>>
  <2>1. PICK u : u = <<>>
    OBVIOUS
  <2>2. <<"0">> \in Seq(Text) /\ "0" \in Text /\ u \in Seq(Text)
    BY <2>1 DEF Text
  <2>3. answers[p] = (u \o <<"0">>) \o u
    BY <1>4, <2>1, <2>2, ConcatEmptySeq
  <2>4. \A i \in 1 .. Len(u) : u[i] # "0"
    BY <2>1
  <2>5. Ready(p, "0") /\ After(p, "0") = u
    BY <2>2, <2>3, <2>4, Delimited
  <2>. QED
    BY <2>1, <2>5
<1>5. CASE p \in running
  BY <1>0, <1>1, <1>2, <1>3, <1>4, <1>5, EndOfDead DEF Rest
<1>6. CASE p \notin running
  <2>1. inbox[p] = <<>> /\ printing[p] = <<>>
    BY <1>0, <1>1, <1>6 DEF Silent
  <2>. QED
    BY <1>1, <1>2, <1>3, <1>4, <2>1 DEF Rest
<1>. QED
  BY <1>5, <1>6

-----------------------------------------------------------------------------
(* Types *)

\* What is written to a process.
LEMMA SubmittedInbox ==
  ASSUME TypeOK, NEW p \in Process, NEW words \in Seq(Word), NEW box, box = Submitted(p, words)
  PROVE  /\ box \in [Process -> Seq(Word)]
         /\ \A q \in Process \ {p} : box[q] = inbox[q]
         /\ box[p] = IF p \in running THEN inbox[p] \o words ELSE inbox[p]
<1>1. inbox \in [Process -> Seq(Word)]
  BY DEF TypeOK
<1>2. inbox[p] \o words \in Seq(Word)
  BY <1>1, ConcatProperties
<1>. QED
  BY <1>1, <1>2 DEF Submitted

\* The words that are written.
LEMMA Words ==
  /\ <<"quit">> \in Seq(Word) /\ <<"symbols", "sync">> \in Seq(Word)
  /\ \A x \in Expression : <<x, "sync">> \in Seq(Word)
BY DEF Word

\* Ending a process, as writing to it, keeps the types.
LEMMA FinishTypes ==
  ASSUME TypeOK, NEW w \in Worker, cas[w] \in Process, Finish(w)
  PROVE  /\ inbox' \in [Process -> Seq(Word)] /\ cas' \in [Worker -> Process \cup {None}]
         /\ evaluations' \in [Worker -> Nat]
<1>1. inbox' \in [Process -> Seq(Word)]
  BY SubmittedInbox, Words DEF Finish
<1>. QED
  BY <1>1 DEF Finish, TypeOK

\* So does its end.
LEMMA EndsTypes ==
  ASSUME TypeOK, NEW p \in Process, Ends(p)
  PROVE  /\ running' \subseteq Process /\ inbox' \in [Process -> Seq(Word)]
         /\ printing' \in [Process -> Seq(Text)]
         /\ holders' \in [Process -> SUBSET (Process \cup {Parent})]
<1>1. <<>> \in Seq(Word) /\ <<>> \in Seq(Text)
  OBVIOUS
<1>. QED
  BY <1>1 DEF Ends, TypeOK

\* Every step of a worker keeps them.
LEMMA WorkerTypeStep ==
  ASSUME IInv, NEW w \in Worker, WorkerStep(w) \/ Destroy(w) \/ \E x \in Expression : Take(w, x)
  PROVE  TypeOK'
<1>0. TypeOK /\ Equipped
  BY DEF IInv
<1>1. CASE \E x \in Expression : Take(w, x)
  BY <1>0, <1>1 DEF Take, Goes, TypeOK, processVars, Places
<1>2. CASE Pipe(w)
  <2>1. PICK p \in Unused : /\ cas' = [cas EXCEPT ![w] = p]
                            /\ answers' = [answers EXCEPT ![p] = <<>>]
                            /\ holders' = [holders EXCEPT ![p] = {Parent}]
                            /\ served'  = [served EXCEPT ![p] = 0]
    BY <1>2 DEF Pipe
  <2>2. p \in Process /\ <<>> \in Seq(Text)
    BY DEF Unused
  <2>3. /\ cas' \in [Worker -> Process \cup {None}] /\ answers' \in [Process -> Seq(Text)]
        /\ holders' \in [Process -> SUBSET (Process \cup {Parent})]
        /\ served' \in [Process -> Nat]
    BY <1>0, <2>1, <2>2 DEF TypeOK
  <2>. QED
    BY <1>0, <1>2, <2>3 DEF Pipe, Goes, TypeOK, Places
<1>3. CASE Fork(w)
  <2>1. cas[w] \in Process
    BY <1>0, <1>3, OwnProcess DEF Fork, Goes
  <2>2. holders' \in [Process -> SUBSET (Process \cup {Parent})]
    BY <1>0, <1>3, <2>1 DEF Fork, TypeOK
  <2>. QED
    BY <1>0, <1>3, <2>1, <2>2 DEF Fork, Goes, TypeOK, Places
<1>4. CASE Close(w)
  <2>1. cas[w] \in Process
    BY <1>0, <1>4, OwnProcess DEF Close, Goes
  <2>2. inbox' \in [Process -> Seq(Word)]
    BY <1>0, <1>4, <2>1, SubmittedInbox, Words DEF Close
  <2>3. holders' \in [Process -> SUBSET (Process \cup {Parent})]
    BY <1>0, <1>4, <2>1 DEF Close, TypeOK
  <2>. QED
    BY <1>0, <1>4, <2>2, <2>3 DEF Close, Goes, TypeOK, Places
<1>5. CASE Submit(w)
  <2>1. cas[w] \in Process /\ target[w] \in Expression
    BY <1>0, <1>5, OwnProcess DEF Submit, Goes, Equipped
  <2>2. inbox' \in [Process -> Seq(Word)]
    BY <1>0, <1>5, <2>1, SubmittedInbox, Words DEF Submit
  <2>3. served' \in [Process -> Nat]
    BY <1>0, <1>5, <2>1 DEF Submit, TypeOK
  <2>. QED
    BY <1>0, <1>5, <2>2, <2>3 DEF Submit, Goes, TypeOK, Places
<1>6. CASE SyncRead(w)
  <2>1. PICK p : p = cas[w]
    OBVIOUS
  <2>2. /\ p \in Process /\ text'[w] = Answered(w)
        /\ answers' = [answers EXCEPT ![p] = After(p, "#")]
        /\ After(p, "#") \in {<<>>, <<"0">>}
    BY <1>6, <2>1, SyncReadEffect
  <2>3. answers' \in [Process -> Seq(Text)]
    <3>1. <<>> \in Seq(Text) /\ <<"0">> \in Seq(Text)
      BY DEF Text
    <3>. QED
      BY <1>0, <2>2, <3>1 DEF TypeOK
  <2>4. Answered(w) \in {<<>>} \cup {<<x>> : x \in Expression}
    BY <1>0, <1>6 DEF SyncRead, Goes, Answered, Equipped
  <2>5. text' \in [Worker -> {<<>>} \cup {<<x>> : x \in Expression}]
    BY <1>0, <1>6, <2>2, <2>4 DEF SyncRead, TypeOK
  <2>. QED
    BY <1>0, <1>6, <2>3, <2>5 DEF SyncRead, Goes, TypeOK, Places
<1>7. CASE SyncEnds(w)
  <2>1. cas[w] \in Process
    BY <1>0, <1>7, OwnProcess DEF SyncEnds, Goes
  <2>2. /\ inbox' \in [Process -> Seq(Word)] /\ cas' \in [Worker -> Process \cup {None}]
        /\ evaluations' \in [Worker -> Nat]
    BY <1>0, <1>7, <2>1, FinishTypes DEF SyncEnds
  <2>3. undefined' \in BOOLEAN
    BY <1>7 DEF SyncEnds, Initializing
  <2>. QED
    BY <1>0, <1>7, <2>2, <2>3 DEF SyncEnds, Goes, TypeOK, Places
<1>8. CASE Initialized(w) \/ Receive(w)
  <2>1. PICK p : p = cas[w]
    OBVIOUS
  <2>2. wpc[w] = "waste" /\ (Ready(p, "0") \/ AtEnd(p, "0"))
          /\ answers' = [answers EXCEPT ![p] = Rest(p)]
    BY <1>8, <2>1 DEF Initialized, Receive, Goes
  <2>3. p \in Process /\ Rest(p) = <<>>
    BY <2>1, <2>2, RestEffect
  <2>4. answers' \in [Process -> Seq(Text)]
    <3>1. <<>> \in Seq(Text)
      OBVIOUS
    <3>. QED
      BY <1>0, <2>2, <2>3, <3>1 DEF TypeOK
  <2>5. CASE Initialized(w)
    BY <1>0, <2>4, <2>5 DEF Initialized, Goes, TypeOK, Places
  <2>6. CASE Receive(w)
    <3>1. /\ inbox' \in [Process -> Seq(Word)] /\ cas' \in [Worker -> Process \cup {None}]
          /\ evaluations' \in [Worker -> Nat]
      <4>1. CASE MaxEvaluations # 0 /\ evaluations[w] + 1 > MaxEvaluations
        BY <1>0, <2>1, <2>3, <2>6, <4>1, FinishTypes DEF Receive
      <4>2. CASE ~(MaxEvaluations # 0 /\ evaluations[w] + 1 > MaxEvaluations)
        <5>1. /\ evaluations' = [evaluations EXCEPT ![w] = IF MaxEvaluations = 0 THEN @ ELSE @ + 1]
              /\ inbox' = inbox /\ cas' = cas
          BY <2>6, <4>2 DEF Receive
        <5>. QED
          BY <1>0, <5>1 DEF TypeOK
      <4>. QED
        BY <4>1, <4>2
    <3>. QED
      BY <1>0, <2>4, <2>6, <3>1 DEF Receive, Goes, TypeOK, Places
  <2>. QED
    BY <1>8, <2>5, <2>6
<1>9. CASE Destroy(w)
  <2>1. /\ inbox' \in [Process -> Seq(Word)] /\ cas' \in [Worker -> Process \cup {None}]
        /\ evaluations' \in [Worker -> Nat]
    <3>1. CASE evaluations[w] # 0
      BY <1>0, <1>9, <3>1, OwnProcess, FinishTypes DEF Destroy
    <3>2. CASE evaluations[w] = 0
      BY <1>0, <1>9, <3>2 DEF Destroy, TypeOK
    <3>. QED
      BY <3>1, <3>2
  <2>. QED
    BY <1>0, <1>9, <2>1 DEF Destroy, Goes, TypeOK, Places
<1>. QED
  BY <1>1, <1>2, <1>3, <1>4, <1>5, <1>6, <1>7, <1>8, <1>9 DEF WorkerStep

\* And so does every step of a process.
LEMMA ProcessTypeStep ==
  ASSUME IInv, NEW p \in Process, ProcessStep(p) \/ Die(p)
  PROVE  TypeOK'
<1>0. TypeOK
  BY DEF IInv
<1>1. CASE Read(p)
  <2>1. CASE Ends(p)
    BY <1>0, <1>1, <2>1, EndsTypes DEF Read, TypeOK, workerVars
  <2>2. CASE ~Ends(p)
    <3>1. inbox[p] \in Seq(Word) /\ inbox[p] # <<>>
      BY <1>0, <1>1 DEF Read, TypeOK
    <3>2. Head(inbox[p]) \in Word /\ Tail(inbox[p]) \in Seq(Word)
      BY <3>1, HeadTailProperties
    <3>3. PICK word : word = Head(inbox[p])
      OBVIOUS
    <3>4. /\ word # "quit" /\ running' = running /\ holders' = holders
          /\ inbox' = [inbox EXCEPT ![p] = Tail(@)]
          /\ printing' = [printing EXCEPT ![p] =
               IF word = "sync" THEN <<"#", "0">>
               ELSE IF word = "symbols" THEN <<>> ELSE <<word>>]
      BY <1>1, <2>2, <3>3 DEF Read
    <3>5. (IF word = "sync" THEN <<"#", "0">> ELSE IF word = "symbols" THEN <<>> ELSE <<word>>)
            \in Seq(Text)
      <4>1. word \in Expression \/ word \in {"sync", "symbols"}
        BY <3>2, <3>3, <3>4 DEF Word
      <4>2. CASE word \in {"sync", "symbols"}
        <5>1. <<"#", "0">> \in Seq(Text) /\ <<>> \in Seq(Text)
          BY DEF Text
        <5>. QED
          BY <4>2, <5>1
      <4>3. CASE word \notin {"sync", "symbols"}
        <5>1. word \in Text
          BY <4>1, <4>3 DEF Text
        <5>. QED
          BY <4>3, <5>1
      <4>. QED
        BY <4>2, <4>3
    <3>6. inbox' \in [Process -> Seq(Word)] /\ printing' \in [Process -> Seq(Text)]
      BY <1>0, <3>2, <3>4, <3>5 DEF TypeOK
    <3>. QED
      BY <1>0, <1>1, <3>4, <3>6 DEF Read, TypeOK, workerVars
  <2>. QED
    BY <2>1, <2>2
<1>2. CASE Answer(p)
  <2>1. printing[p] \in Seq(Text) /\ printing[p] # <<>> /\ answers[p] \in Seq(Text)
    BY <1>0, <1>2 DEF Answer, TypeOK
  <2>2. Head(printing[p]) \in Text /\ Tail(printing[p]) \in Seq(Text)
    BY <2>1, HeadTailProperties
  <2>3. Append(answers[p], Head(printing[p])) \in Seq(Text)
    BY <2>1, <2>2, AppendProperties
  <2>4. answers' \in [Process -> Seq(Text)] /\ printing' \in [Process -> Seq(Text)]
    BY <1>0, <1>2, <2>2, <2>3 DEF Answer, TypeOK
  <2>. QED
    BY <1>0, <1>2, <2>4 DEF Answer, TypeOK, workerVars
<1>3. CASE Die(p)
  BY <1>0, <1>3, EndsTypes DEF Die, TypeOK, workerVars
<1>. QED
  BY <1>1, <1>2, <1>3 DEF ProcessStep

-----------------------------------------------------------------------------
(* The workers and the processes *)

\* The cases of a step of a worker.
WorkerAction(w) ==
  \/ \E x \in Expression : Take(w, x)
  \/ Pipe(w) \/ Fork(w) \/ Close(w) \/ Submit(w) \/ SyncRead(w) \/ SyncEnds(w)
  \/ Initialized(w) \/ Receive(w) \/ Destroy(w)

\* How it changes what the worker knows: only of itself, and step by step.
LEMMA WorkerMoves ==
  ASSUME TypeOK, NEW w \in Worker, WorkerAction(w)
  PROVE  /\ \A u \in Worker \ {w} : /\ wpc'[u] = wpc[u] /\ cas'[u] = cas[u]
                                    /\ evaluations'[u] = evaluations[u]
                                    /\ target'[u] = target[u] /\ text'[u] = text[u]
         /\ \/ \E x \in Expression :
                 /\ wpc[w] = "idle" /\ target'[w] = x
                 /\ wpc'[w] = IF evaluations[w] = 0 THEN "pipe" ELSE "submit"
                 /\ cas'[w] = cas[w] /\ evaluations'[w] = evaluations[w]
            \/ /\ wpc[w] = "pipe" /\ wpc'[w] = "fork" /\ cas'[w] \in Unused
               /\ evaluations'[w] = evaluations[w] /\ target'[w] = target[w]
            \/ /\ <<wpc[w], wpc'[w]>> \in {<<"fork", "close">>, <<"close", "sync">>,
                                           <<"submit", "sync">>, <<"sync", "waste">>}
               /\ cas'[w] = cas[w] /\ evaluations'[w] = evaluations[w] /\ target'[w] = target[w]
            \/ /\ wpc[w] = "waste" /\ wpc'[w] = "submit" /\ evaluations[w] = 0
               /\ cas'[w] = cas[w] /\ evaluations'[w] = 1 /\ target'[w] = target[w]
            \/ /\ wpc[w] = "waste" /\ wpc'[w] = "idle" /\ evaluations[w] # 0
               /\ cas'[w] = cas[w]
               /\ evaluations'[w] = IF MaxEvaluations = 0 THEN evaluations[w]
                                    ELSE evaluations[w] + 1
               /\ ~(MaxEvaluations # 0 /\ evaluations[w] + 1 > MaxEvaluations)
               /\ target'[w] = target[w]
            \/ /\ wpc[w] = "sync" /\ wpc'[w] = "pipe" /\ cas'[w] = None /\ evaluations'[w] = 0
               /\ target'[w] = target[w]
            \/ /\ <<wpc[w], wpc'[w]>> \in {<<"waste", "idle">>, <<"idle", "gone">>}
               /\ cas'[w] = None /\ evaluations'[w] = 0
            \/ /\ wpc[w] = "idle" /\ wpc'[w] = "gone" /\ evaluations[w] = 0
               /\ cas'[w] = cas[w] /\ evaluations'[w] = evaluations[w]
<1>1. CASE \E x \in Expression : Take(w, x)
  BY <1>1 DEF Take, Goes, TypeOK
<1>2. CASE Pipe(w)
  <2>1. PICK p \in Unused : cas' = [cas EXCEPT ![w] = p]
    BY <1>2 DEF Pipe
  <2>. QED
    BY <1>2, <2>1 DEF Pipe, Goes, TypeOK
<1>3. CASE Fork(w)
  BY <1>3 DEF Fork, Goes, TypeOK
<1>4. CASE Close(w)
  BY <1>4 DEF Close, Goes, TypeOK
<1>5. CASE Submit(w)
  BY <1>5 DEF Submit, Goes, TypeOK
<1>6. CASE SyncRead(w)
  BY <1>6 DEF SyncRead, Goes, TypeOK
<1>7. CASE SyncEnds(w)
  BY <1>7 DEF SyncEnds, Goes, Finish, TypeOK
<1>8. CASE Initialized(w)
  BY <1>8 DEF Initialized, Initializing, Goes, TypeOK
<1>9. CASE Receive(w)
  <2>1. CASE MaxEvaluations # 0 /\ evaluations[w] + 1 > MaxEvaluations
    BY <1>9, <2>1 DEF Receive, Initializing, Goes, Finish, TypeOK
  <2>2. CASE ~(MaxEvaluations # 0 /\ evaluations[w] + 1 > MaxEvaluations)
    BY <1>9, <2>2 DEF Receive, Initializing, Goes, TypeOK
  <2>. QED
    BY <2>1, <2>2
<1>10. CASE Destroy(w)
  BY <1>10 DEF Destroy, Goes, Finish, TypeOK
<1>. QED
  BY <1>1, <1>2, <1>3, <1>4, <1>5, <1>6, <1>7, <1>8, <1>9, <1>10 DEF WorkerAction

\* An unused process is a process that does not live and that nobody talks to.
LEMMA UnusedProcess ==
  ASSUME NEW p \in Unused
  PROVE  /\ p \in Process /\ p \notin running /\ p # None
         /\ \A u \in Worker : cas[u] # p
BY ProcessAssumption DEF Unused

\* The workers stay equipped for where they are.
LEMMA EquippedStep ==
  ASSUME IInv, NEW w \in Worker, WorkerAction(w)
  PROVE  Equipped'
<1>0. TypeOK /\ Equipped
  BY DEF IInv
<1>. SUFFICES ASSUME NEW u \in Worker
              PROVE  /\ cas'[u] = None <=>
                          \/ wpc'[u] \in {"pipe", "gone"}
                          \/ (wpc'[u] = "idle" /\ evaluations'[u] = 0)
                     /\ wpc'[u] \in {"pipe", "fork", "close", "gone"} => evaluations'[u] = 0
                     /\ wpc'[u] = "submit" => evaluations'[u] # 0
                     /\ wpc'[u] \notin {"idle", "gone"} => target'[u] \in Expression
  BY DEF Equipped
<1>1. /\ cas[u] = None <=>
           \/ wpc[u] \in {"pipe", "gone"}
           \/ (wpc[u] = "idle" /\ evaluations[u] = 0)
      /\ wpc[u] \in {"pipe", "fork", "close", "gone"} => evaluations[u] = 0
      /\ wpc[u] = "submit" => evaluations[u] # 0
      /\ wpc[u] \notin {"idle", "gone"} => target[u] \in Expression
  BY <1>0 DEF Equipped
<1>2. CASE u # w
  BY <1>0, <1>1, <1>2, WorkerMoves
<1>3. CASE u = w
  <2>1. evaluations[w] \in Nat
    BY <1>0 DEF TypeOK
  <2>. QED
    BY <1>0, <1>1, <1>3, <2>1, WorkerMoves, UnusedProcess
<1>. QED
  BY <1>2, <1>3

\* No two workers come to talk to the same process.
LEMMA DistinctStep ==
  ASSUME IInv, NEW w \in Worker, WorkerAction(w)
  PROVE  Distinct'
<1>0. TypeOK /\ Distinct
  BY DEF IInv
<1>1. \A u \in Worker \ {w} : cas'[u] = cas[u]
  BY <1>0, WorkerMoves
<1>2. cas'[w] \in {cas[w], None} \/ cas'[w] \in Unused
  BY <1>0, WorkerMoves
<1>3. ASSUME NEW u \in Worker, NEW v \in Worker, cas'[u] = cas'[v], cas'[u] # None
      PROVE  u = v
  <2>1. CASE cas'[w] \in {cas[w], None}
    BY <1>0, <1>1, <1>3, <2>1 DEF Distinct
  <2>2. CASE cas'[w] \in Unused
    BY <1>0, <1>1, <1>3, <2>2, UnusedProcess DEF Distinct
  <2>. QED
    BY <1>2, <2>1, <2>2
<1>. QED
  BY <1>3 DEF Distinct

\* A process has its own end open as long as it lives.
LEMMA HoldsOwnStep ==
  ASSUME IInv, NEW w \in Worker, WorkerAction(w)
  PROVE  HoldsOwn'
<1>0. TypeOK /\ Equipped /\ Distinct /\ HoldsOwn
  BY DEF IInv
<1>1. \A u \in Worker \ {w} : wpc'[u] = wpc[u] /\ cas'[u] = cas[u]
  BY <1>0, WorkerMoves
<1>2. \A u \in Worker : wpc[u] = "fork" => cas[u] \in Process /\ Parent \in holders[cas[u]]
                                             /\ cas[u] \notin running
  BY <1>0, OwnProcess DEF HoldsOwn
<1>3. CASE Pipe(w)
  <2>1. PICK p \in Unused : cas' = [cas EXCEPT ![w] = p] /\ holders' = [holders EXCEPT ![p] = {Parent}]
    BY <1>3 DEF Pipe
  <2>2. p \in Process /\ p \notin running /\ \A u \in Worker : cas[u] # p
    BY <2>1, UnusedProcess
  <2>3. running' = running /\ cas'[w] = p /\ holders'[p] = {Parent}
    BY <1>0, <1>3, <2>1, <2>2 DEF Pipe, TypeOK
  <2>4. \A q \in Process \ {p} : holders'[q] = holders[q]
    BY <1>0, <2>1, <2>2 DEF TypeOK
  <2>5. \A q \in running' : q \in holders'[q]
    BY <1>0, <2>2, <2>3, <2>4 DEF HoldsOwn, TypeOK
  <2>6. ASSUME NEW u \in Worker, wpc'[u] = "fork"
        PROVE  cas'[u] \notin running' /\ Parent \in holders'[cas'[u]]
    BY <1>1, <1>2, <2>2, <2>3, <2>4, <2>6
  <2>. QED
    BY <2>5, <2>6 DEF HoldsOwn
<1>4. CASE Fork(w)
  <2>1. /\ running' = running \cup {cas[w]} /\ cas' = cas /\ wpc[w] = "fork" /\ wpc'[w] = "close"
        /\ \A q \in Process : holders'[q] = IF Parent \in holders[q] THEN holders[q] \cup {cas[w]}
                                            ELSE holders[q]
    BY <1>0, <1>4 DEF Fork, Goes, TypeOK
  <2>2. ASSUME NEW q \in running' PROVE q \in holders'[q]
    <3>1. cas[w] \in Process /\ Parent \in holders[cas[w]]
      BY <1>2, <2>1
    <3>2. CASE q \in running
      <4>1. q \in Process /\ q \in holders[q]
        BY <1>0, <3>2 DEF HoldsOwn, TypeOK
      <4>. QED
        BY <2>1, <4>1
    <3>3. CASE q = cas[w]
      BY <2>1, <3>1, <3>3
    <3>. QED
      BY <2>1, <2>2, <3>2, <3>3
  <2>3. ASSUME NEW u \in Worker, wpc'[u] = "fork"
        PROVE  cas'[u] \notin running' /\ Parent \in holders'[cas'[u]]
    <3>1. u # w /\ wpc[u] = "fork"
      BY <1>1, <2>1, <2>3
    <3>2. cas[u] # cas[w] /\ cas[u] \in Process
      BY <1>0, <1>2, <2>1, <3>1, ProcessAssumption DEF Distinct
    <3>. QED
      BY <1>2, <2>1, <3>1, <3>2
  <2>. QED
    BY <2>2, <2>3 DEF HoldsOwn
<1>5. CASE Close(w)
  <2>1. /\ cas' = cas /\ running' = running /\ wpc[w] = "close" /\ wpc'[w] = "sync"
        /\ holders' = [holders EXCEPT ![cas[w]] = @ \ {Parent}] /\ cas[w] \in Process
    BY <1>0, <1>5, OwnProcess DEF Close, Goes, TypeOK
  <2>2. \A q \in running' : q \in holders'[q]
    BY <1>0, <2>1, ProcessAssumption DEF HoldsOwn, TypeOK
  <2>3. ASSUME NEW u \in Worker, wpc'[u] = "fork"
        PROVE  cas'[u] \notin running' /\ Parent \in holders'[cas'[u]]
    <3>1. u # w /\ wpc[u] = "fork"
      BY <1>1, <2>1, <2>3
    <3>2. cas[u] # cas[w] /\ cas[u] \in Process
      BY <1>0, <1>2, <2>1, <3>1, ProcessAssumption DEF Distinct
    <3>. QED
      BY <1>0, <1>2, <2>1, <3>1, <3>2 DEF TypeOK
  <2>. QED
    BY <2>2, <2>3 DEF HoldsOwn
<1>6. CASE \/ \E x \in Expression : Take(w, x)
           \/ Submit(w) \/ SyncRead(w) \/ SyncEnds(w) \/ Initialized(w) \/ Receive(w) \/ Destroy(w)
  <2>1. running' = running /\ holders' = holders
    BY <1>6 DEF Take, Submit, SyncRead, SyncEnds, Initialized, Receive, Destroy, processVars
  <2>2. wpc'[w] # "fork"
    BY <1>0, <1>6 DEF Take, Submit, SyncRead, SyncEnds, Initialized, Receive, Destroy, Goes, TypeOK
  <2>. QED
    BY <1>0, <1>1, <2>1, <2>2 DEF HoldsOwn
<1>. QED
  BY <1>3, <1>4, <1>5, <1>6 DEF WorkerAction

LEMMA HoldsOwnProcessStep ==
  ASSUME IInv, NEW p \in Process, ProcessStep(p) \/ Die(p)
  PROVE  HoldsOwn'
<1>0. TypeOK /\ Equipped /\ HoldsOwn
  BY DEF IInv
<1>1. wpc' = wpc /\ cas' = cas
  BY DEF ProcessStep, Read, Answer, Die, workerVars
<1>2. CASE Ends(p)
  <2>1. \A u \in Worker : wpc[u] = "fork" => cas[u] \in Process
    BY <1>0, OwnProcess
  <2>. QED
    BY <1>0, <1>1, <1>2, <2>1, ProcessAssumption DEF Ends, HoldsOwn, TypeOK
<1>3. CASE running' = running /\ holders' = holders
  BY <1>0, <1>1, <1>3 DEF HoldsOwn
<1>. QED
  BY <1>2, <1>3 DEF ProcessStep, Read, Answer, Die

\* What does not live stays silent: nothing is written to it.
LEMMA SilentStep ==
  ASSUME IInv, NEW w \in Worker, WorkerAction(w)
  PROVE  Silent'
<1>0. TypeOK /\ Equipped /\ Silent
  BY DEF IInv
<1>1. printing' = printing /\ running \subseteq running'
  BY DEF WorkerAction, Take, Pipe, Fork, Close, Submit, SyncRead, SyncEnds, Initialized, Receive,
         Destroy, processVars
<1>2. \/ inbox' = inbox
      \/ \E words \in Seq(Word) : inbox' = Submitted(cas[w], words) /\ cas[w] \in Process
  <2>1. CASE Close(w)
    BY <1>0, <2>1, Words, OwnProcess DEF Close, Goes
  <2>2. CASE Submit(w)
    <3>1. cas[w] \in Process /\ target[w] \in Expression
      BY <1>0, <2>2, OwnProcess DEF Submit, Goes, Equipped
    <3>. QED
      BY <2>2, <3>1, Words DEF Submit
  <2>3. CASE Finish(w) /\ cas[w] \in Process
    BY <2>3, Words DEF Finish
  <2>4. CASE SyncEnds(w)
    BY <1>0, <2>3, <2>4, OwnProcess DEF SyncEnds, Goes
  <2>5. CASE Receive(w)
    BY <1>0, <2>3, <2>5, OwnProcess DEF Receive, Goes
  <2>6. CASE Destroy(w)
    BY <1>0, <2>3, <2>6, OwnProcess DEF Destroy
  <2>7. CASE \/ \E x \in Expression : Take(w, x)
             \/ Pipe(w) \/ Fork(w) \/ SyncRead(w) \/ Initialized(w)
    BY <2>7 DEF Take, Pipe, Fork, SyncRead, Initialized, processVars
  <2>. QED
    BY <2>1, <2>2, <2>4, <2>5, <2>6, <2>7 DEF WorkerAction
<1>3. ASSUME NEW q \in Process \ running PROVE inbox'[q] = inbox[q]
  <2>1. CASE inbox' = inbox
    BY <2>1
  <2>2. CASE inbox' # inbox
    <3>1. PICK words \in Seq(Word) : inbox' = Submitted(cas[w], words) /\ cas[w] \in Process
      BY <1>2, <2>2
    <3>2. PICK p \in Process : p = cas[w]
      BY <3>1
    <3>3. inbox' = Submitted(p, words) /\ TypeOK
      BY <1>0, <3>1, <3>2
    <3>4. PICK box : box = Submitted(p, words)
      OBVIOUS
    <3>5. /\ \A r \in Process \ {p} : box[r] = inbox[r]
          /\ box[p] = IF p \in running THEN inbox[p] \o words ELSE inbox[p]
      BY <3>3, <3>4, SubmittedInbox
    <3>. QED
      BY <1>3, <3>3, <3>4, <3>5
  <2>. QED
    BY <2>1, <2>2
<1>. QED
  BY <1>0, <1>1, <1>3 DEF Silent

LEMMA SilentProcessStep ==
  ASSUME IInv, NEW p \in Process, ProcessStep(p) \/ Die(p)
  PROVE  Silent'
<1>0. TypeOK /\ Silent
  BY DEF IInv
<1>1. CASE Ends(p)
  BY <1>0, <1>1 DEF Ends, Silent, TypeOK
<1>2. CASE ~Ends(p)
  <2>1. /\ running' = running /\ p \in running
        /\ \A q \in Process \ {p} : inbox'[q] = inbox[q] /\ printing'[q] = printing[q]
    BY <1>0, <1>2 DEF ProcessStep, Read, Answer, Die, TypeOK
  <2>. QED
    BY <1>0, <2>1 DEF Silent
<1>. QED
  BY <1>1, <1>2

\* The evaluations of a process are counted as it is given them.
LEMMA CountedStep ==
  ASSUME IInv, NEW w \in Worker, WorkerAction(w)
  PROVE  Counted'
<1>0. TypeOK /\ Equipped /\ Distinct /\ Counted
  BY DEF IInv
<1>. DEFINE Count(u) == IF evaluations[u] = 0 \/ wpc[u] \in {"sync", "waste"}
                        THEN evaluations[u] ELSE evaluations[u] - 1
            CountNext(u) == IF evaluations'[u] = 0 \/ wpc'[u] \in {"sync", "waste"}
                            THEN evaluations'[u] ELSE evaluations'[u] - 1
<1>. SUFFICES ASSUME MaxEvaluations # 0, NEW u \in Worker
              PROVE  /\ evaluations'[u] <= MaxEvaluations
                     /\ cas'[u] # None => served'[cas'[u]] = CountNext(u)
  BY DEF Counted
<1>1. /\ evaluations[u] <= MaxEvaluations /\ (cas[u] # None => served[cas[u]] = Count(u))
      /\ evaluations[u] \in Nat /\ MaxEvaluations \in Nat
      /\ cas[u] \in Process \cup {None} /\ cas[w] \in Process \cup {None}
  BY <1>0, CycleAssumption DEF Counted, TypeOK
<1>2. /\ u # w => wpc'[u] = wpc[u] /\ cas'[u] = cas[u] /\ evaluations'[u] = evaluations[u]
      /\ u # w /\ cas[u] # None => cas[u] # cas[w]
  BY <1>0, WorkerMoves DEF Distinct
<1>3. CASE Pipe(w)
  <2>1. PICK p \in Unused : cas' = [cas EXCEPT ![w] = p] /\ served' = [served EXCEPT ![p] = 0]
    BY <1>3 DEF Pipe
  <2>2. p \in Process /\ cas[u] # p
    BY <2>1, UnusedProcess
  <2>3. CASE u = w
    <3>1. cas'[u] = p /\ served'[p] = 0 /\ evaluations'[u] = 0
      BY <1>0, <1>3, <2>1, <2>2, <2>3 DEF Pipe, Goes, TypeOK, Equipped
    <3>. QED
      BY <1>1, <3>1
  <2>4. CASE u # w
    <3>1. cas[u] # None => served'[cas[u]] = served[cas[u]]
      BY <1>0, <1>1, <2>1, <2>2 DEF TypeOK
    <3>. QED
      BY <1>1, <1>2, <2>4, <3>1
  <2>. QED
    BY <2>3, <2>4
<1>4. CASE Submit(w)
  <2>1. /\ served' = [served EXCEPT ![cas[w]] = @ + 1] /\ cas' = cas /\ evaluations' = evaluations
        /\ cas[w] \in Process /\ wpc[w] = "submit" /\ wpc'[w] = "sync"
    BY <1>0, <1>4, OwnProcess DEF Submit, Goes, TypeOK
  <2>2. CASE u = w
    <3>1. served'[cas[u]] = served[cas[u]] + 1 /\ evaluations[u] # 0 /\ cas[u] # None
      BY <1>0, <2>1, <2>2, ProcessAssumption DEF TypeOK, Equipped
    <3>2. served'[cas[u]] = evaluations[u]
      BY <1>1, <2>1, <2>2, <3>1
    <3>. QED
      BY <1>1, <2>1, <2>2, <3>2
  <2>3. CASE u # w
    <3>1. cas[u] # None => served'[cas[u]] = served[cas[u]]
      BY <1>0, <1>1, <1>2, <2>1, <2>3 DEF TypeOK
    <3>. QED
      BY <1>1, <1>2, <2>1, <2>3, <3>1
  <2>. QED
    BY <2>2, <2>3
<1>5. CASE \/ \E x \in Expression : Take(w, x)
           \/ Fork(w) \/ Close(w) \/ SyncRead(w) \/ SyncEnds(w) \/ Initialized(w) \/ Receive(w)
           \/ Destroy(w)
  <2>1. served' = served
    BY <1>5 DEF Take, Fork, Close, SyncRead, SyncEnds, Initialized, Receive, Destroy, processVars
  <2>2. wpc'[w] # "fork" /\ ~(wpc[w] = "submit")
    BY <1>0, <1>5 DEF Take, Fork, Close, SyncRead, SyncEnds, Initialized, Receive, Destroy, Goes,
                      TypeOK
  <2>3. CASE u # w
    BY <1>1, <1>2, <2>1, <2>3
  <2>4. CASE u = w
    <3>1. /\ wpc[w] \in {"fork", "close"} => evaluations[w] = 0
          /\ wpc[w] = "idle" => (cas[w] = None <=> evaluations[w] = 0)
          /\ wpc[w] = "waste" => cas[w] # None
      BY <1>0 DEF Equipped
    <3>2. /\ evaluations'[w] \in {0, evaluations[w], evaluations[w] + 1}
          /\ evaluations'[w] <= MaxEvaluations
          /\ cas'[w] # None => cas'[w] = cas[w] /\ CountNext(w) = Count(w)
      BY <1>0, <1>1, <2>2, <2>4, <3>1, WorkerMoves, CycleAssumption
    <3>. HIDE DEF Count, CountNext
    <3>. QED
      BY <1>1, <2>1, <2>4, <3>2
  <2>. QED
    BY <2>3, <2>4
<1>. QED
  BY <1>3, <1>4, <1>5 DEF WorkerAction

-----------------------------------------------------------------------------
(* The conversations *)

\* How a step of a worker changes what it says to its process.
LEMMA WorkerTalk ==
  ASSUME IInv, NEW w \in Worker, WorkerAction(w), NEW q \in Process, q # cas[w], q \notin Unused
  PROVE  State(q)' = State(q) /\ (q \in running' <=> q \in running)
<1>0. TypeOK /\ Equipped
  BY DEF IInv
<1>1. running' \in {running, running \cup {cas[w]}} /\ printing' = printing
  BY DEF WorkerAction, Take, Pipe, Fork, Close, Submit, SyncRead, SyncEnds, Initialized, Receive,
         Destroy, processVars
<1>2. answers'[q] = answers[q]
  <2>1. CASE Pipe(w)
    BY <1>0, <2>1 DEF Pipe, TypeOK
  <2>2. CASE ~Pipe(w)
    BY <1>0, <2>2 DEF WorkerAction, Take, Fork, Close, Submit, SyncRead, SyncEnds, Initialized,
                      Receive, Destroy, processVars, TypeOK
  <2>. QED
    BY <2>1, <2>2
<1>3. inbox'[q] = inbox[q]
  <2>1. inbox' = inbox \/ \E words : inbox' = Submitted(cas[w], words)
    BY DEF WorkerAction, Take, Pipe, Fork, Close, Submit, SyncRead, SyncEnds, Initialized, Receive,
           Destroy, processVars, Finish
  <2>. QED
    BY <1>0, <2>1 DEF Submitted, TypeOK
<1>. QED
  BY <1>1, <1>2, <1>3 DEF State

\* The conversation of another worker goes on undisturbed.
LEMMA OthersUndisturbed ==
  ASSUME IInv, NEW w \in Worker, WorkerAction(w), NEW u \in Worker, u # w, NEW q, q = cas[u],
         q # None
  PROVE  /\ State(q)' = State(q) /\ (q \in running' <=> q \in running) /\ cas'[u] = q
         /\ wpc'[u] = wpc[u] /\ text'[u] = text[u] /\ evaluations'[u] = evaluations[u]
         /\ Asked(u)' = Asked(u) /\ Answered(u)' = Answered(u)
<1>0. TypeOK /\ Distinct
  BY DEF IInv
<1>1. q \in Process /\ q # cas[w] /\ q \notin Unused
  BY <1>0 DEF TypeOK, Distinct, Unused
<1>2. State(q)' = State(q) /\ (q \in running' <=> q \in running)
  BY <1>1, WorkerTalk
<1>3. /\ wpc'[u] = wpc[u] /\ cas'[u] = cas[u] /\ evaluations'[u] = evaluations[u]
      /\ target'[u] = target[u] /\ text'[u] = text[u]
  BY <1>0, WorkerMoves
<1>. QED
  BY <1>2, <1>3 DEF Asked, Answered, Initializing

\* What is written to a process at rest.
LEMMA Spoken ==
  ASSUME IInv, NEW p \in Process, State(p) = << <<>>, <<>>, <<>> >>, NEW f, NEW v,
         <<f, "sync">> \in Seq(Word), inbox' = Submitted(p, <<f, "sync">>), answers' = answers,
         printing' = printing, running' = running
  PROVE  \/ State(p)' \in Stages(f, v)
         \/ p \notin running' /\ answers'[p] \in Remains(v)
<1>0. TypeOK /\ answers[p] = <<>> /\ printing[p] = <<>> /\ inbox[p] = <<>>
  BY StateOf DEF IInv
<1>1. CASE p \in running
  <2>1. inbox'[p] = <<>> \o <<f, "sync">>
    BY <1>0, <1>1 DEF Submitted, TypeOK
  <2>2. inbox'[p] = <<f, "sync">>
    BY <2>1, ConcatEmptySeq
  <2>3. State(p)' = << <<>>, <<>>, <<f, "sync">> >>
    BY <1>0, <2>2 DEF State
  <2>. QED
    BY <2>3 DEF Stages
<1>2. CASE p \notin running
  BY <1>0, <1>2 DEF Remains
<1>. QED
  BY <1>1, <1>2

\* Nothing is left before an expression is submitted.
LEMMA QuietStep ==
  ASSUME IInv, NEW w \in Worker, WorkerAction(w), Equipped'
  PROVE  Quiet'
<1>0. TypeOK /\ Equipped /\ Silent /\ Quiet
  BY DEF IInv
<1>. SUFFICES ASSUME NEW u \in Worker,
                     wpc'[u] \in {"fork", "close", "submit"}
                       \/ (wpc'[u] = "idle" /\ evaluations'[u] # 0)
              PROVE  State(cas[u])' = << <<>>, <<>>, <<>> >>
  BY DEF Quiet, State
<1>1. wpc[u] \in {"fork", "close", "submit"} \/ (wpc[u] = "idle" /\ evaluations[u] # 0)
        => State(cas[u]) = << <<>>, <<>>, <<>> >> /\ cas[u] \in Process
  BY <1>0, OwnProcess DEF Quiet
<1>2. CASE u # w
  <2>1. wpc'[u] = wpc[u] /\ evaluations'[u] = evaluations[u]
    BY <1>0, <1>2, WorkerMoves
  <2>2. PICK q : q = cas[u]
    OBVIOUS
  <2>3. q # None
    BY <1>1, <2>1, <2>2, ProcessAssumption
  <2>4. State(q)' = State(q) /\ cas'[u] = q
    BY <1>2, <2>2, <2>3, OthersUndisturbed
  <2>. QED
    BY <1>1, <2>1, <2>2, <2>4 DEF State
<1>3. CASE u = w
  <2>1. CASE Pipe(w)
    <3>1. PICK p \in Unused : cas' = [cas EXCEPT ![w] = p] /\ answers' = [answers EXCEPT ![p] = <<>>]
      BY <2>1 DEF Pipe
    <3>2. p \in Process /\ p \notin running
      BY <3>1, UnusedProcess
    <3>3. cas'[w] = p /\ answers'[p] = <<>> /\ inbox' = inbox /\ printing' = printing
      BY <1>0, <2>1, <3>1, <3>2 DEF Pipe, TypeOK
    <3>4. inbox[p] = <<>> /\ printing[p] = <<>>
      BY <1>0, <3>2 DEF Silent
    <3>. QED
      BY <1>3, <3>3, <3>4 DEF State
  <2>2. CASE Fork(w) \/ \E x \in Expression : Take(w, x)
    <3>1. cas' = cas /\ answers' = answers /\ inbox' = inbox /\ printing' = printing
      BY <2>2 DEF Fork, Take, processVars
    <3>2. wpc[w] = "fork" \/ (wpc[w] = "idle" /\ evaluations[w] # 0)
      BY <1>0, <1>3, <2>2 DEF Fork, Take, Goes, TypeOK
    <3>. QED
      BY <1>1, <1>3, <3>1, <3>2 DEF State
  <2>3. CASE Initialized(w) \/ Receive(w)
    <3>1. PICK p : p = cas[w]
      OBVIOUS
    <3>2. wpc[w] = "waste" /\ (Ready(p, "0") \/ AtEnd(p, "0"))
            /\ answers' = [answers EXCEPT ![p] = Rest(p)] /\ printing' = printing
      BY <2>3, <3>1 DEF Initialized, Receive, Goes
    <3>3. p \in Process /\ Rest(p) = <<>> /\ printing[p] = <<>> /\ inbox[p] = <<>>
      BY <3>1, <3>2, RestEffect
    <3>4. evaluations'[w] # 0
      <4>1. wpc'[w] \in {"submit", "idle"}
        BY <1>0, <2>3 DEF Initialized, Receive, Goes, TypeOK
      <4>. QED
        BY <1>3, <4>1 DEF Equipped
    <3>5. inbox' = inbox /\ cas' = cas
      <4>1. ~Finish(w)
        BY <1>0, <3>4 DEF Finish, TypeOK
      <4>. QED
        BY <2>3, <4>1 DEF Initialized, Receive
    <3>6. answers'[p] = <<>>
      BY <1>0, <3>2, <3>3 DEF TypeOK
    <3>. QED
      BY <1>3, <3>1, <3>2, <3>3, <3>5, <3>6 DEF State
  <2>4. CASE Close(w) \/ Submit(w) \/ SyncRead(w) \/ SyncEnds(w) \/ Destroy(w)
    BY <1>0, <1>3, <2>4 DEF Close, Submit, SyncRead, SyncEnds, Destroy, Goes, TypeOK
  <2>. QED
    BY <2>1, <2>2, <2>3, <2>4 DEF WorkerAction
<1>. QED
  BY <1>2, <1>3

\* What the worker waits for is the answer to what it asked.
LEMMA SyncingStep ==
  ASSUME IInv, NEW w \in Worker, WorkerAction(w)
  PROVE  Syncing'
<1>0. TypeOK /\ Equipped /\ Quiet /\ Syncing
  BY DEF IInv
<1>. SUFFICES ASSUME NEW u \in Worker, wpc'[u] = "sync"
              PROVE  \/ State(cas[u])' \in Stages(Asked(u)', Answered(u)')
                     \/ cas'[u] \notin running' /\ answers'[cas'[u]] \in Remains(Answered(u)')
  BY DEF Syncing, State, Stages, Remains
<1>1. CASE u # w
  <2>1. wpc[u] = "sync"
    BY <1>0, <1>1, WorkerMoves
  <2>2. PICK q : q = cas[u]
    OBVIOUS
  <2>3. q # None
    BY <1>0, <2>1, <2>2, OwnProcess, ProcessAssumption
  <2>4. /\ State(q)' = State(q) /\ (q \in running' <=> q \in running) /\ cas'[u] = q
        /\ Asked(u)' = Asked(u) /\ Answered(u)' = Answered(u)
    BY <1>1, <2>2, <2>3, OthersUndisturbed
  <2>5. \/ State(q) \in Stages(Asked(u), Answered(u))
        \/ q \notin running /\ answers[q] \in Remains(Answered(u))
    BY <1>0, <2>1, <2>2 DEF Syncing
  <2>6. answers'[q] = answers[q]
    BY <2>4 DEF State
  <2>. QED
    BY <2>4, <2>5, <2>6 DEF State
<1>2. CASE u = w
  <2>1. Close(w) \/ Submit(w)
    BY <1>0, <1>2 DEF WorkerAction, Take, Pipe, Fork, Close, Submit, SyncRead, SyncEnds,
                      Initialized, Receive, Destroy, Goes, TypeOK
  <2>2. PICK p, f, v : p = cas[w] /\ f = Asked(w) /\ v = Answered(w)
    OBVIOUS
  <2>3. /\ wpc[w] \in {"close", "submit"} /\ cas' = cas /\ evaluations' = evaluations
        /\ target' = target /\ answers' = answers /\ printing' = printing /\ running' = running
        /\ inbox' = Submitted(p, <<f, "sync">>)
    BY <1>0, <2>1, <2>2 DEF Close, Submit, Goes, Asked, Initializing, Equipped
  <2>4. p \in Process /\ State(p) = << <<>>, <<>>, <<>> >>
    BY <1>0, <2>2, <2>3, OwnProcess DEF Quiet
  <2>5. <<f, "sync">> \in Seq(Word)
    BY <1>0, <2>2, <2>3, Words DEF Asked, Equipped
  <2>6. \/ State(p)' \in Stages(f, v)
        \/ p \notin running' /\ answers'[p] \in Remains(v)
    BY <2>3, <2>4, <2>5, Spoken
  <2>7. Asked(w)' = f /\ Answered(w)' = v /\ cas'[w] = p
    BY <2>2, <2>3 DEF Asked, Answered, Initializing
  <2>. QED
    BY <1>2, <2>6, <2>7 DEF State
<1>. QED
  BY <1>1, <1>2

\* And then for the second delimiter.
LEMMA WastingStep ==
  ASSUME IInv, NEW w \in Worker, WorkerAction(w)
  PROVE  Wasting'
<1>0. TypeOK /\ Equipped /\ Wasting
  BY DEF IInv
<1>. SUFFICES ASSUME NEW u \in Worker, wpc'[u] = "waste"
              PROVE  /\ text'[u] = Answered(u)'
                     /\ \/ State(cas[u])' \in {<< <<>>, <<"0">>, <<>> >>, << <<"0">>, <<>>, <<>> >>}
                        \/ cas'[u] \notin running' /\ answers'[cas'[u]] = <<>>
  BY DEF Wasting, State
<1>1. CASE u # w
  <2>1. wpc[u] = "waste"
    BY <1>0, <1>1, WorkerMoves
  <2>2. PICK q : q = cas[u]
    OBVIOUS
  <2>3. q # None
    BY <1>0, <2>1, <2>2, OwnProcess, ProcessAssumption
  <2>4. /\ State(q)' = State(q) /\ (q \in running' <=> q \in running) /\ cas'[u] = q
        /\ text'[u] = text[u] /\ Answered(u)' = Answered(u)
    BY <1>1, <2>2, <2>3, OthersUndisturbed
  <2>5. /\ text[u] = Answered(u)
        /\ \/ State(q) \in {<< <<>>, <<"0">>, <<>> >>, << <<"0">>, <<>>, <<>> >>}
           \/ q \notin running /\ answers[q] = <<>>
    BY <1>0, <2>1, <2>2 DEF Wasting
  <2>6. answers'[q] = answers[q]
    BY <2>4 DEF State
  <2>. QED
    BY <2>4, <2>5, <2>6 DEF State
<1>2. CASE u = w
  <2>1. SyncRead(w)
    BY <1>0, <1>2 DEF WorkerAction, Take, Pipe, Fork, Close, Submit, SyncRead, SyncEnds,
                      Initialized, Receive, Destroy, Goes, TypeOK
  <2>2. PICK p : p = cas[w]
    OBVIOUS
  <2>3. /\ p \in Process /\ text'[w] = Answered(w)
        /\ answers' = [answers EXCEPT ![p] = After(p, "#")]
        /\ \/ After(p, "#") = <<>> /\ printing[p] = <<"0">> /\ inbox[p] = <<>>
           \/ After(p, "#") = <<"0">> /\ printing[p] = <<>> /\ inbox[p] = <<>>
           \/ p \notin running /\ After(p, "#") = <<>>
    BY <2>1, <2>2, SyncReadEffect
  <2>4. /\ cas' = cas /\ evaluations' = evaluations /\ target' = target /\ running' = running
        /\ inbox' = inbox /\ printing' = printing
    BY <2>1 DEF SyncRead
  <2>5. Answered(w)' = Answered(w) /\ cas'[w] = p
    BY <2>2, <2>4 DEF Answered, Initializing
  <2>6. answers'[p] = After(p, "#")
    BY <1>0, <2>3 DEF TypeOK
  <2>7. \/ State(p)' = << <<>>, <<"0">>, <<>> >>
        \/ State(p)' = << <<"0">>, <<>>, <<>> >>
        \/ p \notin running' /\ answers'[p] = <<>>
    BY <2>3, <2>4, <2>6 DEF State
  <2>. QED
    BY <1>2, <2>3, <2>5, <2>7 DEF State
<1>. QED
  BY <1>1, <1>2

\* How a step of a process changes the conversation: only its own.
LEMMA ProcessTalk ==
  ASSUME TypeOK, NEW p \in Process, ProcessStep(p) \/ Die(p)
  PROVE  /\ wpc' = wpc /\ target' = target /\ evaluations' = evaluations /\ cas' = cas
         /\ text' = text /\ served' = served
         /\ \A q \in Process \ {p} : /\ answers'[q] = answers[q] /\ printing'[q] = printing[q]
                                     /\ inbox'[q] = inbox[q] /\ (q \in running' <=> q \in running)
         /\ p \in running
         /\ \/ Read(p) /\ ~Ends(p)
            \/ Answer(p)
            \/ /\ answers'[p] = answers[p] /\ printing'[p] = <<>> /\ inbox'[p] = <<>>
               /\ p \notin running'
<1>1. CASE Answer(p)
  BY <1>1 DEF Answer, TypeOK, workerVars
<1>2. CASE Ends(p) /\ (Read(p) \/ Die(p))
  BY <1>2 DEF Read, Die, Ends, TypeOK, workerVars
<1>3. CASE Read(p) /\ ~Ends(p)
  BY <1>3 DEF Read, TypeOK, workerVars
<1>. QED
  BY <1>1, <1>2, <1>3 DEF ProcessStep, Die

\* A conversation keeps its form whatever the process does.
LEMMA TalkProcessStep ==
  ASSUME IInv, NEW p \in Process, ProcessStep(p) \/ Die(p)
  PROVE  Quiet' /\ Syncing' /\ Wasting'
<1>0. TypeOK /\ Equipped /\ Quiet /\ Syncing /\ Wasting
  BY DEF IInv
<1>1. /\ wpc' = wpc /\ target' = target /\ evaluations' = evaluations /\ cas' = cas /\ text' = text
      /\ \A q \in Process \ {p} : /\ answers'[q] = answers[q] /\ printing'[q] = printing[q]
                                  /\ inbox'[q] = inbox[q] /\ (q \in running' <=> q \in running)
      /\ p \in running
      /\ \/ Read(p) /\ ~Ends(p)
         \/ Answer(p)
         \/ /\ answers'[p] = answers[p] /\ printing'[p] = <<>> /\ inbox'[p] = <<>>
            /\ p \notin running'
  BY <1>0, ProcessTalk
<1>2. ASSUME NEW u \in Worker, wpc[u] \in {"fork", "close", "submit"}
                                 \/ (wpc[u] = "idle" /\ evaluations[u] # 0)
      PROVE  State(cas[u])' = << <<>>, <<>>, <<>> >>
  <2>1. PICK q : q = cas[u]
    OBVIOUS
  <2>2. q \in Process /\ State(q) = << <<>>, <<>>, <<>> >>
    BY <1>0, <1>2, <2>1, OwnProcess DEF Quiet
  <2>3. answers[q] = <<>> /\ printing[q] = <<>> /\ inbox[q] = <<>>
    BY <2>2, StateOf
  <2>4. CASE q # p
    BY <1>1, <2>1, <2>2, <2>3, <2>4 DEF State
  <2>5. CASE q = p
    <3>1. ~Read(p) /\ ~Answer(p)
      BY <2>3, <2>5 DEF Read, Answer
    <3>. QED
      BY <1>1, <2>1, <2>3, <2>5, <3>1 DEF State
  <2>. QED
    BY <2>4, <2>5
<1>3. ASSUME NEW u \in Worker, wpc[u] = "sync"
      PROVE  \/ State(cas[u])' \in Stages(Asked(u), Answered(u))
             \/ cas[u] \notin running' /\ answers'[cas[u]] \in Remains(Answered(u))
  <2>1. PICK q, f, v : q = cas[u] /\ f = Asked(u) /\ v = Answered(u)
    OBVIOUS
  <2>2. q \in Process /\ Question(f, v)
    BY <1>0, <1>3, <2>1, OwnProcess, AskedQuestion
  <2>3. State(q) \in Stages(f, v) \/ (q \notin running /\ answers[q] \in Remains(v))
    BY <1>0, <1>3, <2>1 DEF Syncing
  <2>4. State(q)' \in Stages(f, v) \/ (q \notin running' /\ answers'[q] \in Remains(v))
    <3>1. CASE q # p
      BY <1>1, <2>2, <2>3, <3>1 DEF State
    <3>2. CASE q = p
      <4>1. State(p) \in Stages(f, v)
        BY <1>1, <2>3, <3>2
      <4>2. answers[p] \in Remains(v)
        BY <4>1, StageRemains
      <4>3. CASE Read(p) /\ ~Ends(p)
        BY <1>0, <2>2, <3>2, <4>1, <4>3, ReadStage
      <4>4. CASE Answer(p)
        BY <1>0, <2>2, <3>2, <4>1, <4>4, AnswerStage
      <4>. QED
        BY <1>1, <3>2, <4>2, <4>3, <4>4
    <3>. QED
      BY <3>1, <3>2
  <2>5. State(cas[u])' = State(q)'
    BY <1>1, <2>1 DEF State
  <2>. QED
    BY <2>1, <2>4, <2>5
<1>4. ASSUME NEW u \in Worker, wpc[u] = "waste"
      PROVE  \/ State(cas[u])' \in {<< <<>>, <<"0">>, <<>> >>, << <<"0">>, <<>>, <<>> >>}
             \/ cas[u] \notin running' /\ answers'[cas[u]] = <<>>
  <2>1. PICK q : q = cas[u]
    OBVIOUS
  <2>2. q \in Process
    BY <1>0, <1>4, <2>1, OwnProcess
  <2>3. \/ State(q) = << <<>>, <<"0">>, <<>> >>
        \/ State(q) = << <<"0">>, <<>>, <<>> >>
        \/ q \notin running /\ answers[q] = <<>>
    BY <1>0, <1>4, <2>1 DEF Wasting
  <2>4. CASE q # p
    BY <1>1, <2>1, <2>2, <2>3, <2>4 DEF State
  <2>5. CASE q = p
    <3>1. \/ answers[p] = <<>> /\ printing[p] = <<"0">> /\ inbox[p] = <<>>
          \/ answers[p] = <<"0">> /\ printing[p] = <<>> /\ inbox[p] = <<>>
      <4>1. State(p) = << <<>>, <<"0">>, <<>> >> \/ State(p) = << <<"0">>, <<>>, <<>> >>
        BY <1>1, <2>3, <2>5
      <4>2. State(p) = << <<>>, <<"0">>, <<>> >> =>
              answers[p] = <<>> /\ printing[p] = <<"0">> /\ inbox[p] = <<>>
        BY DEF State
      <4>3. State(p) = << <<"0">>, <<>>, <<>> >> =>
              answers[p] = <<"0">> /\ printing[p] = <<>> /\ inbox[p] = <<>>
        BY DEF State
      <4>. QED
        BY <4>1, <4>2, <4>3
    <3>2. ~Read(p)
      BY <3>1 DEF Read
    <3>3. CASE Answer(p)
      <4>1. answers[p] = <<>> /\ printing[p] = <<"0">> /\ inbox[p] = <<>>
        BY <3>1, <3>3 DEF Answer
      <4>2. /\ inbox' = inbox /\ answers'[p] = Append(<<>>, Head(<<"0">>))
            /\ printing'[p] = Tail(<<"0">>)
        BY <1>0, <3>3, <4>1 DEF Answer, TypeOK
      <4>3. answers'[p] = <<"0">> /\ printing'[p] = <<>> /\ inbox'[p] = <<>>
        BY <4>1, <4>2
      <4>. QED
        BY <1>1, <2>1, <2>5, <4>3 DEF State
    <3>4. CASE /\ answers'[p] = answers[p] /\ printing'[p] = <<>> /\ inbox'[p] = <<>>
               /\ p \notin running'
      BY <1>1, <2>1, <2>5, <3>1, <3>4 DEF State
    <3>. QED
      BY <1>1, <3>2, <3>3, <3>4
  <2>. QED
    BY <2>4, <2>5
<1>5. Quiet'
  BY <1>1, <1>2 DEF Quiet
<1>6. Syncing'
  <2>1. \A u \in Worker : Asked(u)' = Asked(u) /\ Answered(u)' = Answered(u)
    BY <1>1 DEF Asked, Answered, Initializing
  <2>2. \A u, v : Stages(u, v)' = Stages(u, v) /\ Remains(v)' = Remains(v)
    BY DEF Stages, Remains
  <2>. QED
    BY <1>1, <1>3, <2>1, <2>2 DEF Syncing
<1>7. Wasting'
  <2>1. \A u \in Worker : Answered(u)' = Answered(u)
    BY <1>1 DEF Answered, Initializing
  <2>. QED
    BY <1>0, <1>1, <1>4, <2>1 DEF Wasting
<1>. QED
  BY <1>5, <1>6, <1>7

-----------------------------------------------------------------------------
(* The theorems *)

\* It holds at first.
LEMMA IInvInit ==
  ASSUME Init
  PROVE  IInv
<1>1. TypeOK
  <2>1. <<>> \in Seq(Word) /\ <<>> \in Seq(Text)
    OBVIOUS
  <2>. QED
    BY <2>1 DEF Init, TypeOK, Places
<1>2. Equipped /\ Distinct /\ HoldsOwn /\ Silent
  BY DEF Init, Equipped, Distinct, HoldsOwn, Silent
<1>3. Quiet /\ Syncing /\ Wasting /\ Counted
  BY CycleAssumption DEF Init, Quiet, Syncing, Wasting, Counted
<1>. QED
  BY <1>1, <1>2, <1>3 DEF IInv

\* Every step keeps it.
LEMMA IInvStep ==
  ASSUME IInv, [Next]_vars
  PROVE  IInv'
<1>1. ASSUME NEW w \in Worker, WorkerAction(w) PROVE IInv'
  <2>1. WorkerStep(w) \/ Destroy(w) \/ \E x \in Expression : Take(w, x)
    BY <1>1 DEF WorkerAction, WorkerStep
  <2>2. TypeOK' /\ Equipped'
    BY <1>1, <2>1, WorkerTypeStep, EquippedStep
  <2>. QED
    BY <1>1, <2>2, DistinctStep, HoldsOwnStep, SilentStep, QuietStep, SyncingStep, WastingStep,
       CountedStep DEF IInv
<1>2. ASSUME NEW p \in Process, ProcessStep(p) \/ Die(p) PROVE IInv'
  <2>1. TypeOK' /\ HoldsOwn' /\ Silent' /\ Quiet' /\ Syncing' /\ Wasting'
    BY <1>2, ProcessTypeStep, HoldsOwnProcessStep, SilentProcessStep, TalkProcessStep
  <2>2. Equipped' /\ Distinct' /\ Counted'
    BY <1>2, ProcessTalk DEF IInv, Equipped, Distinct, Counted
  <2>. QED
    BY <2>1, <2>2 DEF IInv
<1>3. CASE UNCHANGED vars
  BY <1>3 DEF vars, workerVars, processVars, IInv, TypeOK, Equipped, Distinct, HoldsOwn, Silent,
              Quiet, Syncing, Wasting, Counted, State, Asked, Answered, Initializing, Stages, Remains
<1>4. CASE Ended
  BY <1>3, <1>4 DEF Ended
<1>. QED
  BY <1>1, <1>2, <1>3, <1>4 DEF Next, WorkerAction, WorkerStep

\* The invariant holds in every state, whatever is evaluated, however many processes die
\* and whenever.
THEOREM Invariance == SafeSpec => []IInv
<1>1. Init => IInv
  BY IInvInit
<1>2. IInv /\ [Next]_vars => IInv'
  BY IInvStep
<1>. QED
  BY <1>1, <1>2, PTL DEF SafeSpec

\* Every variable keeps its type: in particular a worker that writes or reads has a process.
THEOREM TypeCorrect == SafeSpec => []TypeOK
<1>1. IInv => TypeOK
  BY DEF IInv
<1>. QED
  BY <1>1, Invariance, PTL

\* What qs_evaluator_receive returns is the value of the very expression the worker submitted,
\* though processes die between any two texts and their worker resubmits to another one.
THEOREM ValuesAreOwn == SafeSpec => []ReceivesOwn
<1>1. IInv => ReceivesOwn
  BY DEF IInv, Wasting, ReceivesOwn, Answered
<1>. QED
  BY <1>1, Invariance, PTL

\* A process is renewed after max_evaluations and not earlier, however many were lost.
THEOREM RenewedInTime == SafeSpec => []RenewalExact
<1>1. IInv => RenewalExact
  <2>. SUFFICES ASSUME IInv, NEW w \in Worker, wpc[w] = "idle", evaluations[w] # 0,
                       MaxEvaluations # 0
                PROVE  served[cas[w]] = evaluations[w] - 1 /\ served[cas[w]] < MaxEvaluations
    BY DEF RenewalExact
  <2>1. cas[w] # None /\ evaluations[w] \in Nat
    BY DEF IInv, TypeOK, Equipped
  <2>2. served[cas[w]] = evaluations[w] - 1 /\ evaluations[w] <= MaxEvaluations
    BY <2>1 DEF IInv, Counted
  <2>. QED
    BY <2>1, <2>2, CycleAssumption
<1>. QED
  BY <1>1, Invariance, PTL
=============================================================================
