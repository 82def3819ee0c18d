----------------------------- MODULE PoolProofs -----------------------------
(***************************************************************************)
(* Proofs about Pool, for any number of requests at a time and loops of    *)
(* any length.                                                             *)
(*                                                                         *)
(* A request stands in one of five states, for what it holds, and a step   *)
(* goes from one state to another.  The programs of the handlers are       *)
(* checked the way a type checker would, one lemma for each operator that  *)
(* makes programs and one for each operation of Handlers: every program    *)
(* leads from "stranger" to a state in which the request holds nothing.    *)
(* The inductive invariant is that what a request has left to do leads     *)
(* from the state in which it stands to such an end.                       *)
(***************************************************************************)
EXTENDS PoolProperties, Induction, Integers, FiniteSetTheorems, WellFoundedInduction, TLAPS

\* The steps of Handlers.
Steps ==
  {"verify", "account", "read", "write", "rows", "close", "begin", "exec", "commit", "rollback",
   "lock", "unlock", "file"}

\* Where a request stands: not verified; verified, with nothing; with the
\* connection; with the lock; with both.
States == {"stranger", "user", "querying", "locked", "publishing"}

\* The states between two statements of a service.
Quiet == {"user", "locked"}

\* The same with the connection.
Holding(a) == CASE a = "user" -> "querying" [] a = "locked" -> "publishing" [] OTHER -> a

\* The step is in place in a, and the request then stands in b.
Goes(a, step, b) ==
  \/ step = "verify" /\ a = "stranger" /\ b = "user"
  \/ step = "account" /\ a = "stranger" /\ b = "stranger"
  \/ step \in {"read", "write", "file"} /\ a \in Quiet /\ b = a
  \/ step \in {"rows", "begin"} /\ a \in Quiet /\ b = Holding(a)
  \/ step = "exec" /\ a \in {"querying", "publishing"} /\ b = a
  \/ step \in {"close", "commit", "rollback"} /\ b \in Quiet /\ a = Holding(b)
  \/ step = "lock" /\ a = "user" /\ b = "locked"
  \/ step = "unlock" /\ a = "locked" /\ b = "user"

\* The program goes from a to b through some history of states.
Runs(p, a, b) ==
  \E h \in [0..Len(p) -> States] :
    /\ h[0] = a /\ h[Len(p)] = b
    /\ \A k \in 1..Len(p) : Goes(h[k - 1], p[k], h[k])

\* Every one of the programs does.
Leads(programs, a, b) == \A p \in programs : p \in Seq(Steps) /\ Runs(p, a, b)

\* Operations that leave the request as they found it, with the lock or not.
Steady(programs) == \A a \in Quiet : Leads(programs, a, a)

LEMMA RunsNothing ==
  ASSUME NEW a \in States
  PROVE  Runs(<< >>, a, a)
<1> DEFINE h == [k \in 0..0 |-> a]
<1>1. Len(<< >>) = 0 /\ h \in [0..0 -> States] /\ h[0] = a
  OBVIOUS
<1>2. \A k \in 1..0 : Goes(h[k - 1], << >>[k], h[k])
  OBVIOUS
<1> HIDE DEF h
<1>3. QED
  BY <1>1, <1>2 DEF Runs

\* Two histories of which the second begins where the first ends.
LEMMA Joined ==
  ASSUME NEW S, NEW m \in Nat, NEW n \in Nat, NEW g \in [0..m -> S], NEW h \in [0..n -> S], g[m] = h[0],
         NEW f, f = [k \in 0..(m + n) |-> IF k <= m THEN g[k] ELSE h[k - m]]
  PROVE  /\ f \in [0..(m + n) -> S]
         /\ f[0] = g[0] /\ f[m + n] = h[n]
         /\ \A k \in 1..m : f[k - 1] = g[k - 1] /\ f[k] = g[k]
         /\ \A k \in 1..n : f[m + k - 1] = h[k - 1] /\ f[m + k] = h[k]
<1>1. ASSUME NEW k \in 0..m
      PROVE  f[k] = g[k]
  OBVIOUS
<1>2. ASSUME NEW k \in 0..n
      PROVE  f[m + k] = h[k]
  <2>1. CASE k = 0
    BY <2>1, <1>1
  <2>2. CASE k # 0
    <3>1. m + k \in 0..(m + n) /\ ~(m + k <= m) /\ (m + k) - m = k
      BY <2>2
    <3>2. QED
      BY <3>1
  <2>3. QED
    BY <2>1, <2>2
<1>3. ASSUME NEW k \in 0..(m + n)
      PROVE  f[k] \in S
  <2>1. CASE k <= m
    BY <2>1
  <2>2. CASE ~(k <= m)
    BY <2>2
  <2>3. QED
    BY <2>1, <2>2
<1>4. f \in [0..(m + n) -> S]
  BY <1>3
<1>5. \A k \in 1..m : f[k - 1] = g[k - 1] /\ f[k] = g[k]
  BY <1>1
<1>6. ASSUME NEW k \in 1..n
      PROVE  f[m + k - 1] = h[k - 1] /\ f[m + k] = h[k]
  <2>1. k - 1 \in 0..n /\ m + (k - 1) = m + k - 1
    OBVIOUS
  <2>2. QED
    BY <2>1, <1>2
<1>7. f[0] = g[0] /\ f[m + n] = h[n]
  BY <1>1, <1>2
<1>8. QED
  BY <1>4, <1>5, <1>6, <1>7

LEMMA RunsOne ==
  ASSUME NEW a \in States, NEW b \in States, NEW step \in Steps, Goes(a, step, b)
  PROVE  Runs(<<step>>, a, b)
<1> DEFINE h == [k \in 0..1 |-> IF k = 0 THEN a ELSE b]
<1>1. h \in [0..Len(<<step>>) -> States]
  OBVIOUS
<1>2. h[0] = a /\ h[Len(<<step>>)] = b
  OBVIOUS
<1>3. ASSUME NEW k \in 1..Len(<<step>>)
      PROVE  Goes(h[k - 1], <<step>>[k], h[k])
  <2>1. k = 1 /\ h[0] = a /\ h[1] = b /\ <<step>>[1] = step
    OBVIOUS
  <2>2. QED
    BY <2>1
<1>4. QED
  BY <1>1, <1>2, <1>3 DEF Runs

LEMMA RunsThen ==
  ASSUME NEW p \in Seq(Steps), NEW q \in Seq(Steps), NEW a, NEW b, NEW c,
         Runs(p, a, b), Runs(q, b, c)
  PROVE  Runs(p \o q, a, c)
<1>1. PICK g \in [0..Len(p) -> States] :
        /\ g[0] = a /\ g[Len(p)] = b
        /\ \A k \in 1..Len(p) : Goes(g[k - 1], p[k], g[k])
  BY DEF Runs
<1>2. PICK h \in [0..Len(q) -> States] :
        /\ h[0] = b /\ h[Len(q)] = c
        /\ \A k \in 1..Len(q) : Goes(h[k - 1], q[k], h[k])
  BY DEF Runs
<1>3. Len(p \o q) = Len(p) + Len(q) /\ Len(p) \in Nat /\ Len(q) \in Nat
  OBVIOUS
<1>4. /\ \A k \in 1..Len(p) : (p \o q)[k] = p[k]
      /\ \A k \in 1..Len(q) : (p \o q)[Len(p) + k] = q[k]
  OBVIOUS
<1>5. PICK f : f = [k \in 0..(Len(p) + Len(q)) |-> IF k <= Len(p) THEN g[k] ELSE h[k - Len(p)]]
  OBVIOUS
<1>6. /\ f \in [0..(Len(p) + Len(q)) -> States]
      /\ f[0] = a /\ f[Len(p) + Len(q)] = c
      /\ \A k \in 1..Len(p) : f[k - 1] = g[k - 1] /\ f[k] = g[k]
      /\ \A k \in 1..Len(q) : f[Len(p) + k - 1] = h[k - 1] /\ f[Len(p) + k] = h[k]
  BY <1>1, <1>2, <1>3, <1>5, Joined
<1>7. ASSUME NEW k \in 1..(Len(p) + Len(q))
      PROVE  Goes(f[k - 1], (p \o q)[k], f[k])
  <2>1. CASE k \in 1..Len(p)
    BY <2>1, <1>1, <1>4, <1>6
  <2>2. CASE k \notin 1..Len(p)
    <3>1. PICK j \in 1..Len(q) : k = Len(p) + j
      <4>1. k - Len(p) \in 1..Len(q) /\ k = Len(p) + (k - Len(p))
        BY <1>3, <2>2
      <4>2. QED
        BY <4>1
    <3>2. QED
      BY <3>1, <1>2, <1>4, <1>6
  <2>3. QED
    BY <2>1, <2>2
<1>8. QED
  BY <1>3, <1>6, <1>7 DEF Runs

LEMMA RunsTail ==
  ASSUME NEW p \in Seq(Steps), p # << >>, NEW a, NEW c, Runs(p, a, c)
  PROVE  \E b \in States : Goes(a, Head(p), b) /\ Runs(Tail(p), b, c)
<1>1. PICK h \in [0..Len(p) -> States] :
        /\ h[0] = a /\ h[Len(p)] = c
        /\ \A k \in 1..Len(p) : Goes(h[k - 1], p[k], h[k])
  BY DEF Runs
<1> DEFINE g == [k \in 0..Len(Tail(p)) |-> h[k + 1]]
<1>2. Len(p) \in Nat \ {0} /\ Len(Tail(p)) = Len(p) - 1 /\ Head(p) = p[1]
  OBVIOUS
<1>3. g \in [0..Len(Tail(p)) -> States] /\ g[0] = h[1] /\ g[Len(Tail(p))] = c
  BY <1>1, <1>2
<1>4. \A k \in 1..Len(Tail(p)) : Tail(p)[k] = p[k + 1]
  OBVIOUS
<1>5. ASSUME NEW k \in 1..Len(Tail(p))
      PROVE  Goes(g[k - 1], Tail(p)[k], g[k])
  <2>1. k + 1 \in 1..Len(p) /\ g[k - 1] = h[k] /\ g[k] = h[k + 1] /\ Tail(p)[k] = p[k + 1]
    BY <1>2, <1>4
  <2>2. Goes(h[(k + 1) - 1], p[k + 1], h[k + 1])
    BY <1>1, <2>1
  <2>3. QED
    BY <2>1, <2>2
<1>6. Goes(a, Head(p), h[1]) /\ h[1] \in States
  BY <1>1, <1>2
<1>7. QED
  BY <1>3, <1>5, <1>6 DEF Runs

-----------------------------------------------------------------------------
(* Sets of programs.                                                       *)

LEMMA LeadsThen ==
  ASSUME NEW P, NEW Q, NEW a, NEW b, NEW c, Leads(P, a, b), Leads(Q, b, c)
  PROVE  Leads(Then(P, Q), a, c)
<1>1. SUFFICES ASSUME NEW r \in Then(P, Q)
               PROVE  r \in Seq(Steps) /\ Runs(r, a, c)
  BY DEF Leads
<1>. PICK p \in P, q \in Q : r = p \o q
  BY DEF Then
<1>2. p \in Seq(Steps) /\ q \in Seq(Steps) /\ Runs(p, a, b) /\ Runs(q, b, c)
  BY DEF Leads
<1>3. QED
  BY <1>2, RunsThen

LEMMA LeadsNothing == \A a \in States : Leads(Nothing, a, a)
BY RunsNothing DEF Leads, Nothing

LEMMA LeadsUnion ==
  ASSUME NEW P, NEW Q, NEW a, NEW b, Leads(P, a, b), Leads(Q, a, b)
  PROVE  Leads(P \cup Q, a, b)
BY DEF Leads

LEMMA SingletonIsSequence == \A S : \A x \in S : <<x>> \in Seq(S)
OBVIOUS

LEMMA LeadsOne ==
  ASSUME NEW a \in States, NEW b \in States, NEW step \in Steps, Goes(a, step, b)
  PROVE  Leads({<<step>>}, a, b)
<1>1. <<step>> \in Seq(Steps)
  BY SingletonIsSequence
<1>2. QED
  BY <1>1, RunsOne DEF Leads

\* The equation of the function in ForEach.
Repeats(operation, f, m) ==
  f = [n \in 0..m |-> IF n = 0 THEN Nothing ELSE Nothing \cup Then(operation, f[n - 1])]

LEMMA LoopsExist ==
  ASSUME NEW operation, NEW m \in Nat
  PROVE  \E f : Repeats(operation, f, m)
<1> DEFINE T == {k \in Nat : \E f : Repeats(operation, f, k)}
<1>1. 0 \in T
  <2> DEFINE f == [n \in 0..0 |-> Nothing]
  <2>1. f = [n \in 0..0 |-> IF n = 0 THEN Nothing ELSE Nothing \cup Then(operation, f[n - 1])]
    OBVIOUS
  <2> HIDE DEF f
  <2>2. Repeats(operation, f, 0)
    BY <2>1, Zenon DEF Repeats
  <2>3. QED
    BY <2>2, Zenon
<1>2. ASSUME NEW k \in T
      PROVE  k + 1 \in T
  <2>1. PICK f : Repeats(operation, f, k)
    OBVIOUS
  <2> DEFINE g == [n \in 0..(k + 1) |-> IF n = 0 THEN Nothing ELSE Nothing \cup Then(operation, f[n - 1])]
  <2>2. ASSUME NEW n \in 0..k
        PROVE  g[n] = f[n]
    <3>1. f[n] = IF n = 0 THEN Nothing ELSE Nothing \cup Then(operation, f[n - 1])
      BY <2>1 DEF Repeats
    <3>2. n \in 0..(k + 1)
      OBVIOUS
    <3>3. QED
      BY <3>1, <3>2
  <2>3. ASSUME NEW n \in 0..(k + 1), n # 0
        PROVE  g[n - 1] = f[n - 1]
    <3>1. n - 1 \in 0..k
      BY <2>3
    <3>2. QED
      BY <2>2, <3>1
  <2>4. g = [n \in 0..(k + 1) |-> IF n = 0 THEN Nothing ELSE Nothing \cup Then(operation, g[n - 1])]
    BY <2>3
  <2> HIDE DEF g
  <2>5. Repeats(operation, g, k + 1)
    BY <2>4 DEF Repeats
  <2>6. QED
    BY <2>5
<1> HIDE DEF T
<1>3. T = Nat
  <2>1. T \in SUBSET Nat
    BY DEF T
  <2>2. QED
    BY <2>1, <1>1, <1>2, Induction
<1>4. QED
  BY <1>3 DEF T

LEMMA ForEachRepeats ==
  ASSUME NEW operation
  PROVE  \E f : Repeats(operation, f, MaxRows) /\ ForEach(operation) = f[MaxRows]
<1> DEFINE f == CHOOSE times : Repeats(operation, times, MaxRows)
<1>1. Repeats(operation, f, MaxRows)
  BY LoopsExist, HandlersAssumption
<1>2. ForEach(operation) = f[MaxRows]
  BY DEF ForEach, Repeats
<1>3. QED
  BY <1>1, <1>2

LEMMA LeadsForEach ==
  ASSUME NEW operation, NEW a \in States, Leads(operation, a, a)
  PROVE  Leads(ForEach(operation), a, a)
<1>1. PICK f : Repeats(operation, f, MaxRows) /\ ForEach(operation) = f[MaxRows]
  BY ForEachRepeats
<1> DEFINE T == {n \in Nat : n <= MaxRows => Leads(f[n], a, a)}
<1>2. 0 \in T
  <2>1. f[0] = Nothing
    BY <1>1, HandlersAssumption DEF Repeats
  <2>2. QED
    BY <2>1, LeadsNothing
<1>3. ASSUME NEW n \in T
      PROVE  n + 1 \in T
  <2>1. SUFFICES ASSUME n + 1 <= MaxRows
                 PROVE  Leads(f[n + 1], a, a)
    OBVIOUS
  <2>2. f[n + 1] = Nothing \cup Then(operation, f[n])
    <3>1. n + 1 \in 0..MaxRows /\ n + 1 # 0 /\ (n + 1) - 1 = n
      BY <2>1, HandlersAssumption
    <3>2. QED
      BY <1>1, <3>1 DEF Repeats
  <2>3. Leads(f[n], a, a)
    BY <2>1, HandlersAssumption
  <2>4. Leads(Then(operation, f[n]), a, a)
    BY <2>3, LeadsThen
  <2>5. QED
    BY <2>2, <2>4, LeadsNothing, LeadsUnion
<1> HIDE DEF T
<1>4. T = Nat
  <2>1. T \in SUBSET Nat
    BY DEF T
  <2>2. QED
    BY <2>1, <1>2, <1>3, Induction
<1>5. QED
  BY <1>1, <1>4, HandlersAssumption DEF T

LEMMA LeadsConcat ==
  ASSUME NEW p, NEW q, NEW a, NEW b, NEW c, Leads({p}, a, b), Leads({q}, b, c)
  PROVE  Leads({p \o q}, a, c)
<1>1. Then({p}, {q}) = {p \o q}
  BY DEF Then
<1>2. QED
  BY <1>1, LeadsThen

LEMMA PairIsSequence == \A S : \A x \in S, y \in S : <<x, y>> \in Seq(S)
OBVIOUS

LEMMA TripleIsSum ==
  ASSUME NEW s, NEW t, NEW u
  PROVE  <<s, t, u>> = <<s>> \o <<t, u>>
OBVIOUS

LEMMA LeadsTwo ==
  ASSUME NEW a \in States, NEW b \in States, NEW c \in States, NEW s \in Steps, NEW t \in Steps,
         Goes(a, s, b), Goes(b, t, c)
  PROVE  Leads({<<s, t>>}, a, c)
<1> DEFINE h == [k \in 0..2 |-> IF k = 0 THEN a ELSE IF k = 1 THEN b ELSE c]
<1>1. Len(<<s, t>>) = 2 /\ h \in [0..2 -> States] /\ h[0] = a /\ h[1] = b /\ h[2] = c
  OBVIOUS
<1>2. ASSUME NEW k \in 1..2
      PROVE  Goes(h[k - 1], <<s, t>>[k], h[k])
  <2>1. (k = 1 /\ k - 1 = 0) \/ (k = 2 /\ k - 1 = 1)
    OBVIOUS
  <2>2. <<s, t>>[1] = s /\ <<s, t>>[2] = t
    OBVIOUS
  <2> HIDE DEF h
  <2>3. QED
    BY <1>1, <2>1, <2>2
<1> HIDE DEF h
<1>3. Runs(<<s, t>>, a, c)
  BY <1>1, <1>2 DEF Runs
<1>4. QED
  BY <1>3, PairIsSequence DEF Leads

LEMMA LeadsThree ==
  ASSUME NEW a \in States, NEW b \in States, NEW c \in States, NEW d \in States,
         NEW s \in Steps, NEW t \in Steps, NEW u \in Steps,
         Goes(a, s, b), Goes(b, t, c), Goes(c, u, d)
  PROVE  Leads({<<s, t, u>>}, a, d)
<1>1. Leads({<<s>>}, a, b) /\ Leads({<<t, u>>}, b, d)
  BY LeadsOne, LeadsTwo
<1>2. Leads({<<s>> \o <<t, u>>}, a, d)
  BY <1>1, LeadsConcat
<1>3. QED
  BY <1>2, TripleIsSum, Zenon

LEMMA FourIsSequence ==
  \A S : \A s1 \in S, s2 \in S, s3 \in S, s4 \in S : <<s1, s2, s3, s4>> \in Seq(S)
OBVIOUS

LEMMA LeadsFour ==
  ASSUME NEW a \in States, NEW b \in States, NEW c \in States, NEW d \in States, NEW e \in States,
         NEW s1 \in Steps, NEW s2 \in Steps, NEW s3 \in Steps, NEW s4 \in Steps,
         Goes(a, s1, b), Goes(b, s2, c), Goes(c, s3, d), Goes(d, s4, e)
  PROVE  Leads({<<s1, s2, s3, s4>>}, a, e)
<1> DEFINE states == [k \in 0..4 |-> IF k = 0 THEN a ELSE IF k = 1 THEN b ELSE IF k = 2 THEN c ELSE IF k = 3 THEN d ELSE e]
<1>1. Len(<<s1, s2, s3, s4>>) = 4 /\ states \in [0..4 -> States]
  OBVIOUS
<1>2. states[0] = a /\ states[1] = b /\ states[2] = c /\ states[3] = d /\ states[4] = e
  OBVIOUS
<1>3. ASSUME NEW k \in 1..4
      PROVE  Goes(states[k - 1], <<s1, s2, s3, s4>>[k], states[k])
  <2>1. (k = 1 /\ k - 1 = 0) \/ (k = 2 /\ k - 1 = 1) \/ (k = 3 /\ k - 1 = 2) \/ (k = 4 /\ k - 1 = 3)
    OBVIOUS
  <2>2. <<s1, s2, s3, s4>>[1] = s1 /\ <<s1, s2, s3, s4>>[2] = s2 /\ <<s1, s2, s3, s4>>[3] = s3 /\ <<s1, s2, s3, s4>>[4] = s4
    OBVIOUS
  <2> HIDE DEF states
  <2>3. QED
    BY <1>2, <2>1, <2>2
<1> HIDE DEF states
<1>4. Runs(<<s1, s2, s3, s4>>, a, e)
  BY <1>1, <1>2, <1>3 DEF Runs
<1>5. QED
  BY <1>4, FourIsSequence DEF Leads

LEMMA FiveIsSequence ==
  \A S : \A s1 \in S, s2 \in S, s3 \in S, s4 \in S, s5 \in S : <<s1, s2, s3, s4, s5>> \in Seq(S)
OBVIOUS

LEMMA LeadsFive ==
  ASSUME NEW a \in States, NEW b \in States, NEW c \in States, NEW d \in States, NEW e \in States, NEW f \in States,
         NEW s1 \in Steps, NEW s2 \in Steps, NEW s3 \in Steps, NEW s4 \in Steps, NEW s5 \in Steps,
         Goes(a, s1, b), Goes(b, s2, c), Goes(c, s3, d), Goes(d, s4, e), Goes(e, s5, f)
  PROVE  Leads({<<s1, s2, s3, s4, s5>>}, a, f)
<1> DEFINE states == [k \in 0..5 |-> IF k = 0 THEN a ELSE IF k = 1 THEN b ELSE IF k = 2 THEN c ELSE IF k = 3 THEN d ELSE IF k = 4 THEN e ELSE f]
<1>1. Len(<<s1, s2, s3, s4, s5>>) = 5 /\ states \in [0..5 -> States]
  OBVIOUS
<1>2. states[0] = a /\ states[1] = b /\ states[2] = c /\ states[3] = d /\ states[4] = e /\ states[5] = f
  OBVIOUS
<1>3. ASSUME NEW k \in 1..5
      PROVE  Goes(states[k - 1], <<s1, s2, s3, s4, s5>>[k], states[k])
  <2>1. (k = 1 /\ k - 1 = 0) \/ (k = 2 /\ k - 1 = 1) \/ (k = 3 /\ k - 1 = 2) \/ (k = 4 /\ k - 1 = 3) \/ (k = 5 /\ k - 1 = 4)
    OBVIOUS
  <2>2. <<s1, s2, s3, s4, s5>>[1] = s1 /\ <<s1, s2, s3, s4, s5>>[2] = s2 /\ <<s1, s2, s3, s4, s5>>[3] = s3 /\ <<s1, s2, s3, s4, s5>>[4] = s4 /\ <<s1, s2, s3, s4, s5>>[5] = s5
    OBVIOUS
  <2> HIDE DEF states
  <2>3. QED
    BY <1>2, <2>1, <2>2
<1> HIDE DEF states
<1>4. Runs(<<s1, s2, s3, s4, s5>>, a, f)
  BY <1>1, <1>2, <1>3 DEF Runs
<1>5. QED
  BY <1>4, FiveIsSequence DEF Leads

LEMMA EightIsSequence ==
  \A S : \A s1 \in S, s2 \in S, s3 \in S, s4 \in S, s5 \in S, s6 \in S, s7 \in S, s8 \in S : <<s1, s2, s3, s4, s5, s6, s7, s8>> \in Seq(S)
OBVIOUS

LEMMA LeadsEight ==
  ASSUME NEW a \in States, NEW b \in States, NEW c \in States, NEW d \in States, NEW e \in States, NEW f \in States, NEW g \in States, NEW h \in States, NEW i \in States,
         NEW s1 \in Steps, NEW s2 \in Steps, NEW s3 \in Steps, NEW s4 \in Steps, NEW s5 \in Steps, NEW s6 \in Steps, NEW s7 \in Steps, NEW s8 \in Steps,
         Goes(a, s1, b), Goes(b, s2, c), Goes(c, s3, d), Goes(d, s4, e), Goes(e, s5, f), Goes(f, s6, g), Goes(g, s7, h), Goes(h, s8, i)
  PROVE  Leads({<<s1, s2, s3, s4, s5, s6, s7, s8>>}, a, i)
<1> DEFINE states == [k \in 0..8 |-> IF k = 0 THEN a ELSE IF k = 1 THEN b ELSE IF k = 2 THEN c ELSE IF k = 3 THEN d ELSE IF k = 4 THEN e ELSE IF k = 5 THEN f ELSE IF k = 6 THEN g ELSE IF k = 7 THEN h ELSE i]
<1>1. Len(<<s1, s2, s3, s4, s5, s6, s7, s8>>) = 8 /\ states \in [0..8 -> States]
  OBVIOUS
<1>2. states[0] = a /\ states[1] = b /\ states[2] = c /\ states[3] = d /\ states[4] = e /\ states[5] = f /\ states[6] = g /\ states[7] = h /\ states[8] = i
  OBVIOUS
<1>3. ASSUME NEW k \in 1..8
      PROVE  Goes(states[k - 1], <<s1, s2, s3, s4, s5, s6, s7, s8>>[k], states[k])
  <2>1. (k = 1 /\ k - 1 = 0) \/ (k = 2 /\ k - 1 = 1) \/ (k = 3 /\ k - 1 = 2) \/ (k = 4 /\ k - 1 = 3) \/ (k = 5 /\ k - 1 = 4) \/ (k = 6 /\ k - 1 = 5) \/ (k = 7 /\ k - 1 = 6) \/ (k = 8 /\ k - 1 = 7)
    OBVIOUS
  <2>2. <<s1, s2, s3, s4, s5, s6, s7, s8>>[1] = s1 /\ <<s1, s2, s3, s4, s5, s6, s7, s8>>[2] = s2 /\ <<s1, s2, s3, s4, s5, s6, s7, s8>>[3] = s3 /\ <<s1, s2, s3, s4, s5, s6, s7, s8>>[4] = s4 /\ <<s1, s2, s3, s4, s5, s6, s7, s8>>[5] = s5 /\ <<s1, s2, s3, s4, s5, s6, s7, s8>>[6] = s6 /\ <<s1, s2, s3, s4, s5, s6, s7, s8>>[7] = s7 /\ <<s1, s2, s3, s4, s5, s6, s7, s8>>[8] = s8
    OBVIOUS
  <2> HIDE DEF states
  <2>3. QED
    BY <1>2, <2>1, <2>2
<1> HIDE DEF states
<1>4. Runs(<<s1, s2, s3, s4, s5, s6, s7, s8>>, a, i)
  BY <1>1, <1>2, <1>3 DEF Runs
<1>5. <<s1, s2, s3, s4, s5, s6, s7, s8>> \in Seq(Steps)
  BY EightIsSequence, Zenon
<1>6. QED
  BY <1>4, <1>5 DEF Leads


LEMMA QuietGoes ==
  ASSUME NEW a \in Quiet
  PROVE  \E b \in States :
           /\ a \in States
           /\ Goes(a, "read", a) /\ Goes(a, "write", a) /\ Goes(a, "file", a)
           /\ Goes(a, "rows", b) /\ Goes(a, "begin", b)
           /\ Goes(b, "exec", b)
           /\ Goes(b, "close", a) /\ Goes(b, "commit", a) /\ Goes(b, "rollback", a)
<1>1. Holding(a) \in States
  BY DEF Quiet, Holding, States
<1>2. QED
  BY <1>1 DEF Quiet, Holding, States, Goes

-----------------------------------------------------------------------------
(* The operations of the services, one lemma for each shape.               *)

LEMMA SteadyThen ==
  ASSUME NEW P, NEW Q, Steady(P), Steady(Q)
  PROVE  Steady(Then(P, Q))
BY LeadsThen DEF Steady

LEMMA SteadyUnion ==
  ASSUME NEW P, NEW Q, Steady(P), Steady(Q)
  PROVE  Steady(P \cup Q)
BY LeadsUnion DEF Steady

LEMMA SteadyForEach ==
  ASSUME NEW operation, Steady(operation)
  PROVE  Steady(ForEach(operation))
BY LeadsForEach, QuietGoes DEF Steady

LEMMA SteadyNothing == Steady(Nothing)
BY LeadsNothing, QuietGoes DEF Steady

LEMMA SteadyLiterals ==
  /\ Steady(Read) /\ Steady(Write) /\ Steady(File) /\ Steady(Rows)
  /\ Steady(ChangePassword)
  /\ Steady({<<"file", "begin", "exec", "exec", "commit">>})
  /\ Steady({<<"begin", "exec", "commit">>})
  /\ Steady({<<"begin", "exec", "rollback">>})
  /\ Steady({<<"begin", "exec", "exec", "commit">>})
  /\ Steady({<<"begin", "exec", "exec", "rollback">>})
  /\ Steady({<<"rows", "close", "begin", "exec", "exec", "exec", "commit", "file">>})
  /\ Steady({<<"write", "file">>})
<1> SUFFICES ASSUME NEW a \in Quiet
             PROVE  /\ Leads(Read, a, a) /\ Leads(Write, a, a) /\ Leads(File, a, a) /\ Leads(Rows, a, a)
                    /\ Leads(ChangePassword, a, a)
                    /\ Leads({<<"file", "begin", "exec", "exec", "commit">>}, a, a)
                    /\ Leads({<<"begin", "exec", "commit">>}, a, a)
                    /\ Leads({<<"begin", "exec", "rollback">>}, a, a)
                    /\ Leads({<<"begin", "exec", "exec", "commit">>}, a, a)
                    /\ Leads({<<"begin", "exec", "exec", "rollback">>}, a, a)
                    /\ Leads({<<"rows", "close", "begin", "exec", "exec", "exec", "commit", "file">>}, a, a)
                    /\ Leads({<<"write", "file">>}, a, a)
  BY DEF Steady
<1>1. PICK b \in States :
        /\ a \in States
        /\ Goes(a, "read", a) /\ Goes(a, "write", a) /\ Goes(a, "file", a)
        /\ Goes(a, "rows", b) /\ Goes(a, "begin", b)
        /\ Goes(b, "exec", b)
        /\ Goes(b, "close", a) /\ Goes(b, "commit", a) /\ Goes(b, "rollback", a)
  BY QuietGoes
<1>steps. {"read", "write", "file", "rows", "close", "begin", "exec", "commit", "rollback"} \subseteq Steps
  BY DEF Steps
<1>2. Leads(Read, a, a) /\ Leads(Write, a, a) /\ Leads(File, a, a)
  BY <1>1, <1>steps, LeadsOne, Zenon DEF Read, Write, File
<1>3. Leads(Rows, a, a)
  BY <1>1, <1>steps, LeadsTwo, Zenon DEF Rows
<1>4. Leads(ChangePassword, a, a)
  BY <1>1, <1>steps, LeadsFive, Zenon DEF ChangePassword
<1>5. Leads({<<"file", "begin", "exec", "exec", "commit">>}, a, a)
  BY <1>1, <1>steps, LeadsFive, Zenon
<1>6. Leads({<<"begin", "exec", "commit">>}, a, a) /\ Leads({<<"begin", "exec", "rollback">>}, a, a)
  BY <1>1, <1>steps, LeadsThree, Zenon
<1>7. Leads({<<"begin", "exec", "exec", "commit">>}, a, a) /\ Leads({<<"begin", "exec", "exec", "rollback">>}, a, a)
  BY <1>1, <1>steps, LeadsFour, Zenon
<1>8. Leads({<<"rows", "close", "begin", "exec", "exec", "exec", "commit", "file">>}, a, a)
  BY <1>1, <1>steps, LeadsEight, Zenon
<1>9. Leads({<<"write", "file">>}, a, a)
  BY <1>1, <1>steps, LeadsTwo, Zenon
<1>10. QED
  BY <1>2, <1>3, <1>4, <1>5, <1>6, <1>7, <1>8, <1>9

LEMMA SteadyPut == Steady(PutProgress)
<1> DEFINE exec == {<<"exec">>}
           begin == {<<"begin", "exec", "exec", "exec">>}
           commit == {<<"commit">>}
<1> SUFFICES ASSUME NEW a \in Quiet
             PROVE  Leads(PutProgress, a, a)
  BY DEF Steady
<1>1. PICK b \in States :
        /\ a \in States
        /\ Goes(a, "read", a) /\ Goes(a, "write", a) /\ Goes(a, "file", a)
        /\ Goes(a, "rows", b) /\ Goes(a, "begin", b)
        /\ Goes(b, "exec", b)
        /\ Goes(b, "close", a) /\ Goes(b, "commit", a) /\ Goes(b, "rollback", a)
  BY QuietGoes
<1>steps. {"begin", "exec", "commit"} \subseteq Steps
  BY DEF Steps
<1>2. Leads(begin, a, b)
  BY <1>1, <1>steps, LeadsFour, Zenon
<1>3. Leads(exec, b, b) /\ Leads(commit, b, a)
  BY <1>1, <1>steps, LeadsOne, Zenon
<1>4. Steady(GetProgress)
  BY SteadyThen, SteadyUnion, SteadyNothing, SteadyLiterals DEF GetProgress, device, progress
<1>5. Leads(GetProgress, a, a)
  BY <1>4 DEF Steady
<1> HIDE DEF exec, begin, commit
<1>6. Leads(ForEach(exec), b, b)
  BY <1>3, LeadsForEach
<1>7. Leads(Then(commit, GetProgress), b, a)
  BY <1>3, <1>5, LeadsThen
<1>8. Leads(Then(ForEach(exec), Then(commit, GetProgress)), b, a)
  BY <1>6, <1>7, LeadsThen
<1>9. Leads(Then(begin, Then(ForEach(exec), Then(commit, GetProgress))), a, a)
  BY <1>2, <1>8, LeadsThen
<1>10. QED
  BY <1>9 DEF PutProgress, begin, exec, commit

LEMMA SteadyReading ==
  /\ Steady(UpsertDevice) /\ Steady(RenameDevice) /\ Steady(DisableDevice)
  /\ Steady(GetDevice) /\ Steady(ListDevices) /\ Steady(Dashboard) /\ Steady(DeviceActivity)
  /\ Steady(GetProgress)
<1>1. Steady(device) /\ Steady(progress) /\ Steady(deviceBooks) /\ Steady(DisableDevice)
  BY SteadyLiterals DEF device, progress, deviceBooks, DisableDevice
<1>2. Steady(UpsertDevice) /\ Steady(RenameDevice)
  BY <1>1, SteadyThen, SteadyLiterals DEF UpsertDevice, RenameDevice
<1>3. Steady(GetDevice)
  BY <1>1, SteadyThen, SteadyLiterals DEF GetDevice
<1>4. Steady(ListDevices)
  BY <1>3, SteadyThen, SteadyForEach, SteadyLiterals DEF ListDevices
<1>5. Steady(Dashboard)
  BY <1>1, <1>4, SteadyThen, SteadyUnion, SteadyNothing, SteadyLiterals DEF Dashboard
<1>6. Steady(DeviceActivity)
  BY <1>1, SteadyThen, SteadyLiterals DEF DeviceActivity
<1>7. Steady(GetProgress)
  BY <1>1, SteadyThen, SteadyUnion, SteadyNothing, SteadyLiterals DEF GetProgress
<1>8. QED
  BY <1>1, <1>2, <1>3, <1>4, <1>5, <1>6, <1>7

LEMMA SteadyBooks ==
  /\ Steady(FilenameTemplate) /\ Steady(SetFilenameTemplate)
  /\ Steady(List) /\ Steady(Search) /\ Steady(Get) /\ Steady(Open)
  /\ Steady(Create) /\ Steady(UpdateDetails) /\ Steady(Delete)
  /\ Steady(GetContent) /\ Steady(ListRevisions)
<1>1. /\ Steady(FilenameTemplate) /\ Steady(SetFilenameTemplate)
      /\ Steady(List) /\ Steady(Get)
  BY SteadyLiterals DEF FilenameTemplate, SetFilenameTemplate, setting, setSetting, List, Get
<1>2. Steady(Search)
  BY <1>1, SteadyUnion, SteadyLiterals DEF Search
<1>3. Steady(Open)
  BY <1>1, SteadyThen, SteadyLiterals DEF Open
<1>4. Steady(Create)
  <2>1. Steady(Nothing \cup File)
    BY SteadyUnion, SteadyNothing, SteadyLiterals
  <2>2. Steady(Then(FilenameTemplate, {<<"file", "begin", "exec", "exec", "commit">>}))
    BY <1>1, SteadyThen, SteadyLiterals
  <2>3. QED
    BY <2>1, <2>2, SteadyThen DEF Create
<1>5. Steady(UpdateDetails)
  <2>1. Steady({<<"begin", "exec", "commit">>, <<"file", "begin", "exec", "exec", "commit">>})
    BY SteadyLiterals DEF Steady, Leads
  <2>2. QED
    BY <2>1, <1>1, SteadyThen DEF UpdateDetails
<1>6. Steady(Delete)
  BY <1>1, SteadyThen, SteadyLiterals DEF Delete
<1>7. Steady(GetContent) /\ Steady(ListRevisions)
  BY <1>1, <1>3, SteadyThen, SteadyLiterals DEF GetContent, ListRevisions
<1>8. QED
  BY <1>1, <1>2, <1>3, <1>4, <1>5, <1>6, <1>7

LEMMA SteadyPublished == Steady(Published) /\ Steady(Conflict)
<1>1. /\ Steady(setting) /\ Steady(revision) /\ Steady(coverObjectReferenced)
      /\ Steady(currentRevision) /\ Steady(Get)
  BY SteadyLiterals DEF setting, revision, coverObjectReferenced, currentRevision, Get
<1>2. Steady(Nothing \cup File)
  BY SteadyUnion, SteadyNothing, SteadyLiterals
<1>3. Steady(Nothing \cup Then(coverObjectReferenced, Nothing \cup File))
  BY <1>1, <1>2, SteadyThen, SteadyUnion, SteadyNothing
<1>4. Steady(pruneRevisions)
  BY <1>1, <1>3, SteadyThen, SteadyForEach, SteadyLiterals DEF pruneRevisions
<1>5. Steady(Published)
  BY <1>1, <1>4, SteadyThen, SteadyLiterals DEF Published
<1>6. Steady({<<"begin", "exec", "exec", "rollback">>, <<"begin", "exec", "rollback">>})
  BY SteadyLiterals DEF Steady, Leads
<1>7. Steady(Conflict)
  BY <1>1, <1>6, SteadyThen, SteadyLiterals DEF Conflict
<1>8. QED
  BY <1>5, <1>7

\* Publication takes the lock, so it begins without it.
LEMMA LeadsPublish == Leads(publish, "user", "user") /\ Leads(RestoreRevision, "user", "user")
<1>1. Leads({<<"lock">>}, "user", "locked") /\ Leads({<<"unlock">>}, "locked", "user")
  BY LeadsOne DEF Goes, States, Steps
<1>2. Steady(Open) /\ Steady(File) /\ Steady(Published \cup Conflict) /\ Steady(revision)
  BY SteadyBooks, SteadyPublished, SteadyUnion, SteadyLiterals DEF revision
<1>3. \A P : Steady(P) => Leads(P, "user", "user") /\ Leads(P, "locked", "locked")
  BY DEF Steady, Quiet
<1>4. Leads(Then(Published \cup Conflict, {<<"unlock">>}), "locked", "user")
  BY <1>1, <1>2, <1>3, LeadsThen
<1>5. Leads(Then(File, Then(Published \cup Conflict, {<<"unlock">>})), "locked", "user")
  BY <1>2, <1>3, <1>4, LeadsThen
<1>6. Leads(Then(Open, Then(File, Then(Published \cup Conflict, {<<"unlock">>}))), "locked", "user")
  BY <1>2, <1>3, <1>5, LeadsThen
<1>7. Leads(publish, "user", "user")
  BY <1>1, <1>6, LeadsThen DEF publish
<1>8. Leads(Then(File, publish), "user", "user")
  BY <1>2, <1>3, <1>7, LeadsThen
<1>9. Leads(RestoreRevision, "user", "user")
  BY <1>2, <1>3, <1>8, LeadsThen DEF RestoreRevision
<1>10. QED
  BY <1>7, <1>9

-----------------------------------------------------------------------------
(* The handlers.                                                           *)

\* The states in which a request may end.
Ends == {"stranger", "user"}

Proper(programs) == \A p \in programs : p \in Seq(Steps) /\ \E e \in Ends : Runs(p, "stranger", e)

LEMMA ProperUnion ==
  ASSUME NEW P, NEW Q, Proper(P), Proper(Q)
  PROVE  Proper(P \cup Q)
BY DEF Proper

LEMMA ProperVerified ==
  ASSUME NEW P, Leads(P, "user", "user")
  PROVE  Proper(Then(requireUser, P))
<1>1. Leads(requireUser, "stranger", "user")
  BY LeadsOne DEF requireUser, VerifyBearer, Goes, States, Steps
<1>2. Leads(Then(requireUser, P), "stranger", "user")
  BY <1>1, LeadsThen
<1>3. QED
  BY <1>2 DEF Leads, Proper, Ends

LEMMA ProperSteady ==
  ASSUME NEW P, Steady(P)
  PROVE  Proper(Then(requireUser, P))
BY ProperVerified DEF Steady, Quiet

LEMMA ProperSigning ==
  /\ Proper(rootPage) /\ Proper(loginPage) /\ Proper(me)
  /\ Proper(conversionStatus) /\ Proper(webLogout)
  /\ Proper(login) /\ Proper(webLogin) /\ Proper(refresh) /\ Proper(logout)
<1>1. Leads({<<"verify">>}, "stranger", "user")
  BY LeadsOne DEF Goes, States, Steps
<1>2. Leads({<<"account">>}, "stranger", "stranger")
  BY LeadsOne DEF Goes, States, Steps
<1>3. Leads({<<"account", "account">>}, "stranger", "stranger")
  BY LeadsTwo DEF Goes, States, Steps
<1>4. \A P, e : e \in Ends /\ Leads(P, "stranger", e) => Proper(P)
  BY DEF Leads, Proper
<1>5. QED
  BY <1>1, <1>2, <1>3, <1>4
     DEF Ends, rootPage, loginPage, me, conversionStatus, webLogout, login, webLogin, refresh, logout,
         requireUser, VerifyBearer, Login, Refresh, Logout

LEMMA ProperBooks ==
  /\ Proper(listBooks) /\ Proper(getBook) /\ Proper(uploadBook) /\ Proper(downloadBook)
  /\ Proper(archiveBook) /\ Proper(booksPage) /\ Proper(webUploadBook) /\ Proper(webDeleteBook)
  /\ Proper(novelsPage) /\ Proper(updateNovel) /\ Proper(settingsPage)
  /\ Proper(updateFilenameTemplate) /\ Proper(updatePassword)
<1>1. Proper(listBooks) /\ Proper(getBook) /\ Proper(uploadBook) /\ Proper(downloadBook)
  BY SteadyBooks, ProperSteady DEF listBooks, getBook, uploadBook, downloadBook
<1>2. Proper(archiveBook) /\ Proper(booksPage) /\ Proper(webUploadBook) /\ Proper(webDeleteBook)
  BY SteadyBooks, ProperSteady DEF archiveBook, booksPage, webUploadBook, webDeleteBook
<1>3. Proper(novelsPage) /\ Proper(updateNovel) /\ Proper(settingsPage)
  BY SteadyBooks, ProperSteady DEF novelsPage, updateNovel, settingsPage
<1>4. Proper(updateFilenameTemplate) /\ Proper(updatePassword)
  BY SteadyBooks, SteadyLiterals, ProperSteady DEF updateFilenameTemplate, updatePassword
<1>5. QED
  BY <1>1, <1>2, <1>3, <1>4

LEMMA ProperReading ==
  /\ Proper(syncPage) /\ Proper(renameSyncDevice) /\ Proper(disableSyncDevice)
  /\ Proper(registerReadingRoutes)
<1>1. Proper(syncPage) /\ Proper(renameSyncDevice) /\ Proper(disableSyncDevice)
  BY SteadyReading, ProperSteady DEF syncPage, renameSyncDevice, disableSyncDevice
<1>2. /\ Proper(putCurrentDevice) /\ Proper(listReadingDevices)
      /\ Proper(getReadingDevice) /\ Proper(patchReadingDevice)
  BY SteadyReading, ProperSteady DEF putCurrentDevice, listReadingDevices, getReadingDevice, patchReadingDevice
<1>3. /\ Proper(deleteReadingDevice) /\ Proper(getBookProgress)
      /\ Proper(putBookProgress) /\ Proper(getDeviceActivity)
  BY SteadyReading, SteadyPut, ProperSteady
     DEF deleteReadingDevice, getBookProgress, putBookProgress, getDeviceActivity
<1>4. QED
  BY <1>1, <1>2, <1>3, ProperUnion DEF registerReadingRoutes

LEMMA ProperEdits == Proper(edits)
<1>1. Leads(ListRevisions, "user", "user") /\ Leads(GetContent, "user", "user")
  BY SteadyBooks DEF Steady, Quiet
<1>2. Leads(publish \cup RestoreRevision \cup ListRevisions \cup GetContent, "user", "user")
  BY <1>1, LeadsPublish, LeadsUnion
<1>3. QED
  BY <1>2, ProperVerified DEF edits

LEMMA ProperPrograms == Proper(Programs)
<1>1. Proper(rootPage \cup login \cup refresh \cup logout \cup me \cup loginPage \cup webLogin)
  BY ProperSigning DEF Proper
<1>2. Proper(listBooks \cup uploadBook \cup getBook \cup downloadBook \cup conversionStatus \cup archiveBook)
  BY ProperSigning, ProperBooks DEF Proper
<1>3. Proper(booksPage \cup webUploadBook \cup webDeleteBook \cup novelsPage \cup updateNovel \cup syncPage)
  BY ProperReading, ProperBooks DEF Proper
<1>4. Proper(settingsPage \cup updateFilenameTemplate \cup updatePassword \cup webLogout)
  BY ProperSigning, ProperBooks DEF Proper
<1>5. Proper(renameSyncDevice \cup disableSyncDevice \cup registerReadingRoutes \cup edits)
  BY ProperReading, ProperEdits DEF Proper
<1>6. QED
  BY <1>1, <1>2, <1>3, <1>4, <1>5 DEF Proper, Programs

-----------------------------------------------------------------------------
(* The inductive invariant.                                                *)

Typed ==
  /\ connection \in Slots \cup {Nobody} /\ publishMu \in Slots \cup {Nobody}
  /\ todo \in [Slots -> Seq(Steps)]
  /\ user \in [Slots -> BOOLEAN]

Stands(s, a) ==
  /\ connection = s <=> a \in {"querying", "publishing"}
  /\ publishMu = s <=> a \in {"locked", "publishing"}
  /\ a # "stranger" => user[s]

EveryoneStands == \A s \in Slots : \E a \in States, e \in Ends : Runs(todo[s], a, e) /\ Stands(s, a)

IInv == Typed /\ EveryoneStands

LEMMA InitStands == Init => IInv
<1> SUFFICES ASSUME Init
             PROVE  IInv
  OBVIOUS
<1>1. Typed
  BY DEF Init, Typed
<1>2. ASSUME NEW s \in Slots
      PROVE  \E a \in States, e \in Ends : Runs(todo[s], a, e) /\ Stands(s, a)
  <2>1. "stranger" \in States /\ "stranger" \in Ends
    BY DEF States, Ends
  <2>2. Runs(todo[s], "stranger", "stranger")
    BY <2>1, RunsNothing DEF Init
  <2>3. Stands(s, "stranger")
    BY PoolAssumption DEF Init, Stands
  <2>4. QED
    BY <2>1, <2>2, <2>3
<1>3. QED
  BY <1>1, <1>2 DEF IInv, EveryoneStands

\* A step of one request leaves the others where they stand.
LEMMA OneMoves ==
  ASSUME IInv, Typed', NEW s \in Slots,
         \E a \in States, e \in Ends : Runs(todo[s]', a, e) /\ Stands(s, a)',
         \A r \in Slots \ {s} :
           /\ todo'[r] = todo[r] /\ user'[r] = user[r]
           /\ connection' = r <=> connection = r
           /\ publishMu' = r <=> publishMu = r
  PROVE  IInv'
<1>1. ASSUME NEW r \in Slots \ {s}
      PROVE  \E a \in States, e \in Ends : Runs(todo[r]', a, e) /\ Stands(r, a)'
  <2>1. PICK a \in States, e \in Ends : Runs(todo[r], a, e) /\ Stands(r, a)
    BY DEF IInv, EveryoneStands
  <2>2. Runs(todo[r]', a, e) /\ Stands(r, a)'
    BY <2>1 DEF Stands
  <2>3. QED
    BY <2>2
<1>2. QED
  BY <1>1 DEF IInv, EveryoneStands

LEMMA Continues ==
  ASSUME IInv, NEW s \in Slots, Ready(s), Continue(s)
  PROVE  /\ todo' \in [Slots -> Seq(Steps)]
         /\ \A r \in Slots \ {s} : todo'[r] = todo[r]
         /\ \E a \in States, b \in States, e \in Ends :
              Stands(s, a) /\ Goes(a, NextStep(s), b) /\ Runs(todo'[s], b, e)
<1>1. todo[s] \in Seq(Steps) /\ todo[s] # << >> /\ todo \in [Slots -> Seq(Steps)]
  BY DEF IInv, Typed, Ready
<1>2. Tail(todo[s]) \in Seq(Steps)
  BY <1>1
<1>3. todo'[s] = Tail(todo[s]) /\ todo' \in [Slots -> Seq(Steps)] /\ \A r \in Slots \ {s} : todo'[r] = todo[r]
  BY <1>1, <1>2 DEF Continue
<1>4. PICK a \in States, e \in Ends : Runs(todo[s], a, e) /\ Stands(s, a)
  BY DEF IInv, EveryoneStands
<1>5. PICK b \in States : Goes(a, NextStep(s), b) /\ Runs(todo'[s], b, e)
  BY <1>1, <1>3, <1>4, RunsTail DEF NextStep
<1>6. QED
  BY <1>3, <1>4, <1>5

LEMMA AcceptStands ==
  ASSUME IInv, NEW s \in Slots, Accept(s)
  PROVE  IInv'
<1>1. PICK program \in Programs : todo' = [todo EXCEPT ![s] = program]
  BY DEF Accept
<1>2. program \in Seq(Steps) /\ \E e \in Ends : Runs(program, "stranger", e)
  BY ProperPrograms DEF Proper
<1>3. Typed'
  BY <1>1, <1>2 DEF IInv, Typed, Accept
<1>4. connection # s /\ publishMu # s
  <2>1. PICK a \in States, e \in Ends : Runs(todo[s], a, e) /\ Stands(s, a)
    BY DEF IInv, EveryoneStands
  <2>2. todo[s] = << >>
    BY DEF Accept
  <2>3. a = e
    <3>1. PICK h \in [0..Len(<< >>) -> States] : h[0] = a /\ h[Len(<< >>)] = e
      BY <2>1, <2>2 DEF Runs
    <3>2. QED
      BY <3>1
  <2>4. QED
    BY <2>1, <2>3 DEF Stands, Ends
<1>5. Stands(s, "stranger")' /\ todo'[s] = program
  BY <1>1, <1>4 DEF Accept, Stands, IInv, Typed
<1>6. \E a \in States, e \in Ends : Runs(todo[s]', a, e) /\ Stands(s, a)'
  <2>1. "stranger" \in States
    BY DEF States
  <2>2. QED
    BY <2>1, <1>2, <1>5
<1>7. QED
  BY <1>1, <1>3, <1>6, OneMoves DEF Accept, IInv, Typed

LEMMA StatementStands ==
  ASSUME IInv, NEW s \in Slots, Statement(s)
  PROVE  IInv'
<1>1. Ready(s) /\ Continue(s)
  BY DEF Statement
<1>2. PICK a \in States, b \in States, e \in Ends :
        Stands(s, a) /\ Goes(a, NextStep(s), b) /\ Runs(todo'[s], b, e)
  BY <1>1, Continues
<1>3. b = a
  BY <1>2 DEF Goes, Statement, Holding, Quiet
<1>4. Typed'
  BY <1>1, Continues DEF IInv, Typed, Statement
<1>5. Stands(s, b)'
  BY <1>2, <1>3, PoolAssumption DEF Statement, Stands, IInv, Typed
<1>6. \A r \in Slots \ {s} :
        /\ todo'[r] = todo[r] /\ user'[r] = user[r]
        /\ connection' = r <=> connection = r
        /\ publishMu' = r <=> publishMu = r
  BY <1>1, <1>2, <1>3, Continues, PoolAssumption DEF Statement, Stands, IInv, Typed
<1>7. QED
  BY <1>2, <1>4, <1>5, <1>6, OneMoves

LEMMA TakeStands ==
  ASSUME IInv, NEW s \in Slots, Take(s)
  PROVE  IInv'
<1>1. Ready(s) /\ Continue(s)
  BY DEF Take
<1>2. PICK a \in States, b \in States, e \in Ends :
        Stands(s, a) /\ Goes(a, NextStep(s), b) /\ Runs(todo'[s], b, e)
  BY <1>1, Continues
<1>3. (a = "user" /\ b = "querying") \/ (a = "locked" /\ b = "publishing")
  BY <1>2 DEF Goes, Take, Holding, Quiet
<1>4. Typed'
  BY <1>1, Continues DEF IInv, Typed, Take
<1>5. Stands(s, b)'
  BY <1>2, <1>3, PoolAssumption DEF Take, Stands, IInv, Typed
<1>6. \A r \in Slots \ {s} :
        /\ todo'[r] = todo[r] /\ user'[r] = user[r]
        /\ connection' = r <=> connection = r
        /\ publishMu' = r <=> publishMu = r
  BY <1>1, <1>2, <1>3, Continues, PoolAssumption DEF Take, Stands, IInv, Typed
<1>7. QED
  BY <1>2, <1>4, <1>5, <1>6, OneMoves

LEMMA ReleaseStands ==
  ASSUME IInv, NEW s \in Slots, Release(s)
  PROVE  IInv'
<1>1. Ready(s) /\ Continue(s)
  BY DEF Release
<1>2. PICK a \in States, b \in States, e \in Ends :
        Stands(s, a) /\ Goes(a, NextStep(s), b) /\ Runs(todo'[s], b, e)
  BY <1>1, Continues
<1>3. (a = "querying" /\ b = "user") \/ (a = "publishing" /\ b = "locked")
  BY <1>2 DEF Goes, Release, Holding, Quiet
<1>4. Typed'
  BY <1>1, Continues DEF IInv, Typed, Release
<1>5. Stands(s, b)'
  BY <1>2, <1>3, PoolAssumption DEF Release, Stands, IInv, Typed
<1>6. \A r \in Slots \ {s} :
        /\ todo'[r] = todo[r] /\ user'[r] = user[r]
        /\ connection' = r <=> connection = r
        /\ publishMu' = r <=> publishMu = r
  BY <1>1, <1>2, <1>3, Continues, PoolAssumption DEF Release, Stands, IInv, Typed
<1>7. QED
  BY <1>2, <1>4, <1>5, <1>6, OneMoves

LEMMA LockStands ==
  ASSUME IInv, NEW s \in Slots, Lock(s)
  PROVE  IInv'
<1>1. Ready(s) /\ Continue(s)
  BY DEF Lock
<1>2. PICK a \in States, b \in States, e \in Ends :
        Stands(s, a) /\ Goes(a, NextStep(s), b) /\ Runs(todo'[s], b, e)
  BY <1>1, Continues
<1>3. a = "user" /\ b = "locked"
  BY <1>2 DEF Goes, Lock, Holding, Quiet
<1>4. Typed'
  BY <1>1, Continues DEF IInv, Typed, Lock
<1>5. Stands(s, b)'
  BY <1>2, <1>3, PoolAssumption DEF Lock, Stands, IInv, Typed
<1>6. \A r \in Slots \ {s} :
        /\ todo'[r] = todo[r] /\ user'[r] = user[r]
        /\ connection' = r <=> connection = r
        /\ publishMu' = r <=> publishMu = r
  BY <1>1, <1>2, <1>3, Continues, PoolAssumption DEF Lock, Stands, IInv, Typed
<1>7. QED
  BY <1>2, <1>4, <1>5, <1>6, OneMoves

LEMMA UnlockStands ==
  ASSUME IInv, NEW s \in Slots, Unlock(s)
  PROVE  IInv'
<1>1. Ready(s) /\ Continue(s)
  BY DEF Unlock
<1>2. PICK a \in States, b \in States, e \in Ends :
        Stands(s, a) /\ Goes(a, NextStep(s), b) /\ Runs(todo'[s], b, e)
  BY <1>1, Continues
<1>3. a = "locked" /\ b = "user"
  BY <1>2 DEF Goes, Unlock, Holding, Quiet
<1>4. Typed'
  BY <1>1, Continues DEF IInv, Typed, Unlock
<1>5. Stands(s, b)'
  BY <1>2, <1>3, PoolAssumption DEF Unlock, Stands, IInv, Typed
<1>6. \A r \in Slots \ {s} :
        /\ todo'[r] = todo[r] /\ user'[r] = user[r]
        /\ connection' = r <=> connection = r
        /\ publishMu' = r <=> publishMu = r
  BY <1>1, <1>2, <1>3, Continues, PoolAssumption DEF Unlock, Stands, IInv, Typed
<1>7. QED
  BY <1>2, <1>4, <1>5, <1>6, OneMoves

LEMMA WorkStands ==
  ASSUME IInv, NEW s \in Slots, Work(s)
  PROVE  IInv'
<1>1. Ready(s) /\ Continue(s)
  BY DEF Work
<1>2. PICK a \in States, b \in States, e \in Ends :
        Stands(s, a) /\ Goes(a, NextStep(s), b) /\ Runs(todo'[s], b, e)
  BY <1>1, Continues
<1>3. b = a
  BY <1>2 DEF Goes, Work, Holding, Quiet
<1>4. Typed'
  BY <1>1, Continues DEF IInv, Typed, Work
<1>5. Stands(s, b)'
  BY <1>2, <1>3, PoolAssumption DEF Work, Stands, IInv, Typed
<1>6. \A r \in Slots \ {s} :
        /\ todo'[r] = todo[r] /\ user'[r] = user[r]
        /\ connection' = r <=> connection = r
        /\ publishMu' = r <=> publishMu = r
  BY <1>1, <1>2, <1>3, Continues, PoolAssumption DEF Work, Stands, IInv, Typed
<1>7. QED
  BY <1>2, <1>4, <1>5, <1>6, OneMoves

LEMMA VerifyStands ==
  ASSUME IInv, NEW s \in Slots, Verify(s)
  PROVE  IInv'
<1>1. PICK a \in States, e \in Ends : Runs(todo[s], a, e) /\ Stands(s, a)
  BY DEF IInv, EveryoneStands
<1>2. todo[s] \in Seq(Steps) /\ todo[s] # << >>
  BY DEF IInv, Typed, Verify, Ready
<1>3. PICK b \in States : Goes(a, "verify", b) /\ Runs(Tail(todo[s]), b, e)
  BY <1>1, <1>2, RunsTail DEF Verify, NextStep
<1>4. a = "stranger" /\ b = "user"
  BY <1>3 DEF Goes
<1>5. CASE Continue(s) /\ user' = [user EXCEPT ![s] = TRUE]
  <2>1. todo'[s] = Tail(todo[s]) /\ \A r \in Slots \ {s} : todo'[r] = todo[r]
    BY <1>5 DEF Continue, IInv, Typed
  <2>2. Typed'
    BY <1>2, <1>5 DEF Continue, IInv, Typed, Verify
  <2>3. Stands(s, b)'
    BY <1>1, <1>4, <1>5 DEF Stands, Verify, IInv, Typed
  <2>4. QED
    BY <1>3, <1>5, <2>1, <2>2, <2>3, OneMoves DEF Verify, IInv, Typed
<1>6. CASE todo' = [todo EXCEPT ![s] = << >>] /\ UNCHANGED user
  <2>1. todo'[s] = << >> /\ \A r \in Slots \ {s} : todo'[r] = todo[r]
    BY <1>6 DEF IInv, Typed
  <2>2. Typed'
    BY <1>6 DEF IInv, Typed, Verify
  <2>3. Stands(s, a)' /\ a \in Ends
    BY <1>1, <1>4, <1>6 DEF Stands, Verify, IInv, Typed, Ends
  <2>4. Runs(todo'[s], a, a)
    BY <2>1, RunsNothing
  <2>5. QED
    BY <1>6, <2>1, <2>2, <2>3, <2>4, OneMoves DEF Verify
<1>7. QED
  BY <1>5, <1>6 DEF Verify

\* The deferred calls give back what the request holds.
LEMMA DeferredRuns ==
  ASSUME NEW s \in Slots, NEW a \in States, Stands(s, a)
  PROVE  \E deferred \in Seq(Steps), e \in Ends :
           /\ deferred = Deferred(connection = s, publishMu = s)
           /\ Runs(deferred, a, e)
<1>1. /\ Deferred(FALSE, FALSE) = << >>
      /\ Deferred(TRUE, FALSE) = <<"rollback">>
      /\ Deferred(FALSE, TRUE) = <<"unlock">>
      /\ Deferred(TRUE, TRUE) = <<"rollback">> \o <<"unlock">>
  BY DEF Deferred
<1>2. Leads({<<"rollback">>}, "querying", "user") /\ Leads({<<"rollback">>}, "publishing", "locked")
  BY LeadsOne DEF Goes, States, Steps, Holding, Quiet
<1>3. Leads({<<"unlock">>}, "locked", "user")
  BY LeadsOne DEF Goes, States, Steps
<1>4. Leads({<<"rollback">> \o <<"unlock">>}, "publishing", "user")
  BY <1>2, <1>3, LeadsConcat
<1>5. CASE a \in {"stranger", "user"}
  <2>1. Deferred(connection = s, publishMu = s) = << >>
    BY <1>1, <1>5 DEF Stands
  <2>2. << >> \in Seq(Steps) /\ a \in Ends
    BY <1>5 DEF Ends
  <2>3. QED
    BY <2>1, <2>2, RunsNothing
<1>6. CASE a = "querying"
  <2>1. Deferred(connection = s, publishMu = s) = <<"rollback">>
    BY <1>1, <1>6 DEF Stands
  <2>2. QED
    BY <2>1, <1>2, <1>6 DEF Leads, Ends
<1>7. CASE a = "locked"
  <2>1. Deferred(connection = s, publishMu = s) = <<"unlock">>
    BY <1>1, <1>7 DEF Stands
  <2>2. QED
    BY <2>1, <1>3, <1>7 DEF Leads, Ends
<1>8. CASE a = "publishing"
  <2>1. Deferred(connection = s, publishMu = s) = <<"rollback">> \o <<"unlock">>
    BY <1>1, <1>8 DEF Stands
  <2>2. QED
    BY <2>1, <1>4, <1>8 DEF Leads, Ends
<1>9. QED
  BY <1>5, <1>6, <1>7, <1>8 DEF States

LEMMA ReturnStands ==
  ASSUME IInv, NEW s \in Slots, Return(s)
  PROVE  IInv'
<1>1. PICK a \in States : Stands(s, a)
  BY DEF IInv, EveryoneStands
<1>2. PICK deferred \in Seq(Steps), e \in Ends :
        deferred = Deferred(connection = s, publishMu = s) /\ Runs(deferred, a, e)
  BY <1>1, DeferredRuns
<1>3. todo' = [todo EXCEPT ![s] = deferred]
  BY <1>2 DEF Return
<1>4. Typed'
  BY <1>3 DEF IInv, Typed, Return
<1>5. Stands(s, a)' /\ todo'[s] = deferred
  BY <1>1, <1>3 DEF Stands, Return, IInv, Typed
<1>6. QED
  BY <1>2, <1>3, <1>4, <1>5, OneMoves DEF Return, IInv, Typed

LEMMA StepStands == IInv /\ [Next]_vars => IInv'
<1> SUFFICES ASSUME IInv, [Next]_vars
             PROVE  IInv'
  OBVIOUS
<1>1. ASSUME NEW s \in Slots, Accept(s)
      PROVE  IInv'
  BY <1>1, AcceptStands
<1>2. ASSUME NEW s \in Slots, Advance(s)
      PROVE  IInv'
  BY <1>2, StatementStands, VerifyStands, TakeStands, ReleaseStands, LockStands, UnlockStands, WorkStands
     DEF Advance
<1>3. ASSUME NEW s \in Slots, Return(s)
      PROVE  IInv'
  BY <1>3, ReturnStands
<1>4. CASE UNCHANGED vars
  BY <1>4 DEF vars, IInv, Typed, EveryoneStands, Stands
<1>5. QED
  BY <1>1, <1>2, <1>3, <1>4 DEF Next

\* Every request stands somewhere, and what it has left leads from there to an
\* end at which it holds nothing.
THEOREM Standing == Spec => []IInv
BY InitStands, StepStands, PTL DEF Spec

-----------------------------------------------------------------------------
(* What follows.                                                           *)

\* A request that has steps left, and where it stands.
LEMMA Position ==
  ASSUME IInv, NEW s \in Slots
  PROVE  \/ /\ ~Ready(s)
            /\ connection # s /\ publishMu # s
         \/ /\ Ready(s)
            /\ \E a \in States, b \in States : Stands(s, a) /\ Goes(a, NextStep(s), b)
<1>1. PICK a \in States, e \in Ends : Runs(todo[s], a, e) /\ Stands(s, a)
  BY DEF IInv, EveryoneStands
<1>2. todo[s] \in Seq(Steps)
  BY DEF IInv, Typed
<1>3. CASE todo[s] = << >>
  <2>1. PICK h \in [0..Len(<< >>) -> States] : h[0] = a /\ h[Len(<< >>)] = e
    BY <1>1, <1>3 DEF Runs
  <2>2. a = e
    BY <2>1
  <2>3. QED
    BY <1>1, <1>3, <2>2 DEF Stands, Ends, Ready
<1>4. CASE todo[s] # << >>
  BY <1>1, <1>2, <1>4, RunsTail DEF Ready, NextStep
<1>5. QED
  BY <1>3, <1>4

\* The request that holds the one connection never asks for it, nor for the
\* lock: its next step needs nothing that somebody else could hold.
THEOREM HoldersGoOn == Spec => []HolderNeverWaits
<1>1. IInv => HolderNeverWaits
  <2> SUFFICES ASSUME IInv, NEW s \in Slots, connection = s
               PROVE  Ready(s) /\ NextStep(s) \notin Waits
    BY DEF HolderNeverWaits
  <2>1. PICK a \in States, b \in States : Ready(s) /\ Stands(s, a) /\ Goes(a, NextStep(s), b)
    BY Position
  <2>2. QED
    BY <2>1 DEF Stands, Goes, Waits, Quiet, Holding
<1>2. QED
  BY <1>1, Standing, PTL

\* Whatever way a request ends, it has given back the connection and the lock.
THEOREM TheEndedHoldNothing == Spec => []EndedHoldNothing
<1>1. IInv => EndedHoldNothing
  BY Position DEF EndedHoldNothing, Ready
<1>2. QED
  BY <1>1, Standing, PTL

\* No handler reads, writes or touches a file before VerifyBearer has let its
\* request pass.
THEOREM StrangersGetNothing == Spec => []NothingWithoutUser
<1>1. IInv => NothingWithoutUser
  <2> SUFFICES ASSUME IInv, NEW s \in Slots, Ready(s), ~user[s]
               PROVE  NextStep(s) \in {"verify", "account"}
    BY DEF NothingWithoutUser
  <2>1. PICK a \in States, b \in States : Stands(s, a) /\ Goes(a, NextStep(s), b)
    BY Position
  <2>2. a = "stranger"
    BY <2>1 DEF Stands
  <2>3. QED
    BY <2>1, <2>2 DEF Goes, Quiet, Holding
<1>2. QED
  BY <1>1, Standing, PTL

\* What the next step of a request needs is free.
Unblocked(s) ==
  /\ Ready(s)
  /\ NextStep(s) \in Waits \ {"lock"} => connection = Nobody
  /\ NextStep(s) = "lock" => publishMu = Nobody

\* There is no circle of requests that wait for each other.
SomebodyGoesOn == (\E s \in Slots : Ready(s)) => \E s \in Slots : Unblocked(s)

\* As long as a request has steps left, some request can take its next one:
\* the holder of the connection if there is one, else the holder of publishMu,
\* else any.  So the pool of one connection and the lock cannot stop the server,
\* however many requests there are and however long their loops.
THEOREM NoDeadlock == Spec => []SomebodyGoesOn
<1>1. IInv => SomebodyGoesOn
  <2> SUFFICES ASSUME IInv, NEW s \in Slots, Ready(s)
               PROVE  \E r \in Slots : Unblocked(r)
    BY DEF SomebodyGoesOn
  <2>1. CASE connection # Nobody
    <3>1. connection \in Slots
      BY <2>1 DEF IInv, Typed
    <3>2. PICK a \in States, b \in States :
            Ready(connection) /\ Stands(connection, a) /\ Goes(a, NextStep(connection), b)
      BY <3>1, Position
    <3>3. Unblocked(connection)
      BY <3>1, <3>2 DEF Unblocked, Waits, Stands, Goes, Quiet, Holding
    <3>4. QED
      BY <3>1, <3>3
  <2>2. CASE connection = Nobody /\ publishMu # Nobody
    <3>1. publishMu \in Slots
      BY <2>2 DEF IInv, Typed
    <3>2. PICK a \in States, b \in States :
            Ready(publishMu) /\ Stands(publishMu, a) /\ Goes(a, NextStep(publishMu), b)
      BY <3>1, Position
    <3>3. a = "locked"
      BY <2>2, <3>1, <3>2, PoolAssumption DEF Stands
    <3>4. Unblocked(publishMu)
      BY <2>2, <3>2, <3>3 DEF Unblocked, Goes
    <3>5. QED
      BY <3>1, <3>4
  <2>3. CASE connection = Nobody /\ publishMu = Nobody
    BY <2>3 DEF Unblocked
  <2>4. QED
    BY <2>1, <2>2, <2>3
<1>2. QED
  BY <1>1, Standing, PTL
=============================================================================
