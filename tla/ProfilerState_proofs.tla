------------------------ MODULE ProfilerState_proofs ------------------------
(***************************************************************************)
(* Lemmas about the folds of ProfilerState: what one more instruction does *)
(* to the view and to the registered instructions of a sequence.           *)
(*                                                                         *)
(* Induction over the natural numbers is stated for a set, not for a       *)
(* predicate, and follows from the well-foundedness of finite sets.        *)
(***************************************************************************)
EXTENDS ProfilerState, FiniteSetTheorems, WellFoundedInduction, SequenceTheorems, TLAPS

(* A set with 0 that is closed under successor has every natural number.   *)
LEMMA SetInduction ==
  ASSUME NEW S \in SUBSET Nat, 0 \in S, \A n \in S : n + 1 \in S
  PROVE  S = Nat
<1> SUFFICES ASSUME S # Nat PROVE FALSE
  OBVIOUS
<1> DEFINE T == {1 .. n : n \in Nat \ S}
<1>1. T # {}
  OBVIOUS
<1>2. T \subseteq FiniteSubsetsOf(Nat)
  <2> SUFFICES ASSUME NEW n \in Nat PROVE 1 .. n \in FiniteSubsetsOf(Nat)
    OBVIOUS
  <2>1. IsFiniteSet(1 .. n)
    BY FS_Interval
  <2>2. 1 .. n \in SUBSET Nat
    OBVIOUS
  <2> QED BY <2>1, <2>2 DEF FiniteSubsetsOf
<1>3. IsWellFoundedOn(StrictSubsetOrdering(Nat), FiniteSubsetsOf(Nat))
  BY FS_StrictSubsetOrderingWellFounded
<1>4. PICK x \in T : \A y \in T : ~ (<<y, x>> \in StrictSubsetOrdering(Nat))
  BY <1>1, <1>2, <1>3, WFMin
<1>5. PICK n \in Nat \ S : x = 1 .. n
  BY <1>4
<1>6. n - 1 \in Nat /\ n = (n - 1) + 1
  OBVIOUS
<1>7. 1 .. n - 1 \in T
  BY <1>6
<1>8. <<1 .. n - 1, 1 .. n>> \in StrictSubsetOrdering(Nat)
  BY <1>6 DEF StrictSubsetOrdering
<1> QED BY <1>4, <1>5, <1>7, <1>8

(* f starts with v, and goes on from n - 1 to n as step says.              *)
Iterates(f, v, N, step) == f[0] = v /\ \A n \in 1 .. N : f[n] = step[n][f[n - 1]]

(* A function on 0 .. N that is defined by its first value and a step      *)
(* exists,                                                                 *)
LEMMA RecursionExists ==
  ASSUME NEW S, NEW v \in S, NEW N \in Nat, NEW step,
         \A n \in 1 .. N : \A x \in S : step[n][x] \in S
  PROVE  \E f \in [0 .. N -> S] : Iterates(f, v, N, step)
<1> DEFINE Def(f, k) == /\ f \in [0 .. k -> S] /\ f[0] = v
                        /\ \A n \in 1 .. k : f[n] = step[n][f[n - 1]]
           Good == {k \in Nat : k <= N => \E f : Def(f, k)}
<1>1. 0 \in Good
  <2>1. Def([n \in 0 .. 0 |-> v], 0)
    OBVIOUS
  <2> QED BY <2>1
<1>2. ASSUME NEW k \in Good PROVE k + 1 \in Good
  <2> SUFFICES ASSUME k + 1 <= N PROVE \E f : Def(f, k + 1)
    OBVIOUS
  <2>1. PICK g : Def(g, k)
    BY <1>2
  <2> DEFINE f == [n \in 0 .. k + 1 |-> IF n = k + 1 THEN step[n][g[k]] ELSE g[n]]
  <2>2. k \in Nat /\ k + 1 \in 1 .. N /\ g[k] \in S
    BY <1>2, <2>1
  <2>3. step[k + 1][g[k]] \in S
    BY <2>2
  <2>4. f \in [0 .. k + 1 -> S] /\ f[0] = v
    BY <2>1, <2>2, <2>3
  <2>5. ASSUME NEW n \in 1 .. k + 1 PROVE f[n] = step[n][f[n - 1]]
    <3>1. n - 1 \in 0 .. k /\ f[n - 1] = g[n - 1]
      BY <2>2
    <3> QED BY <2>1, <2>2, <3>1
  <2> QED BY <2>4, <2>5
<1> HIDE DEF Good
<1>3. Good = Nat
  <2>1. Good \in SUBSET Nat
    BY DEF Good
  <2> QED BY <1>1, <1>2, <2>1, SetInduction
<1>4. PICK f : Def(f, N)
  <2>1. N \in Good
    BY <1>3
  <2>2. N <= N => \E f : Def(f, N)
    BY <2>1 DEF Good
  <2>3. N <= N
    OBVIOUS
  <2> QED BY <2>2, <2>3
<1> QED BY <1>4 DEF Iterates

\* f and g start alike and go on alike.
GoOnAlike(f, g, N) == f[0] = g[0] /\ \A n \in 1 .. N : f[n - 1] = g[n - 1] => f[n] = g[n]
Alike(f, g, N) == \A n \in 0 .. N : f[n] = g[n]

(* and two that start alike and go on alike are equal.                     *)
LEMMA RecursionAgrees ==
  ASSUME NEW N \in Nat, NEW f, NEW g, GoOnAlike(f, g, N)
  PROVE  Alike(f, g, N)
<1> USE DEF GoOnAlike, Alike
<1> DEFINE Good == {n \in Nat : n <= N => f[n] = g[n]}
<1>1. 0 \in Good
  OBVIOUS
<1>2. ASSUME NEW n \in Good PROVE n + 1 \in Good
  <2> SUFFICES ASSUME n + 1 <= N PROVE f[n + 1] = g[n + 1]
    OBVIOUS
  <2>1. n \in Nat /\ n + 1 \in 1 .. N /\ (n + 1) - 1 = n /\ f[n] = g[n]
    OBVIOUS
  <2> QED BY <2>1
<1>3. Good \in SUBSET Nat
  OBVIOUS
<1> HIDE DEF Good
<1>4. Good = Nat
  BY <1>1, <1>2, <1>3, SetInduction
<1> QED BY <1>4 DEF Good

-----------------------------------------------------------------------------
\* The view.

Views == [curpid : Pids, stacks : [Pids -> Seq(Names)]]

(* Hooks and pops keep a view a view.                                      *)
LEMMA InterceptedType ==
  ASSUME NEW v \in Views, NEW i \in Insn
  PROVE  /\ Hooked(v, i) \in Views /\ Popped(v) \in Views
         /\ Intercepted(v, i) \in Views
<1>1. /\ v.curpid \in Pids /\ v.stacks \in [Pids -> Seq(Names)]
      /\ i.fn \in Names /\ i.to \in Pids \union {SamePid}
  BY DEF Views, Insn
<1>2. Hooked(v, i) \in Views
  <2> DEFINE cur == IF i.to = SamePid THEN v.curpid ELSE i.to
  <2>1. cur \in Pids
    BY <1>1
  <2>2. Append(v.stacks[cur], i.fn) \in Seq(Names)
    BY <1>1, <2>1, AppendProperties
  <2>3. [v.stacks EXCEPT ![cur] = Append(@, i.fn)] \in [Pids -> Seq(Names)]
    BY <1>1, <2>1, <2>2
  <2> QED BY <1>1, <2>1, <2>3 DEF Hooked, Views
<1>3. Popped(v) \in Views
  <2> DEFINE st == v.stacks[v.curpid]
             cut == SubSeq(st, 1, Len(st) - 1)
  <2>1. st \in Seq(Names) /\ Len(st) \in Nat
    BY <1>1, LenProperties
  <2>2. \A k \in 1 .. Len(st) - 1 : st[k] \in Names
    BY <2>1, ElementOfSeq
  <2>3. cut \in Seq(Names)
    BY <2>1, <2>2, SubSeqProperties
  <2> HIDE DEF cut
  <2>4. Popped(v) = [v EXCEPT !.stacks = [v.stacks EXCEPT ![v.curpid] = cut]]
    BY DEF Popped, cut
  <2>5. [v.stacks EXCEPT ![v.curpid] = cut] \in [Pids -> Seq(Names)]
    BY <1>1, <2>3
  <2> QED BY <2>4, <2>5 DEF Views
<1> QED BY <1>2, <1>3 DEF Intercepted, Insn

(* The views after each of the instructions of s, and the last of them.    *)
ViewSteps(f, v, s) ==
  /\ f[0] = v /\ f[Len(s)] = ViewAfter(v, s)
  /\ \A n \in 1 .. Len(s) : f[n] = Intercepted(f[n - 1], s[n])

(* ViewAfter takes one view after the other.                               *)
LEMMA ViewStepsExist ==
  ASSUME NEW v \in Views, NEW s \in Seq(Insn)
  PROVE  \E f \in [0 .. Len(s) -> Views] : ViewSteps(f, v, s)
<1> DEFINE N == Len(s)
           step == [n \in 1 .. N |-> [u \in Views |-> Intercepted(u, s[n])]]
<1>1. N \in Nat /\ \A n \in 1 .. N : s[n] \in Insn
  BY LenProperties, ElementOfSeq
<1>2. \A n \in 1 .. N : \A u \in Views : step[n][u] \in Views
  BY <1>1, InterceptedType
<1>3. ViewAfter(v, s) =
        (CHOOSE h : h = [n \in 0 .. N |-> IF n = 0 THEN v ELSE Intercepted(h[n - 1], s[n])])[N]
  BY DEF ViewAfter
<1>4. \A u \in Views, n \in 1 .. N : step[n][u] = Intercepted(u, s[n])
  OBVIOUS
<1> HIDE DEF N, step
<1>5. PICK g \in [0 .. N -> Views] : Iterates(g, v, N, step)
  <2>1. N \in Nat /\ v \in Views
    BY <1>1
  <2> QED BY <1>2, <2>1, RecursionExists
<1>6. ASSUME NEW n \in 0 .. N, n # 0 PROVE n \in 1 .. N /\ g[n - 1] \in Views
  BY <1>1, <1>5, <1>6
<1> DEFINE Is(h) == h = [n \in 0 .. N |-> IF n = 0 THEN v ELSE Intercepted(h[n - 1], s[n])]
           f == CHOOSE h : Is(h)
<1>7. Is(g)
  BY <1>4, <1>5, <1>6 DEF Iterates
<1>8. Is(f) /\ f[N] = ViewAfter(v, s)
  BY <1>3, <1>7, Zenon
<1> HIDE DEF f
<1>9. f[0] = v /\ \A n \in 1 .. N : f[n] = Intercepted(f[n - 1], s[n])
  BY <1>1, <1>8
<1>10. g[0] = v /\ \A n \in 1 .. N : g[n] = Intercepted(g[n - 1], s[n])
  BY <1>1, <1>7
<1>11. \A n \in 0 .. N : f[n] = g[n]
  <2>1. \A n \in 1 .. N : f[n - 1] = g[n - 1] => f[n] = g[n]
    BY <1>9, <1>10
  <2>2. N \in Nat /\ f[0] = g[0]
    BY <1>1, <1>9, <1>10
  <2> HIDE DEF Is
  <2>3. GoOnAlike(f, g, N)
    BY <2>1, <2>2 DEF GoOnAlike
  <2>4. Alike(f, g, N)
    BY <2>2, <2>3, RecursionAgrees
  <2> QED BY <2>4 DEF Alike
<1>12. f = g
  BY <1>5, <1>8, <1>11
<1>13. ViewSteps(f, v, s)
  BY <1>8, <1>9 DEF ViewSteps, N
<1> QED BY <1>5, <1>12, <1>13 DEF N

(* No instruction, no change.                                              *)
LEMMA ViewAfterNone == ASSUME NEW v \in Views PROVE ViewAfter(v, <<>>) = v
<1>1. <<>> \in Seq(Insn) /\ Len(<<>>) = 0
  OBVIOUS
<1>2. PICK f \in [0 .. 0 -> Views] : ViewSteps(f, v, <<>>)
  BY <1>1, ViewStepsExist
<1> QED BY <1>1, <1>2 DEF ViewSteps

(* One more instruction, one more interception.                            *)
LEMMA ViewAfterAppend ==
  ASSUME NEW v \in Views, NEW s \in Seq(Insn), NEW i \in Insn
  PROVE  /\ ViewAfter(v, s) \in Views
         /\ ViewAfter(v, Append(s, i)) = Intercepted(ViewAfter(v, s), i)
<1> DEFINE t == Append(s, i)
           N == Len(s)
<1>1. /\ N \in Nat /\ t \in Seq(Insn) /\ Len(t) = N + 1 /\ t[N + 1] = i
      /\ \A n \in 1 .. N : t[n] = s[n]
  BY LenProperties, AppendProperties
<1>2. PICK f \in [0 .. N -> Views] : ViewSteps(f, v, s)
  BY ViewStepsExist
<1> HIDE DEF t
<1>3. PICK g \in [0 .. Len(t) -> Views] : ViewSteps(g, v, t)
  BY <1>1, ViewStepsExist
<1> HIDE DEF N
<1>4. f[0] = v /\ f[N] = ViewAfter(v, s) /\ \A n \in 1 .. N : f[n] = Intercepted(f[n - 1], s[n])
  BY <1>2 DEF ViewSteps, N
<1>5. /\ g[0] = v /\ g[N + 1] = ViewAfter(v, t)
      /\ \A n \in 1 .. N + 1 : g[n] = Intercepted(g[n - 1], t[n])
  BY <1>1, <1>3 DEF ViewSteps
<1>6. \A n \in 0 .. N : f[n] = g[n]
  <2>1. \A n \in 1 .. N : f[n - 1] = g[n - 1] => f[n] = g[n]
    <3> SUFFICES ASSUME NEW n \in 1 .. N, f[n - 1] = g[n - 1] PROVE f[n] = g[n]
      OBVIOUS
    <3>1. n \in 1 .. N + 1
      BY <1>1
    <3>2. t[n] = s[n]
      BY <1>1, Zenon
    <3> QED BY <1>4, <1>5, <3>1, <3>2
  <2>2. N \in Nat /\ f[0] = g[0]
    BY <1>1, <1>4, <1>5
  <2>3. GoOnAlike(f, g, N)
    BY <2>1, <2>2 DEF GoOnAlike
  <2>4. Alike(f, g, N)
    BY <2>2, <2>3, RecursionAgrees
  <2> QED BY <2>4 DEF Alike
<1>7. f[N] = g[N] /\ N + 1 \in 1 .. N + 1 /\ (N + 1) - 1 = N /\ N \in 0 .. N
  BY <1>1, <1>6
<1>8. g[N + 1] = Intercepted(g[N], i)
  BY <1>1, <1>5, <1>7
<1>9. f[N] \in Views
  BY <1>2, <1>7 DEF N
<1> QED BY <1>4, <1>5, <1>7, <1>8, <1>9 DEF t

-----------------------------------------------------------------------------
\* The registered instructions.

(* The registered ones among the first n instructions of s, for each n.    *)
SelectSteps(f, s) ==
  /\ f[0] = <<>> /\ f[Len(s)] = Registered(s)
  /\ \A n \in 1 .. Len(s) : f[n] = IF s[n].kind = "plain" THEN f[n - 1] ELSE Append(f[n - 1], s[n])

(* Registered selects one instruction after the other.                     *)
LEMMA SelectStepsExist ==
  ASSUME NEW s \in Seq(Insn)
  PROVE  \E f \in [0 .. Len(s) -> Seq(Insn)] : SelectSteps(f, s)
<1> DEFINE N == Len(s)
           Put(u, n) == IF s[n].kind = "plain" THEN u ELSE Append(u, s[n])
           step == [n \in 1 .. N |-> [u \in Seq(Insn) |-> Put(u, n)]]
<1>1. N \in Nat /\ \A n \in 1 .. N : s[n] \in Insn
  BY LenProperties, ElementOfSeq
<1>2. \A n \in 1 .. N : \A u \in Seq(Insn) : step[n][u] \in Seq(Insn)
  BY <1>1, AppendProperties
<1>3. Registered(s) =
        (CHOOSE h : h = [n \in 0 .. N |-> IF n = 0 THEN <<>> ELSE Put(h[n - 1], n)])[N]
  BY DEF Registered
<1>4. \A u \in Seq(Insn), n \in 1 .. N : step[n][u] = Put(u, n)
  OBVIOUS
<1>14. \A u, n : Put(u, n) = IF s[n].kind = "plain" THEN u ELSE Append(u, s[n])
  OBVIOUS
<1> HIDE DEF N, step, Put
<1>5. PICK g \in [0 .. N -> Seq(Insn)] : Iterates(g, <<>>, N, step)
  <2>1. N \in Nat /\ <<>> \in Seq(Insn)
    BY <1>1
  <2> QED BY <1>2, <2>1, RecursionExists
<1>6. ASSUME NEW n \in 0 .. N, n # 0 PROVE n \in 1 .. N /\ g[n - 1] \in Seq(Insn)
  BY <1>1, <1>5, <1>6
<1> DEFINE Is(h) == h = [n \in 0 .. N |-> IF n = 0 THEN <<>> ELSE Put(h[n - 1], n)]
           f == CHOOSE h : Is(h)
<1>7. Is(g)
  BY <1>4, <1>5, <1>6 DEF Iterates
<1>8. Is(f) /\ f[N] = Registered(s)
  BY <1>3, <1>7, Zenon
<1> HIDE DEF f
<1>9. f[0] = <<>> /\ \A n \in 1 .. N : f[n] = Put(f[n - 1], n)
  BY <1>1, <1>8
<1>10. g[0] = <<>> /\ \A n \in 1 .. N : g[n] = Put(g[n - 1], n)
  BY <1>1, <1>7
<1>11. \A n \in 0 .. N : f[n] = g[n]
  <2>1. \A n \in 1 .. N : f[n - 1] = g[n - 1] => f[n] = g[n]
    BY <1>9, <1>10
  <2>2. N \in Nat /\ f[0] = g[0]
    BY <1>1, <1>9, <1>10
  <2> HIDE DEF Is
  <2>3. GoOnAlike(f, g, N)
    BY <2>1, <2>2 DEF GoOnAlike
  <2>4. Alike(f, g, N)
    BY <2>2, <2>3, RecursionAgrees
  <2> QED BY <2>4 DEF Alike
<1>12. f = g
  BY <1>5, <1>8, <1>11
<1>13. SelectSteps(f, s)
  BY <1>8, <1>9, <1>14 DEF SelectSteps, N
<1> QED BY <1>5, <1>12, <1>13 DEF N

(* Of no instruction none is registered.                                   *)
LEMMA RegisteredNone == Registered(<<>>) = <<>>
<1>1. <<>> \in Seq(Insn) /\ Len(<<>>) = 0
  OBVIOUS
<1>2. PICK f \in [0 .. 0 -> Seq(Insn)] : SelectSteps(f, <<>>)
  BY <1>1, SelectStepsExist
<1> QED BY <1>1, <1>2 DEF SelectSteps

(* One more instruction is selected when it is registered.                 *)
LEMMA RegisteredAppend ==
  ASSUME NEW s \in Seq(Insn), NEW i \in Insn
  PROVE  /\ Registered(s) \in Seq(Insn)
         /\ Registered(Append(s, i)) =
              IF i.kind = "plain" THEN Registered(s) ELSE Append(Registered(s), i)
<1> DEFINE t == Append(s, i)
           N == Len(s)
<1>1. /\ N \in Nat /\ t \in Seq(Insn) /\ Len(t) = N + 1 /\ t[N + 1] = i
      /\ \A n \in 1 .. N : t[n] = s[n]
  BY LenProperties, AppendProperties
<1>2. PICK f \in [0 .. N -> Seq(Insn)] : SelectSteps(f, s)
  BY SelectStepsExist
<1> HIDE DEF t
<1>3. PICK g \in [0 .. Len(t) -> Seq(Insn)] : SelectSteps(g, t)
  BY <1>1, SelectStepsExist
<1> HIDE DEF N
<1>4. /\ f[0] = <<>> /\ f[N] = Registered(s)
      /\ \A n \in 1 .. N : f[n] = IF s[n].kind = "plain" THEN f[n - 1] ELSE Append(f[n - 1], s[n])
  BY <1>2 DEF SelectSteps, N
<1>5. /\ g[0] = <<>> /\ g[N + 1] = Registered(t)
      /\ \A n \in 1 .. N + 1 :
           g[n] = IF t[n].kind = "plain" THEN g[n - 1] ELSE Append(g[n - 1], t[n])
  BY <1>1, <1>3 DEF SelectSteps
<1>6. \A n \in 0 .. N : f[n] = g[n]
  <2>1. \A n \in 1 .. N : f[n - 1] = g[n - 1] => f[n] = g[n]
    <3> SUFFICES ASSUME NEW n \in 1 .. N, f[n - 1] = g[n - 1] PROVE f[n] = g[n]
      OBVIOUS
    <3>1. n \in 1 .. N + 1
      BY <1>1
    <3>2. t[n] = s[n]
      BY <1>1, Zenon
    <3> QED BY <1>4, <1>5, <3>1, <3>2
  <2>2. N \in Nat /\ f[0] = g[0]
    BY <1>1, <1>4, <1>5
  <2>3. GoOnAlike(f, g, N)
    BY <2>1, <2>2 DEF GoOnAlike
  <2>4. Alike(f, g, N)
    BY <2>2, <2>3, RecursionAgrees
  <2> QED BY <2>4 DEF Alike
<1>7. f[N] = g[N] /\ N + 1 \in 1 .. N + 1 /\ (N + 1) - 1 = N /\ N \in 0 .. N
  BY <1>1, <1>6
<1>8. g[N + 1] = IF i.kind = "plain" THEN g[N] ELSE Append(g[N], i)
  BY <1>1, <1>5, <1>7
<1>9. f[N] \in Seq(Insn)
  BY <1>2, <1>7 DEF N
<1> QED BY <1>4, <1>5, <1>7, <1>8, <1>9 DEF t

-----------------------------------------------------------------------------
\* A program followed by plain instructions.

Nth(c, k) == IF k \in 1 .. Len(c) THEN c[k] ELSE Plain(1, "no")

\* The first n instructions, the registered ones among them, and the view
\* they leave.
FirstOf(c, n) == [k \in 1 .. n |-> Nth(c, k)]
Reg(c, n) == Registered(FirstOf(c, n))
ViewAt(v, c, n) == ViewAfter(v, FirstOf(c, n))

(* Its instructions are instructions; those after its end are plain.       *)
LEMMA NthType ==
  ASSUME NEW c \in Seq(Insn), NEW k
  PROVE  /\ Nth(c, k) \in Insn
         /\ Nth(c, k).kind # "plain" => k \in 1 .. Len(c) /\ Nth(c, k) = c[k]
<1>1. Plain(1, "no") \in Insn /\ Plain(1, "no").kind = "plain"
  <2>1. "" \in Names /\ "none" \in STRING \union {"none"}
    BY DEF Names
  <2>2. /\ "plain" \in {"start", "exit", "plain"} /\ SamePid \in Pids \union {SamePid}
        /\ FALSE \in BOOLEAN /\ 1 \in 1 .. 2 /\ "no" \in {"no", "trap", "wfi"} /\ 0 \in Nat
    OBVIOUS
  <2> QED BY <2>1, <2>2, Zenon DEF Plain, Insn
<1>2. \A i \in 1 .. Len(c) : c[i] \in Insn
  BY ElementOfSeq
<1> QED BY <1>1, <1>2 DEF Nth

(* The first n + 1 are the first n and one more.                           *)
LEMMA FirstNext ==
  ASSUME NEW c \in Seq(Insn), NEW n \in Nat
  PROVE  /\ FirstOf(c, n) \in Seq(Insn) /\ FirstOf(c, 0) = <<>>
         /\ FirstOf(c, n + 1) = Append(FirstOf(c, n), Nth(c, n + 1))
<1>1. \A k : Nth(c, k) \in Insn
  BY NthType
<1>2. \A m \in Nat : FirstOf(c, m) \in Seq(Insn) /\ Len(FirstOf(c, m)) = m
  BY <1>1, SeqDef, LenProperties DEF FirstOf
<1>3. FirstOf(c, 0) = <<>>
  BY DEF FirstOf
<1> DEFINE s == FirstOf(c, n)
           t == FirstOf(c, n + 1)
           a == Append(s, Nth(c, n + 1))
<1>4. s \in Seq(Insn) /\ Len(s) = n /\ t \in Seq(Insn) /\ Len(t) = n + 1
  BY <1>2
<1>5. a \in Seq(Insn) /\ Len(a) = n + 1 /\ a[n + 1] = Nth(c, n + 1) /\ \A k \in 1 .. n : a[k] = s[k]
  BY <1>1, <1>4, AppendProperties
<1>6. \A k \in 1 .. n + 1 : t[k] = Nth(c, k) /\ (k \in 1 .. n => s[k] = Nth(c, k))
  BY DEF FirstOf
<1>7. ASSUME NEW k \in 1 .. n + 1 PROVE a[k] = t[k]
  <2>1. k = n + 1 \/ k \in 1 .. n
    OBVIOUS
  <2> QED BY <1>5, <1>6, <2>1
<1> HIDE DEF s, t, a
<1>8. a = t
  BY <1>4, <1>5, <1>7, SeqEqual
<1> QED BY <1>2, <1>3, <1>8 DEF s, t, a

(* The first Len(c) are the program.                                       *)
LEMMA FirstAll ==
  ASSUME NEW c \in Seq(Insn), NEW n \in 0 .. Len(c)
  PROVE  FirstOf(c, Len(c)) = c /\ SubSeq(c, 1, n) = FirstOf(c, n)
<1>1. Len(c) \in Nat /\ c = [k \in 1 .. Len(c) |-> c[k]]
  BY LenProperties
<1>2. \A k \in 1 .. Len(c) : Nth(c, k) = c[k]
  BY DEF Nth
<1>3. FirstOf(c, Len(c)) = c
  BY <1>1, <1>2 DEF FirstOf
<1>4. SubSeq(c, 1, n) = [k \in 1 .. n |-> c[k]]
  BY <1>1
<1>5. FirstOf(c, n) = [k \in 1 .. n |-> c[k]]
  BY <1>1, <1>2 DEF FirstOf
<1> QED BY <1>3, <1>4, <1>5

(* The view after one more instruction.                                    *)
LEMMA ViewNext ==
  ASSUME NEW v \in Views, NEW c \in Seq(Insn), NEW n \in Nat
  PROVE  /\ ViewAt(v, c, 0) = v /\ ViewAt(v, c, n) \in Views
         /\ ViewAt(v, c, n + 1) = Intercepted(ViewAt(v, c, n), Nth(c, n + 1))
         /\ Nth(c, n + 1).kind = "plain" => ViewAt(v, c, n + 1) = ViewAt(v, c, n)
<1>1. FirstOf(c, n) \in Seq(Insn) /\ Nth(c, n + 1) \in Insn
  BY FirstNext, NthType
<1>2. ViewAt(v, c, 0) = v
  <2>1. FirstOf(c, 0) = <<>>
    BY FirstNext
  <2> QED BY <2>1, ViewAfterNone DEF ViewAt
<1>3. FirstOf(c, n + 1) = Append(FirstOf(c, n), Nth(c, n + 1))
  BY FirstNext
<1>4. /\ ViewAfter(v, FirstOf(c, n)) \in Views
      /\ ViewAfter(v, Append(FirstOf(c, n), Nth(c, n + 1))) =
           Intercepted(ViewAfter(v, FirstOf(c, n)), Nth(c, n + 1))
  BY <1>1, ViewAfterAppend
<1>5. /\ ViewAt(v, c, n) \in Views
      /\ ViewAt(v, c, n + 1) = Intercepted(ViewAt(v, c, n), Nth(c, n + 1))
  BY <1>3, <1>4 DEF ViewAt
<1> QED BY <1>2, <1>5 DEF Intercepted

(* One more instruction is one more registered, or none.                   *)
LEMMA RegNext ==
  ASSUME NEW c \in Seq(Insn), NEW n \in Nat
  PROVE  /\ Reg(c, 0) = <<>> /\ Reg(c, n) \in Seq(Insn) /\ Len(Reg(c, n)) \in Nat
         /\ Nth(c, n + 1).kind = "plain" => Reg(c, n + 1) = Reg(c, n)
         /\ Nth(c, n + 1).kind # "plain" =>
              /\ Len(Reg(c, n + 1)) = Len(Reg(c, n)) + 1
              /\ Reg(c, n + 1)[Len(Reg(c, n)) + 1] = Nth(c, n + 1)
              /\ \A i \in 1 .. Len(Reg(c, n)) : Reg(c, n + 1)[i] = Reg(c, n)[i]
<1> DEFINE i == Nth(c, n + 1)
           r == Reg(c, n)
<1>1. FirstOf(c, n) \in Seq(Insn) /\ i \in Insn
  BY FirstNext, NthType
<1>2. /\ Reg(c, 0) = <<>> /\ r \in Seq(Insn)
      /\ Reg(c, n + 1) = IF i.kind = "plain" THEN r ELSE Append(r, i)
  BY <1>1, FirstNext, RegisteredNone, RegisteredAppend DEF Reg
<1>3. Len(r) \in Nat
  BY <1>2, LenProperties
<1> HIDE DEF i, r
<1>4. /\ Len(Append(r, i)) = Len(r) + 1 /\ Append(r, i)[Len(r) + 1] = i
      /\ \A k \in 1 .. Len(r) : Append(r, i)[k] = r[k]
  BY <1>1, <1>2, AppendProperties
<1> QED BY <1>2, <1>3, <1>4 DEF i, r

(* The registered among the first n are the first of those registered.     *)
Prefix(s, t) == Len(s) <= Len(t) /\ \A i \in 1 .. Len(s) : s[i] = t[i]

(* They are a prefix.                                                     *)
LEMMA RegPrefix ==
  ASSUME NEW c \in Seq(Insn), NEW n \in Nat, NEW k \in Nat
  PROVE  Prefix(Reg(c, n), Reg(c, n + k))
<1> DEFINE Good == {i \in Nat : Prefix(Reg(c, n), Reg(c, n + i))}
<1>1. 0 \in Good
  <2>1. Len(Reg(c, n)) \in Nat
    BY RegNext
  <2> QED BY <2>1 DEF Prefix
<1>2. ASSUME NEW i \in Good PROVE i + 1 \in Good
  <2>1. i \in Nat /\ n + i \in Nat /\ n + (i + 1) = (n + i) + 1
    OBVIOUS
  <2>2. Prefix(Reg(c, n), Reg(c, n + i))
    OBVIOUS
  <2>3. Len(Reg(c, n)) \in Nat /\ Len(Reg(c, n + i)) \in Nat
    BY <2>1, RegNext
  <2>4. \/ Reg(c, (n + i) + 1) = Reg(c, n + i)
        \/ /\ Len(Reg(c, (n + i) + 1)) = Len(Reg(c, n + i)) + 1
           /\ \A j \in 1 .. Len(Reg(c, n + i)) : Reg(c, (n + i) + 1)[j] = Reg(c, n + i)[j]
    BY <2>1, RegNext
  <2>5. Prefix(Reg(c, n), Reg(c, (n + i) + 1))
    BY <2>2, <2>3, <2>4 DEF Prefix
  <2> QED BY <2>1, <2>5
<1>3. Good \in SUBSET Nat
  OBVIOUS
<1> HIDE DEF Good
<1>4. Good = Nat
  BY <1>1, <1>2, <1>3, SetInduction
<1> QED BY <1>4 DEF Good

(* A registered instruction is the next of the program's registered ones.  *)
LEMMA NextRegistered ==
  ASSUME NEW c \in Seq(Insn), NEW n \in Nat, Nth(c, n + 1).kind # "plain"
  PROVE  /\ n + 1 \in 1 .. Len(c) /\ Len(Reg(c, n)) < Len(Registered(c))
         /\ Registered(c)[Len(Reg(c, n)) + 1] = Nth(c, n + 1)
         /\ Len(Reg(c, n + 1)) = Len(Reg(c, n)) + 1
<1>1. n + 1 \in 1 .. Len(c) /\ Len(c) \in Nat
  BY NthType, LenProperties
<1>2. Registered(c) = Reg(c, Len(c))
  <2>1. Len(c) \in 0 .. Len(c)
    BY <1>1
  <2> QED BY <2>1, FirstAll DEF Reg
<1>3. /\ Len(Reg(c, n + 1)) = Len(Reg(c, n)) + 1 /\ Reg(c, n + 1)[Len(Reg(c, n)) + 1] = Nth(c, n + 1)
      /\ Len(Reg(c, n)) \in Nat
  BY RegNext
<1>4. PICK k \in Nat : Len(c) = (n + 1) + k
  <2>1. Len(c) - (n + 1) \in Nat /\ Len(c) = (n + 1) + (Len(c) - (n + 1))
    BY <1>1
  <2> QED BY <2>1
<1>5. Prefix(Reg(c, n + 1), Registered(c))
  <2>1. n + 1 \in Nat
    OBVIOUS
  <2>2. Prefix(Reg(c, n + 1), Reg(c, (n + 1) + k))
    BY <2>1, RegPrefix
  <2> QED BY <1>2, <1>4, <2>2
<1>6. Len(Registered(c)) \in Nat
  BY <1>1, <1>2, RegNext
<1> QED BY <1>1, <1>3, <1>5, <1>6 DEF Prefix

(* From the n-th instruction to a later one nothing is registered, or there*)
(* is a first one that is.                                                 *)
Quiet(v, c, n, k) == Reg(c, k) = Reg(c, n) /\ ViewAt(v, c, k) = ViewAt(v, c, n)
StopsAt(v, c, n, k) == Nth(c, k + 1).kind # "plain" /\ Quiet(v, c, n, k)

(* One of the two is the case.                                             *)
LEMMA QuietOrStops ==
  ASSUME NEW v \in Views, NEW c \in Seq(Insn), NEW n \in Nat, NEW k \in Nat
  PROVE  Quiet(v, c, n, n + k) \/ \E i \in n .. n + k - 1 : StopsAt(v, c, n, i)
<1> DEFINE P(j) == Quiet(v, c, n, n + j) \/ \E i \in n .. n + j - 1 : StopsAt(v, c, n, i)
           Good == {j \in Nat : P(j)}
<1>1. 0 \in Good
  BY DEF Quiet
<1>2. ASSUME NEW j \in Good PROVE j + 1 \in Good
  <2>1. j \in Nat /\ n + j \in Nat /\ n + (j + 1) = (n + j) + 1 /\ P(j)
    OBVIOUS
  <2>2. CASE \E i \in n .. n + j - 1 : StopsAt(v, c, n, i)
    BY <2>1, <2>2
  <2>3. CASE Quiet(v, c, n, n + j)
    <3>1. CASE Nth(c, (n + j) + 1).kind # "plain"
      <4>1. StopsAt(v, c, n, n + j) /\ n + j \in n .. n + (j + 1) - 1
        BY <2>1, <2>3, <3>1 DEF StopsAt
      <4> QED BY <4>1
    <3>2. CASE Nth(c, (n + j) + 1).kind = "plain"
      <4>1. Reg(c, (n + j) + 1) = Reg(c, n + j) /\ ViewAt(v, c, (n + j) + 1) = ViewAt(v, c, n + j)
        BY <2>1, <3>2, RegNext, ViewNext
      <4> QED BY <2>1, <2>3, <4>1 DEF Quiet
    <3> QED BY <3>1, <3>2
  <2> QED BY <2>1, <2>2, <2>3
<1>3. Good \in SUBSET Nat
  OBVIOUS
<1> HIDE DEF Good
<1>4. Good = Nat
  BY <1>1, <1>2, <1>3, SetInduction
<1> QED BY <1>4 DEF Good

-----------------------------------------------------------------------------
\* The trace entries the first n instructions leave.

Adds(c, N) == [n \in 1 .. N |-> [u \in Nat |-> u + Nth(c, n).entries]]
Offsets(c, N) == CHOOSE f \in [0 .. N -> Nat] : Iterates(f, 0, N, Adds(c, N))
Off(c, n) == Offsets(c, n)[n]

(* One more instruction leaves one or two more.                            *)
LEMMA OffNext ==
  ASSUME NEW c \in Seq(Insn), NEW n \in Nat
  PROVE  /\ Off(c, 0) = 0 /\ Off(c, n) \in Nat /\ Nth(c, n + 1).entries \in 1 .. 2
         /\ Off(c, n + 1) = Off(c, n) + Nth(c, n + 1).entries
<1>1. \A k : Nth(c, k).entries \in 1 .. 2
  BY NthType DEF Insn
<1>2. ASSUME NEW N \in Nat
      PROVE  Offsets(c, N) \in [0 .. N -> Nat] /\ Iterates(Offsets(c, N), 0, N, Adds(c, N))
  <2>1. \A m \in 1 .. N : \A u \in Nat : Adds(c, N)[m][u] \in Nat
    BY <1>1 DEF Adds
  <2>2. 0 \in Nat
    OBVIOUS
  <2>3. \E f \in [0 .. N -> Nat] : Iterates(f, 0, N, Adds(c, N))
    BY <2>1, <2>2, RecursionExists, Zenon
  <2> QED BY <2>3, Zenon DEF Offsets
<1>3. ASSUME NEW N \in Nat
      PROVE  /\ Offsets(c, N)[0] = 0
             /\ \A m \in 1 .. N : Offsets(c, N)[m] = Offsets(c, N)[m - 1] + Nth(c, m).entries
  <2>1. \A m \in 1 .. N : Offsets(c, N)[m] = Adds(c, N)[m][Offsets(c, N)[m - 1]]
    BY <1>2 DEF Iterates
  <2>2. \A m \in 1 .. N : m - 1 \in 0 .. N /\ Offsets(c, N)[m - 1] \in Nat
    BY <1>2
  <2>3. Offsets(c, N)[0] = 0
    BY <1>2 DEF Iterates
  <2> QED BY <2>1, <2>2, <2>3 DEF Adds
<1> DEFINE f == Offsets(c, n + 1)
           g == Offsets(c, n)
<1>4. f[0] = 0 /\ \A m \in 1 .. n + 1 : f[m] = f[m - 1] + Nth(c, m).entries
  BY <1>3
<1>5. g[0] = 0 /\ \A m \in 1 .. n : g[m] = g[m - 1] + Nth(c, m).entries
  BY <1>3
<1>6. g \in [0 .. n -> Nat] /\ Offsets(c, 0)[0] = 0
  BY <1>2, <1>3
<1> HIDE DEF f, g
<1>7. Alike(f, g, n)
  <2>1. GoOnAlike(f, g, n)
    BY <1>4, <1>5 DEF GoOnAlike
  <2> QED BY <2>1, RecursionAgrees
<1>8. f[n] = g[n] /\ g[n] \in Nat
  BY <1>6, <1>7 DEF Alike
<1>9. f[n + 1] = f[n] + Nth(c, n + 1).entries
  BY <1>4
<1> QED BY <1>1, <1>6, <1>8, <1>9 DEF f, g, Off

(* A later place in the program is later in the trace.                     *)
LEMMA OffGrows ==
  ASSUME NEW c \in Seq(Insn), NEW n \in Nat, NEW k \in Nat
  PROVE  Off(c, n) + k <= Off(c, n + k)
<1> DEFINE Good == {i \in Nat : Off(c, n) + i <= Off(c, n + i)}
<1>1. 0 \in Good
  BY OffNext
<1>2. ASSUME NEW i \in Good PROVE i + 1 \in Good
  <2>1. i \in Nat /\ n + i \in Nat /\ n + (i + 1) = (n + i) + 1 /\ Off(c, n) + i <= Off(c, n + i)
    OBVIOUS
  <2>2. /\ Off(c, n) \in Nat /\ Off(c, n + i) \in Nat /\ Nth(c, (n + i) + 1).entries \in 1 .. 2
        /\ Off(c, (n + i) + 1) = Off(c, n + i) + Nth(c, (n + i) + 1).entries
    BY <2>1, OffNext
  <2>3. Off(c, n) + (i + 1) <= Off(c, n + (i + 1))
    BY <2>1, <2>2
  <2> QED BY <2>1, <2>3
<1>3. Good \in SUBSET Nat
  OBVIOUS
<1> HIDE DEF Good
<1>4. Good = Nat
  BY <1>1, <1>2, <1>3, SetInduction
<1> QED BY <1>4 DEF Good

(* Hence what is earlier in the trace, or as early, is so in the program.  *)
LEMMA OffOrder ==
  ASSUME NEW c \in Seq(Insn), NEW i \in Nat, NEW j \in Nat
  PROVE  /\ Off(c, i) <= Off(c, j) <=> i <= j
         /\ Off(c, i) = Off(c, j) => i = j
         /\ i < j => Off(c, i) < Off(c, j)
<1>1. ASSUME NEW m \in Nat, NEW n \in Nat, m < n PROVE Off(c, m) < Off(c, n)
  <2>1. n - m \in Nat /\ n - m >= 1 /\ m + (n - m) = n
    BY <1>1
  <2> DEFINE d == n - m
  <2>2. Off(c, m) + d <= Off(c, m + d)
    BY <2>1, OffGrows
  <2>3. Off(c, m) \in Nat /\ Off(c, n) \in Nat
    BY OffNext
  <2> QED BY <2>1, <2>2, <2>3
<1>2. Off(c, i) \in Nat /\ Off(c, j) \in Nat
  BY OffNext
<1> QED BY <1>1, <1>2
=============================================================================
