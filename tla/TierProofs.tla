------------------------------- MODULE TierProofs -------------------------------
(* Facts about what the modules of the planner compute: the executions of  *)
(* a plan, the prerequisites of a tier, and what the rules of a policy of  *)
(* protected assets activate, for every policy.                            *)
EXTENDS TierPolicy, FiniteSetTheorems, WellFoundedInduction, TLAPS

(* Induction up to a number, over the set of those that have the property. *)
LEMMA UpTo ==
  ASSUME NEW n \in Nat, NEW T, 0 \in T, \A k \in 1..n : k - 1 \in T => k \in T
  PROVE  0..n \subseteq T
<1> DEFINE Bad == (0..n) \ T
           R == OpToRel(<, Nat)
<1>1. SUFFICES ASSUME Bad # {} PROVE FALSE
  OBVIOUS
<1>2. Bad \subseteq Nat
  OBVIOUS
<1>3. PICK k \in Bad : \A j \in Bad : ~ (<<j, k>> \in R)
  <2>1. IsWellFoundedOn(R, Nat)
    BY NatLessThanWellFounded
  <2> HIDE DEF R, Bad
  <2> QED BY <1>1, <1>2, <2>1, WFMin
<1>4. \A j \in Bad : ~ (j < k)
  BY <1>2, <1>3 DEF OpToRel
<1>5. k \in 1..n /\ k - 1 \in 0..n /\ k - 1 < k
  OBVIOUS
<1>6. k - 1 \in T
  BY <1>4, <1>5
<1> QED BY <1>5, <1>6

(* Recursion up to a number: there is a function with the given first      *)
(* value and step.                                                         *)
Stepping(n, S, next) == next \in [1..n -> [S -> S]]
Recursive(n, S, first, next, f) ==
  f \in [0..n -> S] /\ f[0] = first /\ \A k \in 1..n : f[k] = next[k][f[k-1]]

LEMMA Recursion ==
  ASSUME NEW n \in Nat, NEW S, NEW first \in S, NEW next, Stepping(n, S, next)
  PROVE  \E f : Recursive(n, S, first, next, f)
<1> USE DEF Stepping
<1> DEFINE Good(m) == \E f \in [0..m -> S] : f[0] = first /\ \A k \in 1..m : f[k] = next[k][f[k-1]]
           T == {m \in 0..n : Good(m)}
<1>1. 0 \in T
  <2> DEFINE f == [k \in 0..0 |-> first]
  <2>1. f \in [0..0 -> S] /\ f[0] = first
    OBVIOUS
  <2>2. 0 \in 0..n /\ 1..0 = {}
    OBVIOUS
  <2> HIDE DEF f
  <2> QED BY <2>1, <2>2
<1>2. ASSUME NEW m \in 1..n, m - 1 \in T PROVE m \in T
  <2>1. PICK f \in [0..(m-1) -> S] : f[0] = first /\ \A k \in 1..(m-1) : f[k] = next[k][f[k-1]]
    BY <1>2
  <2> DEFINE v == next[m][f[m-1]]
             g == [k \in 0..m |-> IF k = m THEN v ELSE f[k]]
  <2>2. v \in S
    BY <2>1
  <2>3. g \in [0..m -> S]
    BY <2>1, <2>2
  <2>4. g[0] = first
    BY <2>1
  <2>5. ASSUME NEW k \in 1..m PROVE g[k] = next[k][g[k-1]]
    <3>1. k - 1 \in 0..m /\ k - 1 # m /\ k \in 0..m
      OBVIOUS
    <3>2. g[k-1] = f[k-1]
      BY <3>1
    <3>3. CASE k = m
      BY <2>2, <3>1, <3>2, <3>3
    <3>4. CASE k # m
      <4>1. k \in 1..(m-1)
        BY <3>4
      <4> QED BY <2>1, <3>1, <3>2, <3>4, <4>1
    <3> QED BY <3>3, <3>4
  <2>6. m \in 0..n
    OBVIOUS
  <2> HIDE DEF g, v
  <2> QED BY <2>3, <2>4, <2>5, <2>6
<1>3. n \in T
  <2>1. \A m \in 1..n : m - 1 \in T => m \in T
    BY <1>2
  <2> HIDE DEF T
  <2>2. 0..n \subseteq T
    BY <1>1, <2>1, UpTo
  <2> QED BY <2>2
<1> QED BY <1>3 DEF Recursive

(* What appending does to the elements of a sequence.                      *)
Elements(s) == {s[i] : i \in DOMAIN s}
Distinct(s) == \A i, j \in DOMAIN s : s[i] = s[j] => i = j

LEMMA AppendElements ==
  ASSUME NEW S, NEW s \in Seq(S), NEW e \in S
  PROVE  /\ Append(s, e) \in Seq(S) /\ Elements(Append(s, e)) = Elements(s) \union {e}
         /\ Distinct(s) /\ e \notin Elements(s) => Distinct(Append(s, e))
<1>1. /\ Append(s, e) \in Seq(S) /\ Len(s) \in Nat /\ Len(Append(s, e)) = Len(s) + 1
      /\ DOMAIN Append(s, e) = 1..(Len(s) + 1) /\ DOMAIN s = 1..Len(s)
      /\ \A i \in 1..Len(s) : Append(s, e)[i] = s[i]
      /\ Append(s, e)[Len(s) + 1] = e
  OBVIOUS
<1> DEFINE a == Append(s, e)
           n == Len(s)
<1> HIDE DEF a, n
<1>2. DOMAIN a = 1..(n+1) /\ DOMAIN s = 1..n /\ n \in Nat /\ a[n+1] = e /\ \A i \in 1..n : a[i] = s[i]
  BY <1>1 DEF a, n
<1>3. Elements(a) = Elements(s) \union {e}
  <2>1. ASSUME NEW i \in 1..(n+1) PROVE a[i] \in Elements(s) \union {e}
    BY <1>2 DEF Elements
  <2>2. ASSUME NEW i \in 1..n PROVE s[i] \in Elements(a)
    <3>1. a[i] = s[i] /\ i \in DOMAIN a
      BY <1>2
    <3> QED BY <3>1 DEF Elements
  <2>3. e \in Elements(a)
    BY <1>2 DEF Elements
  <2> QED BY <1>2, <2>1, <2>2, <2>3 DEF Elements
<1>4. Distinct(s) /\ e \notin Elements(s) => Distinct(a)
  BY <1>2 DEF Elements, Distinct
<1> QED BY <1>1, <1>3, <1>4 DEF a

(* The executions of a plan: each tier of the set once.                    *)
LEMMA OrderedFacts ==
  ASSUME NEW ts \in SUBSET Tiers
  PROVE  /\ Ordered(ts) \in Seq(Tiers)
         /\ Elements(Ordered(ts)) = ts /\ Distinct(Ordered(ts))
<1> DEFINE N == Len(TierOrder)
           Step(s, k) == IF TierOrder[k] \in ts THEN Append(s, TierOrder[k]) ELSE s
           body(f) == [n \in 0..N |->
                IF n = 0 THEN <<>>
                ELSE IF TierOrder[n] \in ts THEN Append(f[n-1], TierOrder[n]) ELSE f[n-1]]
           g == CHOOSE f : f = body(f)
<1>1. TierOrder \in Seq(Tiers) /\ N \in Nat /\ \A k \in 1..N : TierOrder[k] \in Tiers
  BY TierAssumption
<1>2. \E f \in [0..N -> Seq(Tiers)] : f[0] = <<>> /\ \A k \in 1..N : f[k] = Step(f[k-1], k)
  <2> DEFINE next == [k \in 1..N |-> [s \in Seq(Tiers) |-> Step(s, k)]]
  <2>1. next \in [1..N -> [Seq(Tiers) -> Seq(Tiers)]]
    BY <1>1
  <2>2. <<>> \in Seq(Tiers)
    OBVIOUS
  <2>3. \A k \in 1..N, s \in Seq(Tiers) : next[k][s] = Step(s, k)
    OBVIOUS
  <2> HIDE DEF next, Step, N
  <2>4. PICK f \in [0..N -> Seq(Tiers)] : f[0] = <<>> /\ \A k \in 1..N : f[k] = next[k][f[k-1]]
    <3> DEFINE S == Seq(Tiers)
               z == <<>>
    <3>1. z \in S /\ Stepping(N, S, next) /\ N \in Nat
      BY <1>1, <2>1, <2>2 DEF Stepping
    <3> HIDE DEF S, z
    <3>2. \E f : Recursive(N, S, z, next, f)
      BY <3>1, Recursion
    <3> QED BY <3>2 DEF S, z, Recursive
  <2>5. ASSUME NEW k \in 1..N PROVE f[k] = Step(f[k-1], k)
    <3>1. k - 1 \in 0..N
      BY <1>1
    <3>2. f[k-1] \in Seq(Tiers)
      BY <3>1
    <3> QED BY <2>3, <2>4, <3>2
  <2> QED BY <2>4, <2>5
<1>3. g = body(g)
  <2>1. PICK f \in [0..N -> Seq(Tiers)] : f[0] = <<>> /\ \A k \in 1..N : f[k] = Step(f[k-1], k)
    BY <1>2
  <2>2. \A k \in 0..N : f[k] = body(f)[k]
    <3> SUFFICES ASSUME NEW k \in 0..N
                 PROVE  f[k] = IF k = 0 THEN <<>> ELSE Step(f[k-1], k)
      OBVIOUS
    <3>1. k = 0 \/ k \in 1..N
      BY <1>1
    <3> HIDE DEF Step, N
    <3> QED BY <2>1, <3>1
  <2>3. f = body(f)
    <3> DEFINE h == body(f)
    <3>1. h = [k \in 0..N |-> h[k]] /\ f = [k \in 0..N |-> f[k]]
      BY <2>1
    <3> HIDE DEF h, N
    <3> QED BY <2>2, <3>1 DEF h
  <2> HIDE DEF body
  <2> QED BY <2>3
<1>4. Ordered(ts) = g[N]
  BY DEF Ordered
<1>5. g[0] = <<>> /\ \A k \in 1..N : g[k] = Step(g[k-1], k)
  <2>1. \A k \in 0..N : body(g)[k] = IF k = 0 THEN <<>> ELSE Step(g[k-1], k)
    OBVIOUS
  <2> HIDE DEF g, body, Step
  <2>2. \A k \in 0..N : g[k] = IF k = 0 THEN <<>> ELSE Step(g[k-1], k)
    BY <1>3, <2>1
  <2>3. 0 \in 0..N /\ \A k \in 1..N : k \in 0..N /\ k # 0
    BY <1>1
  <2> QED BY <2>2, <2>3
<1> DEFINE Taken(k) == {TierOrder[i] : i \in 1..k} \intersect ts
           Holds(k) == g[k] \in Seq(Tiers) /\ Elements(g[k]) = Taken(k) /\ Distinct(g[k])
           T == {k \in 0..N : Holds(k)}
<1> HIDE DEF g
<1>6. 0 \in T
  <2>1. Taken(0) = {} /\ 0 \in 0..N
    BY <1>1
  <2>2. Elements(<<>>) = {} /\ Distinct(<<>>) /\ <<>> \in Seq(Tiers)
    BY DEF Elements, Distinct
  <2> QED BY <1>5, <2>1, <2>2
<1>7. ASSUME NEW k \in 1..N, k - 1 \in T PROVE k \in T
  <2> DEFINE t == TierOrder[k]
             s == g[k-1]
  <2>1. Holds(k - 1) /\ g[k] = Step(s, k) /\ k \in 0..N /\ t \in Tiers
    BY <1>1, <1>5, <1>7
  <2>2. Taken(k) = IF t \in ts THEN Taken(k-1) \union {t} ELSE Taken(k-1)
    <3>1. 1..k = 1..(k-1) \union {k}
      OBVIOUS
    <3> QED BY <3>1
  <2>3. t \notin Taken(k-1)
    <3>1. \A i \in 1..(k-1) : i \in DOMAIN TierOrder /\ k \in DOMAIN TierOrder /\ i # k
      BY <1>1
    <3> QED BY <3>1, TierAssumption
  <2> HIDE DEF t, s, N
  <2>4. CASE t \in ts
    <3>1. g[k] = Append(s, t)
      BY <2>1, <2>4 DEF t
    <3>2. s \in Seq(Tiers) /\ Elements(s) = Taken(k-1) /\ Distinct(s)
      BY <2>1 DEF s
    <3> HIDE DEF Taken
    <3>3. t \in Tiers /\ t \notin Elements(s) /\ Taken(k) = Taken(k-1) \union {t}
      BY <2>1, <2>2, <2>3, <2>4, <3>2
    <3>4. /\ Append(s, t) \in Seq(Tiers) /\ Elements(Append(s, t)) = Elements(s) \union {t}
          /\ Distinct(Append(s, t))
      <4> HIDE DEF Holds
      <4> QED BY <3>2, <3>3, AppendElements
    <3> QED BY <2>1, <3>1, <3>2, <3>3, <3>4
  <2>5. CASE t \notin ts
    <3>1. g[k] = s /\ Taken(k) = Taken(k-1)
      BY <2>1, <2>2, <2>5 DEF t
    <3> HIDE DEF Taken
    <3> QED BY <2>1, <3>1 DEF s
  <2> QED BY <2>4, <2>5
<1>8. Holds(N)
  <2>1. \A k \in 1..N : k - 1 \in T => k \in T
    BY <1>7
  <2> HIDE DEF T
  <2>2. 0..N \subseteq T
    BY <1>1, <1>6, <2>1, UpTo
  <2>3. N \in T
    BY <1>1, <2>2
  <2> QED BY <2>3 DEF T
<1>9. Taken(N) = ts
  BY <1>1 DEF Tiers
<1> QED BY <1>4, <1>8, <1>9

-----------------------------------------------------------------------------
(* What a look may see: paths, and rules of the policy.                    *)
Sights(policy) == [active : SUBSET Paths, activated : SUBSET DOMAIN policy.rules]
Start(changed) == [active |-> changed, activated |-> {}]
RuleOf(policy, k) == ((k-1) % Len(policy.rules)) + 1

(* The course of `count` looks.                                            *)
Course(policy, changed, count, f) ==
  /\ f \in [0..count -> Sights(policy)] /\ f[0] = Start(changed)
  /\ \A k \in 1..count : f[k] = Look(policy, f[k-1], RuleOf(policy, k))

LEMMA PolicyTypes ==
  ASSUME NEW policy \in AssetPolicy
  PROVE  /\ Len(policy.rules) \in Nat /\ DOMAIN policy.rules = 1..Len(policy.rules)
         /\ \A i \in DOMAIN policy.rules : policy.rules[i].outputs \in SUBSET Paths
<1> DEFINE Rule == [triggers : SUBSET Paths, outputs : SUBSET Paths]
           rs == policy.rules
<1>1. rs \in Seq(Rule)
  BY DEF AssetPolicy
<1>2. \A r \in Rule : r.outputs \in SUBSET Paths
  OBVIOUS
<1> HIDE DEF Rule, rs
<1>3. Len(rs) \in Nat /\ DOMAIN rs = 1..Len(rs) /\ \A i \in DOMAIN rs : rs[i] \in Rule
  BY <1>1
<1> QED BY <1>2, <1>3 DEF rs

LEMMA LookType ==
  ASSUME NEW policy \in AssetPolicy, NEW s \in Sights(policy), NEW i \in DOMAIN policy.rules
  PROVE  Look(policy, s, i) \in Sights(policy)
BY PolicyTypes DEF Look, Sights

LEMMA RuleRange ==
  ASSUME NEW policy \in AssetPolicy, Len(policy.rules) > 0, NEW k \in Nat \ {0}
  PROVE  RuleOf(policy, k) \in DOMAIN policy.rules
<1> DEFINE n == Len(policy.rules)
<1>1. n \in Nat /\ DOMAIN policy.rules = 1..n
  BY PolicyTypes
<1> HIDE DEF n
<1>2. n > 0
  BY DEF n
<1>3. (k - 1) % n \in 0..(n-1)
  BY <1>1, <1>2
<1> QED BY <1>1, <1>3 DEF RuleOf, n

LEMMA LooksCourse ==
  ASSUME NEW policy \in AssetPolicy, NEW changed \in SUBSET Paths, NEW count \in Nat,
         Len(policy.rules) > 0 \/ count = 0
  PROVE  \E f : Course(policy, changed, count, f) /\ Looks(policy, changed, count) = f[count].activated
<1> DEFINE S == Sights(policy)
           first == Start(changed)
           next == [k \in 1..count |-> [s \in S |-> Look(policy, s, RuleOf(policy, k))]]
           body(f) == [k \in 0..count |->
             IF k = 0 THEN [active |-> changed, activated |-> {}]
             ELSE Look(policy, f[k-1], ((k-1) % Len(policy.rules)) + 1)]
           g == CHOOSE f : f = body(f)
<1>1. first \in S /\ Stepping(count, S, next)
  <2>1. first \in S
    BY DEF Start, Sights
  <2>2. ASSUME NEW k \in 1..count, NEW s \in S PROVE Look(policy, s, RuleOf(policy, k)) \in S
    BY LookType, RuleRange
  <2> HIDE DEF S
  <2> QED BY <2>1, <2>2 DEF Stepping
<1>2. PICK f \in [0..count -> S] : f[0] = first /\ \A k \in 1..count : f[k] = next[k][f[k-1]]
  <2> HIDE DEF S, first, next
  <2>1. count \in Nat
    OBVIOUS
  <2>2. \E f : Recursive(count, S, first, next, f)
    BY <1>1, <2>1, Recursion
  <2> QED BY <2>2 DEF Recursive
<1>3. \A k \in 1..count : f[k] = Look(policy, f[k-1], RuleOf(policy, k))
  <2> SUFFICES ASSUME NEW k \in 1..count PROVE f[k] = Look(policy, f[k-1], RuleOf(policy, k))
    OBVIOUS
  <2>1. f[k-1] \in S
    <3> HIDE DEF S
    <3> QED BY <1>2
  <2> HIDE DEF S
  <2> QED BY <1>2, <2>1
<1>4. f = body(f)
  <2>1. \A k \in 0..count : f[k] = body(f)[k]
    <3> SUFFICES ASSUME NEW k \in 0..count
                 PROVE  f[k] = IF k = 0 THEN first ELSE Look(policy, f[k-1], RuleOf(policy, k))
      BY DEF RuleOf, Start
    <3>1. k = 0 \/ k \in 1..count
      OBVIOUS
    <3> QED BY <1>2, <1>3, <3>1
  <2> DEFINE h == body(f)
  <2>2. h = [k \in 0..count |-> h[k]] /\ f = [k \in 0..count |-> f[k]]
    BY <1>2
  <2> HIDE DEF h
  <2> QED BY <2>1, <2>2 DEF h
<1>5. g = body(g)
  <2> HIDE DEF body
  <2> QED BY <1>4
<1>6. Looks(policy, changed, count) = g[count].activated
  BY DEF Looks
<1>7. g[0] = first /\ \A k \in 1..count : g[k] = Look(policy, g[k-1], RuleOf(policy, k))
  <2>1. \A k \in 0..count : body(g)[k] = IF k = 0 THEN first ELSE Look(policy, g[k-1], RuleOf(policy, k))
    BY DEF RuleOf, Start
  <2> HIDE DEF body, g
  <2>2. \A k \in 0..count : g[k] = IF k = 0 THEN first ELSE Look(policy, g[k-1], RuleOf(policy, k))
    BY <1>5, <2>1
  <2>3. 0 \in 0..count /\ \A k \in 1..count : k \in 0..count /\ k # 0
    OBVIOUS
  <2> QED BY <2>2, <2>3
<1>8. g = f
  <2> DEFINE T == {k \in 0..count : g[k] = f[k]}
  <2>1. DOMAIN g = 0..count
    <3> DEFINE h == body(g)
    <3>1. DOMAIN h = 0..count
      OBVIOUS
    <3> HIDE DEF h, g
    <3> QED BY <1>5, <3>1 DEF h
  <2> HIDE DEF g
  <2>2. 0 \in T
    BY <1>2, <1>7
  <2>3. \A k \in 1..count : k - 1 \in T => k \in T
    BY <1>3, <1>7
  <2>4. 0..count \subseteq T
    <3> HIDE DEF T
    <3> QED BY <2>2, <2>3, UpTo
  <2>5. g = [k \in 0..count |-> g[k]]
    <3> DEFINE h == body(g)
    <3>1. h = [k \in 0..count |-> h[k]]
      OBVIOUS
    <3> HIDE DEF h
    <3> QED BY <1>5, <3>1 DEF h
  <2> QED BY <1>2, <2>4, <2>5
<1> HIDE DEF g
<1> QED BY <1>2, <1>3, <1>6, <1>8 DEF Course

(* A set of rules that has each rule triggered by the change or by one of  *)
(* its own, and what is then affected.                                     *)
Reached(policy, changed, s) == changed \union UNION {policy.rules[j].outputs : j \in s}
ClosedSet(policy, changed, s) ==
  \A i \in DOMAIN policy.rules : Triggered(policy.rules[i], Reached(policy, changed, s)) => i \in s

LEMMA GeneratingIsLeast ==
  ASSUME NEW policy, NEW changed
  PROVE  Generating(policy, changed)
           = {i \in DOMAIN policy.rules : \A s \in SUBSET DOMAIN policy.rules :
                ClosedSet(policy, changed, s) => i \in s}
BY DEF Generating, ClosedSet, Reached

LEMMA TriggeredByMore ==
  ASSUME NEW rule, NEW a, NEW b, a \subseteq b, Triggered(rule, a)
  PROVE  Triggered(rule, b)
BY DEF Triggered

LEMMA ReachedByMore ==
  ASSUME NEW policy, NEW changed, NEW a, NEW b, a \subseteq b
  PROVE  Reached(policy, changed, a) \subseteq Reached(policy, changed, b)
BY DEF Reached

(* A look adds what is triggered, and nothing outside a closed set.        *)
Sound(policy, changed, s) ==
  /\ s \in Sights(policy) /\ s.active = Reached(policy, changed, s.activated)
  /\ \A c \in SUBSET DOMAIN policy.rules : ClosedSet(policy, changed, c) => s.activated \subseteq c

LEMMA LookSound ==
  ASSUME NEW policy \in AssetPolicy, NEW changed, NEW s, Sound(policy, changed, s),
         NEW i \in DOMAIN policy.rules
  PROVE  /\ Sound(policy, changed, Look(policy, s, i))
         /\ s.activated \subseteq Look(policy, s, i).activated
         /\ Triggered(policy.rules[i], s.active) => i \in Look(policy, s, i).activated
<1> DEFINE l == Look(policy, s, i)
<1>1. s \in Sights(policy) /\ l \in Sights(policy)
  BY LookType DEF Sound
<1>2. CASE ~Triggered(policy.rules[i], s.active)
  BY <1>2 DEF Look
<1>3. CASE Triggered(policy.rules[i], s.active)
  <2>1. /\ l.active = s.active \union policy.rules[i].outputs
        /\ l.activated = s.activated \union {i}
    BY <1>3 DEF Look
  <2>2. l.active = Reached(policy, changed, l.activated)
    BY <2>1 DEF Sound, Reached
  <2>3. ASSUME NEW c \in SUBSET DOMAIN policy.rules, ClosedSet(policy, changed, c)
        PROVE  l.activated \subseteq c
    <3>1. s.activated \subseteq c
      BY <2>3 DEF Sound
    <3>2. s.active \subseteq Reached(policy, changed, c)
      BY <3>1, ReachedByMore DEF Sound
    <3>3. i \in c
      BY <1>3, <2>3, <3>2, TriggeredByMore DEF ClosedSet
    <3> QED BY <2>1, <3>1, <3>3
  <2> HIDE DEF l
  <2> QED BY <1>1, <2>1, <2>2, <2>3 DEF Sound, l
<1> QED BY <1>2, <1>3

(* So does a course of looks: it never forgets a rule.                     *)
LEMMA CourseSound ==
  ASSUME NEW policy \in AssetPolicy, NEW changed \in SUBSET Paths, NEW count \in Nat,
         Len(policy.rules) > 0, NEW f, Course(policy, changed, count, f)
  PROVE  /\ \A k \in 0..count : Sound(policy, changed, f[k])
         /\ \A k \in 1..count : f[k-1].activated \subseteq f[k].activated
<1> DEFINE T == {k \in 0..count : Sound(policy, changed, f[k])}
<1>1. f[0] = Start(changed) /\ \A k \in 1..count : f[k] = Look(policy, f[k-1], RuleOf(policy, k))
  BY DEF Course
<1>2. Sound(policy, changed, Start(changed))
  BY DEF Sound, Start, Sights, Reached
<1>3. 0 \in T
  BY <1>1, <1>2
<1>4. \A k \in 1..count : RuleOf(policy, k) \in DOMAIN policy.rules
  BY RuleRange
<1>5. \A k \in 1..count : k - 1 \in T => k \in T
  BY <1>1, <1>4, LookSound
<1>6. 0..count \subseteq T
  <2> HIDE DEF T
  <2> QED BY <1>3, <1>5, UpTo
<1>7. \A k \in 1..count : k - 1 \in 0..count
  OBVIOUS
<1> QED BY <1>1, <1>4, <1>6, <1>7, LookSound

LEMMA CourseGrows ==
  ASSUME NEW policy \in AssetPolicy, NEW changed \in SUBSET Paths, NEW count \in Nat,
         Len(policy.rules) > 0, NEW f, Course(policy, changed, count, f),
         NEW a \in 0..count, NEW b \in a..count
  PROVE  f[a].activated \subseteq f[b].activated
<1> DEFINE T == {d \in 0..(count - a) : f[a].activated \subseteq f[a + d].activated}
<1>1. 0 \in T
  BY Z3
<1>2. ASSUME NEW d \in 1..(count - a), d - 1 \in T PROVE d \in T
  <2>1. a + d \in 1..count /\ a + (d - 1) = (a + d) - 1 /\ d \in 0..(count - a)
    OBVIOUS
  <2>2. f[(a + d) - 1].activated \subseteq f[a + d].activated
    BY <2>1, CourseSound
  <2>3. f[a].activated \subseteq f[(a + d) - 1].activated
    BY <1>2, <2>1
  <2> QED BY <2>1, <2>2, <2>3
<1>3. 0..(count - a) \subseteq T
  <2>1. count - a \in Nat /\ \A d \in 1..(count - a) : d - 1 \in T => d \in T
    BY <1>2
  <2> HIDE DEF T
  <2> QED BY <1>1, <2>1, UpTo
<1>4. b - a \in 0..(count - a) /\ a + (b - a) = b
  OBVIOUS
<1> QED BY <1>3, <1>4

(* Looks are numbered from 1: those of sweep j are (j-1) * n + 1 .. j * n. *)
LEMMA SweepBounds ==
  ASSUME NEW n \in Nat \ {0}, NEW j \in 1..n
  PROVE  /\ (j-1) * n \in 0..(n*n) /\ j * n = (j-1) * n + n
         /\ (j-1) * n + n \in 0..(n*n) /\ n * n \in Nat
         /\ \A r \in 0..(n-1) : ((j-1) * n + r) % n = r
<1>1. j - 1 \in 0..(n-1) /\ n * n \in Nat /\ (j-1) * n \in Nat
  OBVIOUS
<1>2. j * n = (j-1) * n + n
  OBVIOUS
<1>3. j * n <= n * n
  OBVIOUS
<1>4. \A i \in Nat, r \in 0..(n-1) : (i * n + r) % n = r
  OBVIOUS
<1>5. \A r \in 0..(n-1) : ((j-1) * n + r) % n = r
  BY <1>1, <1>4
<1> QED BY <1>1, <1>2, <1>3, <1>5

(* A sweep of all rules that activates none found a closed set.            *)
LEMMA IdleSweep ==
  ASSUME NEW policy \in AssetPolicy, NEW changed \in SUBSET Paths, NEW n \in Nat \ {0},
         n = Len(policy.rules), NEW f, Course(policy, changed, n * n, f), NEW j \in 1..n,
         f[j * n].activated = f[(j-1) * n].activated
  PROVE  ClosedSet(policy, changed, f[(j-1) * n].activated)
<1> DEFINE a == (j-1) * n
           count == n * n
           s == f[a].activated
<1>1. a \in 0..count /\ j * n = a + n /\ a + n \in a..count /\ count \in Nat
  <2>1. a \in 0..count /\ j * n = a + n /\ a + n \in 0..count /\ count \in Nat
    BY SweepBounds
  <2> HIDE DEF a, count
  <2> QED BY <2>1
<1>2. DOMAIN policy.rules = 1..n
  BY PolicyTypes
<1>3. ASSUME NEW i \in 1..n, Triggered(policy.rules[i], Reached(policy, changed, s)) PROVE i \in s
  <2> DEFINE k == a + i
  <2>1. k \in 1..count /\ k - 1 \in a..count /\ k - 1 \in 0..count /\ k \in 0..count /\ a + n \in k..count
    <3> HIDE DEF a, count
    <3> QED BY <1>1
  <2>2. RuleOf(policy, k) = i
    <3>1. (k - 1) % n = i - 1
      <4>1. \A r \in 0..(n-1) : (a + r) % n = r
        BY SweepBounds
      <4>2. i - 1 \in 0..(n-1) /\ k - 1 = a + (i - 1)
        <5> HIDE DEF a, count
        <5> QED BY <1>1
      <4> HIDE DEF a, k
      <4> QED BY <4>1, <4>2
    <3> HIDE DEF k
    <3> QED BY <3>1 DEF RuleOf
  <2> HIDE DEF a, count, k
  <2>3. Course(policy, changed, count, f) /\ Len(policy.rules) > 0
    BY DEF count
  <2>4. s \subseteq f[k-1].activated
    <3>1. \A x \in 0..count : \A y \in x..count : f[x].activated \subseteq f[y].activated
      BY <1>1, <2>3, CourseGrows
    <3> HIDE DEF s
    <3>2. f[a].activated \subseteq f[k-1].activated
      BY <1>1, <2>1, <3>1
    <3> QED BY <3>2 DEF s
  <2>5. f[k].activated \subseteq s
    <3>1. f[k].activated \subseteq f[a + n].activated
      BY <1>1, <2>1, <2>3, CourseGrows
    <3>2. f[a + n].activated = s
      BY <1>1 DEF a
    <3> QED BY <3>1, <3>2
  <2>6. Sound(policy, changed, f[k-1]) /\ f[k] = Look(policy, f[k-1], i)
    <3>1. f[k] = Look(policy, f[k-1], RuleOf(policy, k))
      BY <2>1, <2>3 DEF Course
    <3> QED BY <1>1, <2>1, <2>2, <2>3, <3>1, CourseSound
  <2>7. Triggered(policy.rules[i], f[k-1].active)
    <3>1. Reached(policy, changed, s) \subseteq Reached(policy, changed, f[k-1].activated)
      BY <2>4, ReachedByMore
    <3>2. Reached(policy, changed, s) \subseteq f[k-1].active
      BY <2>6, <3>1 DEF Sound
    <3> HIDE DEF s
    <3> QED BY <1>3, <3>2, TriggeredByMore
  <2> QED BY <1>2, <2>5, <2>6, <2>7, LookSound
<1> HIDE DEF s, a
<1>4. ClosedSet(policy, changed, s)
  BY <1>2, <1>3 DEF ClosedSet
<1> QED BY <1>4 DEF s, a

(* What has been activated behind n sweeps over n rules is closed: a sweep *)
(* that activates no rule has found a closed set, and every other one adds *)
(* to what was activated.                                                  *)
LEMMA SweepsClose ==
  ASSUME NEW policy \in AssetPolicy, NEW changed \in SUBSET Paths, NEW n \in Nat \ {0},
         n = Len(policy.rules), NEW f, Course(policy, changed, n * n, f)
  PROVE  ClosedSet(policy, changed, f[n * n].activated)
<1> DEFINE At(j) == f[j * n].activated
           Closed(j) == ClosedSet(policy, changed, At(j))
           T == {j \in 0..n : Closed(j) \/ Cardinality(At(j)) >= j}
<1>1. DOMAIN policy.rules = 1..n
  BY PolicyTypes
<1>2. ASSUME NEW j \in 1..n
      PROVE  /\ (j-1) * n \in 0..(n*n) /\ j * n \in ((j-1) * n)..(n*n)
             /\ j * n \in 0..(n*n) /\ n * n \in Nat
  <2> DEFINE a == (j-1) * n
             b == j * n
             count == n * n
  <2>1. a \in 0..count /\ b = a + n /\ a + n \in 0..count /\ count \in Nat
    BY SweepBounds
  <2> HIDE DEF a, b, count
  <2>2. a \in 0..count /\ b \in a..count /\ b \in 0..count /\ count \in Nat
    BY <2>1
  <2> QED BY <2>2 DEF a, b, count
<1>3. n * n \in Nat /\ 0 * n = 0 /\ 0 \in 0..(n*n)
  OBVIOUS
<1>4. \A k \in 0..(n*n) : Sound(policy, changed, f[k])
  <2> DEFINE count == n * n
  <2>1. count \in Nat /\ Len(policy.rules) > 0 /\ Course(policy, changed, count, f)
    BY <1>3
  <2> HIDE DEF count
  <2>2. \A k \in 0..count : Sound(policy, changed, f[k])
    BY <2>1, CourseSound
  <2> QED BY <2>2 DEF count
<1>5. \A j \in 0..n : j * n \in 0..(n*n)
  <2> TAKE j \in 0..n
  <2>1. CASE j = 0
    BY <1>3, <2>1
  <2>2. CASE j \in 1..n
    BY <1>2, <2>2
  <2> QED BY <2>1, <2>2
<1>6. \A j \in 0..n : At(j) \subseteq 1..n
  BY <1>1, <1>4, <1>5 DEF Sound, Sights
<1>7. \A j \in 0..n : IsFiniteSet(At(j)) /\ Cardinality(At(j)) \in Nat
  <2> SUFFICES ASSUME NEW j \in 0..n PROVE IsFiniteSet(At(j)) /\ Cardinality(At(j)) \in Nat
    OBVIOUS
  <2>1. 1 \in Int /\ n \in Int
    OBVIOUS
  <2>2. At(j) \subseteq 1..n /\ IsFiniteSet(1..n)
    BY <1>6, <2>1, FS_Interval
  <2> HIDE DEF At
  <2> QED BY <2>2, FS_Subset, FS_CardinalityType
<1>8. 0 \in T
  <2>1. 0 \in 0..n
    OBVIOUS
  <2> HIDE DEF At
  <2> QED BY <1>7, <2>1
<1>9. ASSUME NEW j \in 1..n, j - 1 \in T PROVE j \in T
  <2>1. j \in 0..n /\ j - 1 \in 0..n
    OBVIOUS
  <2>2. At(j-1) \subseteq At(j)
    <3> DEFINE count == n * n
               a == (j-1) * n
               b == j * n
    <3>1. a \in 0..count /\ b \in a..count /\ count \in Nat
      BY <1>2
    <3>4. Len(policy.rules) > 0
      <4> HIDE DEF count, a, b, At
      <4> QED OBVIOUS
    <3>2. Course(policy, changed, count, f)
      OBVIOUS
    <3> HIDE DEF count, a, b
    <3>3. f[a].activated \subseteq f[b].activated
      BY <3>1, <3>2, <3>4, CourseGrows
    <3> QED BY <3>3 DEF a, b
  <2>3. CASE At(j) = At(j-1)
    <3>1. Closed(j-1)
      BY <2>3, IdleSweep
    <3> HIDE DEF At
    <3> QED BY <2>1, <2>3, <3>1
  <2>4. CASE Closed(j-1)
    <3>1. At(j-1) \in SUBSET DOMAIN policy.rules
      BY <1>1, <1>6, <2>1
    <3>2. At(j) \subseteq At(j-1)
      <4>1. Sound(policy, changed, f[j * n])
        BY <1>4, <1>5, <2>1
      <4>2. ASSUME NEW c \in SUBSET DOMAIN policy.rules, ClosedSet(policy, changed, c)
            PROVE  At(j) \subseteq c
        BY <4>1, <4>2 DEF Sound
      <4> HIDE DEF At
      <4> QED BY <2>4, <3>1, <4>2
    <3> HIDE DEF At
    <3>3. At(j) = At(j-1)
      BY <2>2, <3>2
    <3> QED BY <2>1, <2>4, <3>3
  <2>5. CASE At(j) # At(j-1) /\ Cardinality(At(j-1)) >= j - 1
    <3> HIDE DEF At, Closed
    <3>1. Cardinality(At(j-1)) < Cardinality(At(j))
      BY <1>7, <2>1, <2>2, <2>5, FS_Subset
    <3>2. Cardinality(At(j)) \in Nat /\ Cardinality(At(j-1)) \in Nat
      BY <1>7, <2>1
    <3> QED BY <2>1, <2>5, <3>1, <3>2
  <2> HIDE DEF At, Closed
  <2> QED BY <1>9, <2>3, <2>4, <2>5
<1>10. n \in T
  <2>1. \A j \in 1..n : j - 1 \in T => j \in T
    BY <1>9
  <2> HIDE DEF T
  <2>2. 0..n \subseteq T
    BY <1>8, <2>1, UpTo
  <2> QED BY <2>2
<1>11. CASE Cardinality(At(n)) >= n
  <2> HIDE DEF At
  <2>1. n \in 0..n /\ IsFiniteSet(1..n) /\ Cardinality(1..n) = n
    <3>1. 1 \in Int /\ n \in Int /\ n \in 0..n /\ ~(1 > n) /\ n - 1 + 1 = n
      OBVIOUS
    <3> QED BY <3>1, FS_Interval
  <2>2. At(n) \subseteq 1..n /\ Cardinality(At(n)) \in Nat
    BY <1>6, <1>7, <2>1
  <2>3. At(n) = 1..n
    <3>1. SUFFICES ASSUME At(n) # 1..n PROVE FALSE
      OBVIOUS
    <3>2. Cardinality(At(n)) < Cardinality(1..n)
      BY <2>1, <2>2, <3>1, FS_Subset
    <3> QED BY <1>11, <2>1, <2>2, <3>2
  <2>4. ClosedSet(policy, changed, At(n))
    BY <1>1, <2>3 DEF ClosedSet
  <2> QED BY <2>4 DEF At
<1> HIDE DEF At
<1>12. ClosedSet(policy, changed, At(n))
  <2>1. Closed(n) \/ Cardinality(At(n)) >= n
    BY <1>10 DEF At
  <2> QED BY <1>11, <2>1 DEF At
<1> QED BY <1>12 DEF At

(* _inferred_effects finds exactly the rules that the change sets off, by  *)
(* any chain of rules, in whatever order the policy lists them.            *)
THEOREM ActivatedIsGenerating ==
  ASSUME NEW policy \in AssetPolicy, NEW changed \in SUBSET Paths
  PROVE  Activated(policy, changed) = Generating(policy, changed)
<1> DEFINE n == Len(policy.rules)
           act == Activated(policy, changed)
<1>1. n \in Nat /\ n * n \in Nat /\ DOMAIN policy.rules = 1..n
  BY PolicyTypes
<1>2. PICK f : Course(policy, changed, n * n, f) /\ act = f[n * n].activated
  <2>1. n > 0 \/ n * n = 0
    BY <1>1
  <2> QED BY <1>1, <2>1, LooksCourse DEF Activated
<1>3. CASE n = 0
  <2>1. n * n = 0 /\ DOMAIN policy.rules = {}
    BY <1>1, <1>3
  <2>2. act = {}
    BY <1>2, <2>1 DEF Course, Start
  <2>3. Generating(policy, changed) = {}
    BY <2>1, GeneratingIsLeast
  <2> QED BY <2>2, <2>3
<1>4. CASE n # 0
  <2> HIDE DEF n
  <2>1. n \in Nat \ {0} /\ n > 0 /\ n * n \in 0..(n * n)
    BY <1>1, <1>4
  <2>2. n = Len(policy.rules)
    BY DEF n
  <2>3. ClosedSet(policy, changed, act)
    BY <1>2, <2>1, <2>2, SweepsClose
  <2>4. Sound(policy, changed, f[n * n])
    BY <1>1, <1>2, <2>1, <2>2, CourseSound
  <2>5. act \in SUBSET DOMAIN policy.rules
    BY <1>2, <2>4 DEF Sound, Sights
  <2>6. \A c \in SUBSET DOMAIN policy.rules : ClosedSet(policy, changed, c) => act \subseteq c
    BY <1>2, <2>4 DEF Sound
  <2> HIDE DEF act
  <2> QED BY <2>3, <2>5, <2>6, GeneratingIsLeast DEF act
<1> QED BY <1>3, <1>4

-----------------------------------------------------------------------------
(* The gate requires what the base's policy requires, whatever it is given *)
(* as the trusted registry.                                                *)
LEMMA GateRequires ==
  ASSUME NEW c, NEW trusted
  PROVE  GateRequired(c, trusted) = Required(trusted.policy, c)
BY DEF GateRequired, Required, GateApplies, Applies

(* When the gate plans, and what.                                          *)
LEMMA GateFacts ==
  ASSUME NEW c, NEW trusted
  PROVE  /\ Gate(c, trusted).verdict = "pass" <=>
              /\ c.registry = trusted.registry
              /\ Required(trusted.policy, c) \subseteq c.active \intersect c.gateReady
         /\ Gate(c, trusted).verdict \in {"pass", "contract-invalid"}
         /\ Gate(c, trusted).verdict = "pass" => Gate(c, trusted).tiers = Required(trusted.policy, c)
<1>1. GateRaises(c, trusted) <=> ~ /\ c.registry = trusted.registry
                                   /\ Required(trusted.policy, c) \subseteq c.active \intersect c.gateReady
  BY GateRequires DEF GateRaises
<1> QED BY <1>1, GateRequires DEF Gate, Refused

(* When the planner does.                                                  *)
LEMMA PlanFacts ==
  ASSUME NEW c
  PROVE  /\ PlanCi(c).verdict = "pass" <=>
              ValidTiers(c.policy) /\ Required(c.policy, c) \subseteq c.active \intersect c.ready
         /\ PlanCi(c).verdict \in {"pass", "contract-invalid"}
         /\ PlanCi(c).verdict = "pass" => PlanCi(c).tiers = Required(c.policy, c)
<1> DEFINE required == Required(c.policy, c)
           unready == {<<"CI-PLAN-002", t>> : t \in required \ c.ready}
           reserved == {<<"CI-PLAN-003", t>> : t \in required \ c.active}
<1>1. unready = {} <=> required \subseteq c.ready
  OBVIOUS
<1>2. reserved = {} <=> required \subseteq c.active
  OBVIOUS
<1>3. Findings(c) = unready \union reserved
  BY DEF Findings
<1>4. PlanCi(c) = IF ValidTiers(c.policy)
                  THEN [verdict |-> IF Findings(c) = {} THEN "pass" ELSE "contract-invalid",
                        tiers |-> required \intersect c.ready \intersect c.active]
                  ELSE Refused
  BY DEF PlanCi
<1> HIDE DEF unready, reserved, required
<1>5. Findings(c) = {} <=> required \subseteq c.active /\ required \subseteq c.ready
  BY <1>1, <1>2, <1>3
<1>6. PlanCi(c).verdict = "pass" <=> ValidTiers(c.policy) /\ Findings(c) = {}
  BY <1>4 DEF Refused
<1>7. PlanCi(c).verdict \in {"pass", "contract-invalid"}
  BY <1>4 DEF Refused
<1>8. PlanCi(c).verdict = "pass" => PlanCi(c).tiers = required
  <2> SUFFICES ASSUME PlanCi(c).verdict = "pass" PROVE PlanCi(c).tiers = required
    OBVIOUS
  <2>1. PlanCi(c).tiers = required \intersect c.ready \intersect c.active
    BY <1>4, <1>6
  <2> QED BY <1>5, <1>6, <2>1
<1>9. required \subseteq c.active /\ required \subseteq c.ready <=> required \subseteq c.active \intersect c.ready
  OBVIOUS
<1> QED BY <1>5, <1>6, <1>7, <1>8, <1>9 DEF required

(* A change that touches more paths needs at least the same tiers: a tier  *)
(* is never passed over for what else was changed.                         *)
LEMMA AppliesToMore ==
  ASSUME NEW p \in TierPolicies, NEW c, NEW w, NEW t \in Tiers,
         w.active = c.active, w.event = c.event, c.changed \subseteq w.changed, Applies(p, t, c)
  PROVE  Applies(p, t, w)
<1>1. Matching(p, t, c) \subseteq Matching(p, t, w)
  BY DEF Matching
<1>2. ArtifactMatches(p, t, c) => ArtifactMatches(p, t, w)
  BY DEF ArtifactMatches
<1>3. EventAndPath(p, t, c) => EventAndPath(p, t, w)
  BY <1>1 DEF EventAndPath
<1>4. PrecursorOnly(p, t, w) => PrecursorOnly(p, t, c) \/ Matching(p, t, c) = {}
  BY <1>1 DEF PrecursorOnly
<1>5. Matching(p, t, c) = {} /\ EventAndPath(p, t, c) => Matching(p, t, w) = {}
  BY DEF TierPolicies, EventAndPath, Matching
<1>6. Matching(p, t, w) = {} => ~PrecursorOnly(p, t, w)
  BY DEF PrecursorOnly
<1> QED BY <1>2, <1>3, <1>4, <1>5, <1>6 DEF Applies

LEMMA PrerequisitesOfMore ==
  ASSUME NEW p, NEW ts, NEW more, ts \subseteq more
  PROVE  AddPrerequisites(p, ts) \subseteq AddPrerequisites(p, more)
BY DEF AddPrerequisites

LEMMA MoreIsRequired ==
  ASSUME NEW p \in TierPolicies, NEW c, NEW w,
         w.active = c.active, w.event = c.event, c.changed \subseteq w.changed
  PROVE  Required(p, c) \subseteq Required(p, w)
<1>1. {t \in Tiers : Applies(p, t, c)} \subseteq {t \in Tiers : Applies(p, t, w)}
  BY AppliesToMore
<1> QED BY <1>1, PrerequisitesOfMore DEF Required

(* What is required has what it rests on.                                  *)
LEMMA PrerequisitesClosed ==
  ASSUME NEW p \in TierPolicies, NEW ts \in SUBSET Tiers
  PROVE  /\ ts \subseteq AddPrerequisites(p, ts) /\ AddPrerequisites(p, ts) \subseteq Tiers
         /\ \A t \in AddPrerequisites(p, ts) : p[t].needs \subseteq AddPrerequisites(p, ts)
<1>1. ASSUME NEW t \in AddPrerequisites(p, ts), NEW n \in p[t].needs
      PROVE  n \in AddPrerequisites(p, ts)
  <2>1. n \in Tiers /\ t \in Tiers
    BY <1>1 DEF AddPrerequisites, TierPolicies, TierRule
  <2>2. ASSUME NEW s \in SUBSET Tiers, ts \subseteq s, DirectPrerequisites(p, s) \subseteq s
        PROVE  n \in s
    BY <1>1, <2>2 DEF AddPrerequisites, DirectPrerequisites
  <2> QED BY <2>1, <2>2 DEF AddPrerequisites
<1> QED BY <1>1 DEF AddPrerequisites
=============================================================================
