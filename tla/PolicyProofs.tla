----------------------------- MODULE PolicyProofs -----------------------------
(***************************************************************************)
(* Proofs about the policy of plans: for every set of plans that OpenTofu  *)
(* may save, with any number of resources and modules, what the policy     *)
(* passes leaves a safe cell when it is applied, as far as the policy does *)
(* not go by a mere mention (RestsOnMention), and its verdict is that of   *)
(* any other way to write the plan.                                        *)
(*                                                                         *)
(* What is defined by recursion, the list of all resources and the images  *)
(* of the modules, is reasoned about by least counterexample: a set of     *)
(* numbers for which something fails has a least element (Least).          *)
(***************************************************************************)
EXTENDS TofuPolicy, SequenceTheorems, WellFoundedInduction, TLAPS

\* A set of numbers that is not empty has a least one.
LEMMA Least ==
  ASSUME NEW S \in SUBSET Nat, S # {}
  PROVE  \E n \in S : \A m \in S : n <= m
<1>1. \E n \in S : \A m \in S : ~(<<m, n>> \in OpToRel(<, Nat))
  BY WFMin, NatLessThanWellFounded, Zenon
<1>2. \A m, n \in S : m < n => <<m, n>> \in OpToRel(<, Nat)
  BY DEF OpToRel
<1>3. PICK n \in S : \A m \in S : ~(m < n)
  BY <1>1, <1>2, Zenon
<1>4. \A m \in S : n <= m
  BY <1>3
<1>5. QED
  BY <1>4

\* Of finitely many numbers one is the last.
LEMMA Greatest ==
  ASSUME NEW n \in Nat, NEW S \in SUBSET (1..n), S # {}
  PROVE  \E k \in S : \A m \in S : m <= k
<1> DEFINE T == {i \in Nat : n - i \in S}
<1>1. \A k \in S : n - k \in Nat /\ n - (n - k) = k
  OBVIOUS
<1>2. T \in SUBSET Nat /\ T # {}
  BY <1>1
<1>3. PICK i \in T : \A m \in T : i <= m
  <2> HIDE DEF T
  <2>1. QED
    BY <1>2, Least
<1>4. \A m \in S : i <= n - m
  BY <1>1, <1>3
<1>5. n - i \in S /\ \A m \in S : m <= n - i
  BY <1>4
<1>6. QED
  BY <1>5

-----------------------------------------------------------------------------
\* Lists: what they hold.

\* A list is a sequence of its elements.
LEMMA ListIsSeq ==
  ASSUME NEW s, IsList(s), NEW S, ToSet(s) \subseteq S
  PROVE  s \in Seq(S) /\ DOMAIN s = 1..Len(s)
<1>1. Len(s) \in Nat /\ s = [i \in 1..Len(s) |-> s[i]]
  BY DEF IsList
<1>2. DOMAIN s = 1..Len(s)
  BY <1>1
<1>3. \A i \in 1..Len(s) : s[i] \in S
  BY <1>2 DEF ToSet
<1>4. [i \in 1..Len(s) |-> s[i]] \in Seq(S)
  BY <1>1, <1>3
<1>5. QED
  BY <1>1, <1>2, <1>4

\* And a sequence is a list.
LEMMA SeqIsList ==
  ASSUME NEW S, NEW s \in Seq(S)
  PROVE  IsList(s)
BY DEF IsList

\* Two lists in a row hold what each of them holds.
LEMMA Joined ==
  ASSUME NEW a, NEW b, IsList(a), IsList(b)
  PROVE  IsList(a \o b) /\ ToSet(a \o b) = ToSet(a) \cup ToSet(b)
<1> DEFINE S == ToSet(a) \cup ToSet(b)
<1>1. a \in Seq(S) /\ b \in Seq(S) /\ DOMAIN a = 1..Len(a) /\ DOMAIN b = 1..Len(b)
  BY ListIsSeq
<1> HIDE DEF S
<1>2. a \o b \in Seq(S) /\ Len(a \o b) = Len(a) + Len(b)
      /\ DOMAIN (a \o b) = 1..(Len(a) + Len(b))
  BY <1>1
<1>3. /\ \A i \in 1..Len(a) : i \in DOMAIN (a \o b) /\ (a \o b)[i] = a[i]
      /\ \A i \in 1..Len(b) : Len(a) + i \in DOMAIN (a \o b) /\ (a \o b)[Len(a) + i] = b[i]
  BY <1>1, <1>2
<1>4. \A i \in DOMAIN (a \o b) : i \in 1..Len(a) \/ i - Len(a) \in 1..Len(b)
  BY <1>1, <1>2
<1>5. \A i \in DOMAIN (a \o b) : (a \o b)[i] \in ToSet(a) \cup ToSet(b)
  <2> SUFFICES ASSUME NEW i \in DOMAIN (a \o b) PROVE (a \o b)[i] \in ToSet(a) \cup ToSet(b)
    OBVIOUS
  <2>1. CASE i \in 1..Len(a)
    BY <1>1, <1>3, <2>1 DEF ToSet
  <2>2. CASE i - Len(a) \in 1..Len(b)
    <3>1. Len(a) + (i - Len(a)) = i
      BY <1>1, <1>2
    <3>2. QED
      BY <1>1, <1>3, <2>2, <3>1 DEF ToSet
  <2>3. QED
    BY <1>4, <2>1, <2>2
<1>6. ToSet(a) \cup ToSet(b) \subseteq ToSet(a \o b)
  BY <1>1, <1>3 DEF ToSet
<1>7. QED
  BY <1>2, <1>5, <1>6, SeqIsList DEF ToSet

\* A list backwards holds the same.
LEMMA Reversed ==
  ASSUME NEW s, IsList(s)
  PROVE  IsList(Reverse(s)) /\ ToSet(Reverse(s)) = ToSet(s) /\ DOMAIN Reverse(s) = DOMAIN s
<1>1. s \in Seq(ToSet(s)) /\ DOMAIN s = 1..Len(s) /\ Len(s) \in Nat
  BY ListIsSeq DEF IsList
<1>2. Reverse(s) = [i \in 1..Len(s) |-> s[(Len(s) - i) + 1]]
  BY DEF Reverse
<1>3. \A i \in 1..Len(s) : (Len(s) - i) + 1 \in 1..Len(s) /\ (Len(s) - ((Len(s) - i) + 1)) + 1 = i
  BY <1>1
<1>4. \A i \in 1..Len(s) : s[(Len(s) - i) + 1] \in ToSet(s)
  BY <1>1, <1>3 DEF ToSet
<1>5. Reverse(s) \in Seq(ToSet(s)) /\ DOMAIN Reverse(s) = 1..Len(s)
  BY <1>1, <1>2, <1>4
<1>6. \A i \in 1..Len(s) : Reverse(s)[(Len(s) - i) + 1] = s[i]
  BY <1>2, <1>3
<1>7. ToSet(s) \subseteq ToSet(Reverse(s))
  <2> SUFFICES ASSUME NEW i \in 1..Len(s) PROVE s[i] \in ToSet(Reverse(s))
    BY <1>1 DEF ToSet
  <2>1. (Len(s) - i) + 1 \in DOMAIN Reverse(s)
    BY <1>3, <1>5
  <2>2. QED
    BY <1>6, <2>1 DEF ToSet
<1>8. ToSet(Reverse(s)) \subseteq ToSet(s)
  BY <1>2, <1>4, <1>5 DEF ToSet
<1>9. QED
  BY <1>1, <1>5, <1>7, <1>8, SeqIsList

-----------------------------------------------------------------------------
\* FlattenSeq is what its recursion says.
LEMMA FlattenSteps ==
  ASSUME NEW s, Len(s) \in Nat, Len(s) # 0
  PROVE  \E f : /\ f = [i \in 1..Len(s) |-> IF i = 1 THEN s[i] ELSE f[i - 1] \o s[i]]
               /\ FlattenSeq(s) = f[Len(s)]
<1> DEFINE Step(g, i) == IF i = 1 THEN s[i] ELSE g[i - 1] \o s[i]
           Good(g, k) == g = [i \in 1..k |-> Step(g, i)]
           Bad == {k \in Nat : ~\E g : Good(g, k)}
<1>1. Bad = {}
  <2> SUFFICES ASSUME Bad # {} PROVE FALSE
    OBVIOUS
  <2>1. PICK k \in Bad : \A m \in Bad : k <= m
    <3> HIDE DEF Bad
    <3>1. Bad \in SUBSET Nat
      BY DEF Bad
    <3>2. QED
      BY <3>1, Least
  <2>2. k \in Nat /\ ~\E g : Good(g, k)
    OBVIOUS
  <2>3. k # 0
    <3>1. Good([i \in 1..0 |-> 0], 0)
      OBVIOUS
    <3>2. QED
      BY <2>2, <3>1
  <2>4. k - 1 \in Nat /\ ~(k <= k - 1)
    BY <2>2, <2>3
  <2>5. k - 1 \notin Bad
    <3> HIDE DEF Bad
    <3>1. QED
      BY <2>1, <2>4
  <2>6. PICK g : Good(g, k - 1)
    BY <2>4, <2>5
  <2> DEFINE h == [i \in 1..k |-> Step(g, i)]
  <2> HIDE DEF Step
  <2>7. \A i \in 1..(k - 1) : h[i] = g[i]
    <3>1. \A i \in 1..(k - 1) : g[i] = Step(g, i)
      BY <2>6
    <3>2. \A i \in 1..(k - 1) : h[i] = Step(g, i)
      BY <2>2
    <3>3. QED
      BY <3>1, <3>2, Zenon
  <2>8. \A i \in 1..k : i = 1 \/ h[i - 1] = g[i - 1]
    <3> HIDE DEF h
    <3>1. \A i \in 1..k : i = 1 \/ i - 1 \in 1..(k - 1)
      BY <2>2
    <3>2. QED
      BY <3>1, <2>7
  <2>9. \A i \in 1..k : Step(h, i) = Step(g, i)
    <3> HIDE DEF h
    <3>1. QED
      BY <2>8 DEF Step
  <2>10. Good(h, k)
    BY <2>9
  <2>11. QED
    BY <2>2, <2>10
<1> DEFINE f[i \in 1..Len(s)] == IF i = 1 THEN s[i] ELSE f[i - 1] \o s[i]
<1>2. Good(f, Len(s))
  <2>1. \E g : Good(g, Len(s))
    BY <1>1
  <2>2. f = CHOOSE g : Good(g, Len(s))
    OBVIOUS
  <2>3. QED
    BY <2>1, <2>2
<1>3. FlattenSeq(s) = f[Len(s)]
  BY DEF FlattenSeq
<1>4. QED
  BY <1>2, <1>3

\* Its elements are those of all lists.
LEMMA Flattened ==
  ASSUME NEW s, IsList(s), \A i \in DOMAIN s : IsList(s[i])
  PROVE  /\ IsList(FlattenSeq(s))
         /\ ToSet(FlattenSeq(s)) = UNION {ToSet(s[i]) : i \in DOMAIN s}
<1> DEFINE n == Len(s)
<1>1. n \in Nat /\ DOMAIN s = 1..n
  BY ListIsSeq DEF IsList
<1>2. CASE n = 0
  <2>1. s \in Seq({}) /\ DOMAIN s = {} /\ FlattenSeq(s) = s
    BY <1>1, <1>2, ListIsSeq DEF FlattenSeq, ToSet
  <2>2. QED
    BY <2>1 DEF ToSet
<1>3. CASE n # 0
  <2>1. PICK f : /\ f = [i \in 1..n |-> IF i = 1 THEN s[i] ELSE f[i - 1] \o s[i]]
                 /\ FlattenSeq(s) = f[n]
    BY <1>1, <1>3, FlattenSteps
  <2>2. f[1] = s[1] /\ \A i \in 1..n : i # 1 => f[i] = f[i - 1] \o s[i]
    <3> DEFINE Step(g, i) == IF i = 1 THEN s[i] ELSE g[i - 1] \o s[i]
    <3>1. f = [i \in 1..n |-> Step(f, i)]
      BY <2>1
    <3> HIDE DEF Step
    <3>2. \A i \in 1..n : f[i] = Step(f, i)
      BY <3>1
    <3>3. 1 \in 1..n
      BY <1>1, <1>3
    <3>4. QED
      BY <3>2, <3>3 DEF Step
  <2> DEFINE All(k) == UNION {ToSet(s[i]) : i \in 1..k}
             Bad == {k \in 1..n : ~(IsList(f[k]) /\ ToSet(f[k]) = All(k))}
  <2>3. Bad = {}
    <3> SUFFICES ASSUME Bad # {} PROVE FALSE
      OBVIOUS
    <3>1. PICK k \in Bad : \A m \in Bad : k <= m
      <4>1. Bad \in SUBSET Nat
        BY <1>1
      <4> HIDE DEF Bad
      <4>2. QED
        BY <4>1, Least
    <3>2. k \in 1..n /\ ~(IsList(f[k]) /\ ToSet(f[k]) = All(k))
      OBVIOUS
    <3>3. CASE k = 1
      <4>1. All(k) = ToSet(s[1])
        BY <3>3
      <4>2. QED
        BY <1>1, <2>2, <3>2, <3>3, <4>1
    <3>4. CASE k # 1
      <4>1. k - 1 \in 1..n /\ ~(k <= k - 1)
        BY <1>1, <3>2, <3>4
      <4>2. k - 1 \notin Bad
        <5> HIDE DEF Bad
        <5>1. QED
          BY <3>1, <4>1
      <4>3. IsList(f[k - 1]) /\ ToSet(f[k - 1]) = All(k - 1)
        BY <4>1, <4>2
      <4>4. IsList(f[k]) /\ ToSet(f[k]) = ToSet(f[k - 1]) \cup ToSet(s[k])
        <5>1. f[k] = f[k - 1] \o s[k] /\ IsList(s[k])
          BY <1>1, <2>2, <3>2, <3>4
        <5>2. QED
          BY <4>3, <5>1, Joined
      <4>5. 1..k = 1..(k - 1) \cup {k}
        BY <1>1, <3>2
      <4>6. All(k) = All(k - 1) \cup ToSet(s[k])
        BY <4>5
      <4>7. QED
        BY <3>2, <4>3, <4>4, <4>6
    <3>5. QED
      BY <3>3, <3>4
  <2>4. IsList(f[n]) /\ ToSet(f[n]) = All(n)
    <3>1. n \in 1..n
      BY <1>1, <1>3
    <3> HIDE DEF All
    <3>2. \A k \in 1..n : IsList(f[k]) /\ ToSet(f[k]) = All(k)
      BY <2>3
    <3>3. QED
      BY <3>1, <3>2
  <2>5. All(n) = UNION {ToSet(s[i]) : i \in DOMAIN s}
    BY <1>1
  <2> HIDE DEF All, Bad
  <2>6. QED
    BY <2>1, <2>4, <2>5
<1>4. QED
  BY <1>2, <1>3

-----------------------------------------------------------------------------
\* A change without a value after it is not listed.
LEMMA ChangedIs ==
  ASSUME NEW changes, IsList(changes)
  PROVE  /\ IsList(ChangedResources(changes))
         /\ ToSet(ChangedResources(changes)) = {c \in ToSet(changes) : ~c.deleted}
<1> DEFINE s == [i \in DOMAIN changes |-> IF changes[i].deleted THEN <<>> ELSE <<changes[i]>>]
<1>1. Len(changes) \in Nat /\ DOMAIN changes = 1..Len(changes)
  BY ListIsSeq DEF IsList
<1>2. \A i \in DOMAIN changes :
        /\ IsList(s[i])
        /\ ToSet(s[i]) = IF changes[i].deleted THEN {} ELSE {changes[i]}
  <2>1. \A x : IsList(<<x>>) /\ ToSet(<<x>>) = {x}
    BY DEF IsList, ToSet
  <2>2. IsList(<<>>) /\ ToSet(<<>>) = {}
    BY DEF IsList, ToSet
  <2>3. QED
    BY <2>1, <2>2
<1>3. IsList(s) /\ DOMAIN s = DOMAIN changes
  BY <1>1 DEF IsList
<1>4. ChangedResources(changes) = FlattenSeq(s)
  BY DEF ChangedResources
<1> HIDE DEF s
<1>5. /\ IsList(FlattenSeq(s))
      /\ ToSet(FlattenSeq(s)) = UNION {ToSet(s[i]) : i \in DOMAIN s}
  BY <1>2, <1>3, Flattened
<1>6. UNION {ToSet(s[i]) : i \in DOMAIN s} = {c \in ToSet(changes) : ~c.deleted}
  <2>1. \A c : c \in ToSet(changes) <=> \E i \in DOMAIN changes : c = changes[i]
    BY DEF ToSet
  <2>2. \A i \in DOMAIN s : ToSet(s[i]) = IF changes[i].deleted THEN {} ELSE {changes[i]}
    BY <1>2, <1>3
  <2>3. \A c \in ToSet(changes) : ~c.deleted => \E i \in DOMAIN s : c \in ToSet(s[i])
    BY <1>3, <2>1, <2>2
  <2>4. \A i \in DOMAIN s : \A c \in ToSet(s[i]) : c \in ToSet(changes) /\ ~c.deleted
    BY <1>3, <2>1, <2>2
  <2>5. QED
    BY <2>3, <2>4
<1>7. QED
  BY <1>4, <1>5, <1>6

\* A plan written backwards lists the same resources.
LEMMA BackwardsIs ==
  ASSUME NEW p, PlanShaped(p)
  PROVE  LET q == Backwards(p) IN
         /\ PlanShaped(q)
         /\ q.providers = p.providers /\ q.image = p.image /\ q.calls = p.calls
         /\ ToSet(Flatten(q)) = ToSet(Flatten(p))
         /\ ToSet(q.changes) = ToSet(p.changes)
<1> DEFINE q == Backwards(p)
           back == [i \in DOMAIN p.planned |-> Reverse(p.planned[i])]
<1>1. /\ q.providers = p.providers /\ q.image = p.image /\ q.calls = p.calls
      /\ q.planned = Reverse(back) /\ q.changes = Reverse(p.changes)
      /\ q = [f \in {"providers", "image", "calls", "planned", "changes"} |-> q[f]]
  BY DEF PlanShaped, Backwards
<1>2. IsList(p.planned) /\ IsList(p.changes) /\ \A i \in DOMAIN p.planned : IsList(p.planned[i])
  BY DEF PlanShaped
<1>3. DOMAIN p.planned = 1..Len(p.planned) /\ Len(p.planned) \in Nat
  BY <1>2, ListIsSeq DEF IsList
<1>4. /\ DOMAIN back = DOMAIN p.planned /\ IsList(back)
      /\ \A i \in DOMAIN back : IsList(back[i]) /\ ToSet(back[i]) = ToSet(p.planned[i])
  <2>1. IsList(back)
    BY <1>3 DEF IsList
  <2>2. QED
    BY <1>2, <2>1, Reversed
<1> HIDE DEF back, q
<1>5. IsList(q.planned) /\ ToSet(q.planned) = ToSet(back)
  BY <1>1, <1>4, Reversed
<1>6. \A i \in DOMAIN q.planned : \E j \in DOMAIN back : q.planned[i] = back[j]
  BY <1>5 DEF ToSet
<1>7. \A j \in DOMAIN back : \E i \in DOMAIN q.planned : q.planned[i] = back[j]
  BY <1>5 DEF ToSet
<1>8. \A i \in DOMAIN q.planned : IsList(q.planned[i])
  BY <1>4, <1>6
<1>9. ToSet(FlattenSeq(q.planned)) = UNION {ToSet(q.planned[i]) : i \in DOMAIN q.planned}
  BY <1>5, <1>8, Flattened
<1>10. ToSet(FlattenSeq(p.planned)) = UNION {ToSet(p.planned[i]) : i \in DOMAIN p.planned}
  BY <1>2, Flattened
<1>11. UNION {ToSet(q.planned[i]) : i \in DOMAIN q.planned} = UNION {ToSet(p.planned[i]) : i \in DOMAIN p.planned}
  BY <1>4, <1>6, <1>7
<1>12. IsList(q.changes) /\ ToSet(q.changes) = ToSet(p.changes)
  BY <1>1, <1>2, Reversed
<1>13. PlanShaped(q)
  BY <1>1, <1>5, <1>8, <1>12 DEF PlanShaped, Modules
<1>14. QED
  BY <1>1, <1>9, <1>10, <1>11, <1>12, <1>13 DEF Flatten, q

-----------------------------------------------------------------------------
\* What the policy reads.

\* What is listed, whichever of the two lists it is taken from.
LEMMA ListedIs ==
  ASSUME NEW p, PlanShaped(p)
  PROVE  /\ IsList(Listed(p))
         /\ Flatten(p) = <<>> <=> ToSet(Flatten(p)) = {}
         /\ Flatten(p) # <<>> => ToSet(Listed(p)) = ToSet(Flatten(p))
         /\ Flatten(p) = <<>> => ToSet(Listed(p)) = {c \in ToSet(p.changes) : ~c.deleted}
<1>1. IsList(p.planned) /\ IsList(p.changes) /\ \A i \in DOMAIN p.planned : IsList(p.planned[i])
  BY DEF PlanShaped
<1>2. IsList(Flatten(p))
  BY <1>1, Flattened DEF Flatten
<1>3. Flatten(p) = <<>> <=> ToSet(Flatten(p)) = {}
  <2>1. Flatten(p) \in Seq(ToSet(Flatten(p))) /\ DOMAIN Flatten(p) = 1..Len(Flatten(p))
    BY <1>2, ListIsSeq
  <2>2. ToSet(Flatten(p)) = {} => Flatten(p) = <<>>
    BY <2>1
  <2>3. ToSet(<<>>) = {}
    BY DEF ToSet
  <2>4. QED
    BY <2>2, <2>3
<1>4. IsList(ChangedResources(p.changes))
      /\ ToSet(ChangedResources(p.changes)) = {c \in ToSet(p.changes) : ~c.deleted}
  BY <1>1, ChangedIs
<1>5. QED
  BY <1>2, <1>3, <1>4 DEF Listed

\* What the policy reads is what is listed, and what it takes for known is
\* known, as every planned resource is among the changes.
LEMMA ReadIsListed ==
  ASSUME NEW p, PlanShaped(p), \A r \in ToSet(Listed(p)) : r = [f \in Fields |-> r[f]],
         ToSet(Listed(p)) \subseteq ToSet(p.changes)
  PROVE  Resources(p) = Listed(p)
<1> DEFINE rs == Listed(p)
<1>1. CASE Flatten(p) = <<>>
  BY <1>1 DEF Resources, Listed
<1>2. CASE Flatten(p) # <<>>
  <2>1. rs = Flatten(p) /\ Resources(p) = [i \in DOMAIN rs |-> WithUnknown(rs[i], p.changes)]
    BY <1>2 DEF Resources, Listed
  <2>2. ASSUME NEW i \in DOMAIN rs PROVE WithUnknown(rs[i], p.changes) = rs[i]
    <3>1. rs[i] \in ToSet(p.changes) /\ rs[i] = [f \in Fields |-> rs[i][f]]
      BY DEF ToSet
    <3> DEFINE r == rs[i]
    <3> HIDE DEF r
    <3>2. WithUnknown(r, p.changes) = [r EXCEPT !.unknown = r.unknown]
      BY <3>1 DEF WithUnknown, r
    <3>3. [r EXCEPT !.unknown = r.unknown] = r
      BY <3>1 DEF r, Fields
    <3>4. QED
      BY <3>2, <3>3 DEF r
  <2>3. rs = [i \in DOMAIN rs |-> rs[i]]
    BY ListedIs DEF IsList
  <2>4. QED
    BY <2>1, <2>2, <2>3
<1>3. QED
  BY <1>1, <1>2

\* Of a plan that may be saved the policy reads what is listed, and that is what
\* the changes have, without the deletions.
LEMMA PlanIsRead ==
  ASSUME NEW p \in Plans
  PROVE  /\ PlanShaped(p) /\ Resources(p) = Listed(p)
         /\ ToSet(Listed(p)) = {c \in ToSet(p.changes) : ~c.deleted}
         /\ \A r \in ToSet(Listed(p)) : r = [f \in Fields |-> r[f]]
<1>1. PlanShaped(p) /\ \A r \in ToSet(Listed(p)) : r = [f \in Fields |-> r[f]]
  BY PlansAssumption DEF WellFormed, ToSet
<1>2. ToSet(Listed(p)) = {c \in ToSet(p.changes) : ~c.deleted}
  <2>1. Flatten(p) # <<>> => ToSet(Flatten(p)) = ToSet(ChangedResources(p.changes))
    BY PlansAssumption DEF WellFormed
  <2>2. ToSet(ChangedResources(p.changes)) = {c \in ToSet(p.changes) : ~c.deleted}
    BY <1>1, ChangedIs DEF PlanShaped
  <2>3. QED
    BY <1>1, <2>1, <2>2, ListedIs
<1>3. Resources(p) = Listed(p)
  BY <1>1, <1>2, ReadIsListed
<1>4. QED
  BY <1>1, <1>2, <1>3

-----------------------------------------------------------------------------
\* The images that the policy takes for proven.

\* A module is deeper than its caller.
LEMMA CallerIsAbove ==
  ASSUME NEW p, PlanShaped(p)
  PROVE  /\ \A m \in Modules(p) : Len(m) \in Nat
         /\ \A m \in Modules(p) : m # <<>> =>
              m \in DOMAIN p.calls /\ Front(m) \in Modules(p) /\ Len(Front(m)) = Len(m) - 1 /\ Len(m) # 0
<1>1. ASSUME NEW m \in DOMAIN p.calls
      PROVE  /\ m # <<>> /\ Front(m) \in Modules(p) /\ Len(m) \in Nat
             /\ Len(Front(m)) = Len(m) - 1 /\ Len(m) # 0
  <2>1. m \in Seq(STRING) /\ m # <<>> /\ Front(m) \in Modules(p)
    BY DEF PlanShaped
  <2>2. Len(m) \in Nat /\ Len(m) # 0
    BY <2>1
  <2>3. Len(SubSeq(m, 1, Len(m) - 1)) = Len(m) - 1
    <3>1. \A i \in 1..(Len(m) - 1) : m[i] \in STRING
      BY <2>1, <2>2
    <3>2. Len(SubSeq(m, 1, Len(m) - 1)) = IF 1 <= Len(m) - 1 THEN Len(m) - 1 - 1 + 1 ELSE 0
      BY <2>2, <3>1, SubSeqProperties
    <3>3. \A n \in Nat \ {0} : (IF 1 <= n - 1 THEN n - 1 - 1 + 1 ELSE 0) = n - 1
      OBVIOUS
    <3>4. QED
      BY <2>2, <3>2, <3>3
  <2>4. QED
    BY <2>1, <2>2, <2>3 DEF Front
<1>2. Len(<<>>) \in Nat
  OBVIOUS
<1>3. QED
  BY <1>1, <1>2 DEF Modules

\* Images is what its recursion over the calls says.
LEMMA ImagesIs ==
  ASSUME NEW p, PlanShaped(p)
  PROVE  \A m \in Modules(p) :
           Images(p)[m] = IF m = <<>> THEN p.image
                          ELSE CASE p.calls[m] \in {"reference", "mention"} -> Images(p)[Front(m)]
                                 [] p.calls[m] = "nothing" -> ""
                                 [] OTHER                  -> p.calls[m]
<1> DEFINE Step(g, m) == IF m = <<>> THEN p.image
                         ELSE CASE p.calls[m] \in {"reference", "mention"} -> g[Front(m)]
                                [] p.calls[m] = "nothing" -> ""
                                [] OTHER                  -> p.calls[m]
           Upto(n) == {m \in Modules(p) : Len(m) <= n}
           Good(g, n) == g = [m \in Upto(n) |-> Step(g, m)]
<1>c. /\ \A m \in Modules(p) : Len(m) \in Nat
      /\ \A m \in Modules(p) : m # <<>> =>
           Front(m) \in Modules(p) /\ Len(Front(m)) = Len(m) - 1 /\ Len(m) # 0
  BY CallerIsAbove
<1>s. ASSUME NEW g, NEW h, NEW m, m = <<>> \/ g[Front(m)] = h[Front(m)]
      PROVE  Step(g, m) = Step(h, m)
  BY <1>s
<1>u. ASSUME NEW n \in Nat, NEW g, Good(g, n), NEW m \in Modules(p), Len(m) <= n
      PROVE  g[m] = Step(g, m)
  <2>1. m \in Upto(n)
    BY <1>u
  <2> HIDE DEF Step, Upto
  <2>2. QED
    BY <1>u, <2>1
<1> HIDE DEF Step
\* Two that agree with the recursion agree with each other.
<1>1. ASSUME NEW n \in Nat, NEW k \in Nat, NEW g, NEW h, Good(g, n), Good(h, k)
      PROVE  \A m \in Modules(p) : Len(m) <= n /\ Len(m) <= k => g[m] = h[m]
  <2> DEFINE Bad == {l \in Nat : \E m \in Modules(p) :
                       Len(m) = l /\ Len(m) <= n /\ Len(m) <= k /\ g[m] # h[m]}
  <2> SUFFICES ASSUME Bad # {} PROVE FALSE
    BY <1>c
  <2>1. PICK l \in Bad : \A i \in Bad : l <= i
    <3> HIDE DEF Bad
    <3>1. Bad \in SUBSET Nat
      BY DEF Bad
    <3>2. QED
      BY <3>1, Least
  <2>2. PICK m \in Modules(p) : Len(m) = l /\ Len(m) <= n /\ Len(m) <= k /\ g[m] # h[m]
    OBVIOUS
  <2>3. g[m] = Step(g, m) /\ h[m] = Step(h, m)
    BY <1>1, <1>u, <2>2
  <2>4. m # <<>> /\ g[Front(m)] # h[Front(m)]
    BY <1>s, <2>2, <2>3
  <2>5. /\ Front(m) \in Modules(p) /\ Len(Front(m)) = l - 1 /\ Len(Front(m)) <= n /\ Len(Front(m)) <= k
        /\ l - 1 \in Nat /\ ~(l <= l - 1)
    BY <1>c, <2>2, <2>4
  <2>6. l - 1 \in Bad
    BY <2>4, <2>5
  <2>7. QED
    <3> HIDE DEF Bad
    <3>1. QED
      BY <2>1, <2>5, <2>6
\* There is one for every depth.
<1>2. \A n \in Nat : \E g : Good(g, n)
  <2> DEFINE Bad == {n \in Nat : ~\E g : Good(g, n)}
  <2> SUFFICES ASSUME Bad # {} PROVE FALSE
    OBVIOUS
  <2>1. PICK n \in Bad : \A i \in Bad : n <= i
    <3> HIDE DEF Bad
    <3>1. Bad \in SUBSET Nat
      BY DEF Bad
    <3>2. QED
      BY <3>1, Least
  <2>2. n \in Nat /\ ~\E g : Good(g, n)
    OBVIOUS
  <2>3. CASE n = 0
    <3> DEFINE g == [m \in Upto(0) |-> p.image]
    <3>1. ASSUME NEW m \in Upto(0) PROVE m = <<>>
      BY <1>c
    <3>2. \A m \in Upto(0) : Step(g, m) = p.image
      BY <3>1 DEF Step
    <3>3. Good(g, 0)
      <4> HIDE DEF Upto
      <4>1. QED
        BY <3>2
    <3>4. QED
      BY <2>2, <2>3, <3>3
  <2>4. CASE n # 0
    <3>1. n - 1 \in Nat /\ ~(n <= n - 1)
      BY <2>2, <2>4
    <3>2. n - 1 \notin Bad
      <4> HIDE DEF Bad
      <4>1. QED
        BY <2>1, <3>1
    <3>3. PICK g : Good(g, n - 1)
      BY <3>1, <3>2
    <3> DEFINE h == [m \in Upto(n) |-> Step(g, m)]
    <3>4. ASSUME NEW m \in Upto(n - 1) PROVE h[m] = g[m]
      <4>1. m \in Modules(p) /\ Len(m) <= n - 1 /\ Len(m) <= n
        BY <1>c, <2>2, <3>1
      <4>2. g[m] = Step(g, m)
        BY <1>u, <3>1, <3>3, <4>1
      <4>3. m \in Upto(n)
        BY <4>1
      <4>4. QED
        <5> HIDE DEF Upto
        <5>1. QED
          BY <4>2, <4>3
    <3>5. ASSUME NEW m \in Upto(n) PROVE Step(h, m) = Step(g, m)
      <4>1. CASE m = <<>>
        BY <1>s, <4>1
      <4>2. CASE m # <<>>
        <5>1. Front(m) \in Upto(n - 1)
          BY <1>c, <2>2, <4>2
        <5>2. h[Front(m)] = g[Front(m)]
          <6> HIDE DEF Upto, h
          <6>1. QED
            BY <3>4, <5>1
        <5>3. QED
          <6> HIDE DEF h
          <6>1. QED
            BY <1>s, <5>2
      <4>3. QED
        BY <4>1, <4>2
    <3>6. Good(h, n)
      <4> HIDE DEF Upto
      <4>1. QED
        BY <3>5
    <3>7. QED
      BY <2>2, <3>6
  <2>5. QED
    BY <2>3, <2>4
<1> DEFINE At(n) == CHOOSE g : Good(g, n)
           F == [m \in Modules(p) |-> At(Len(m))[m]]
<1>3. \A n \in Nat : Good(At(n), n)
  <2> HIDE DEF Good
  <2>1. QED
    BY <1>2
<1>4. ASSUME NEW m \in Modules(p) PROVE F[m] = Step(F, m)
  <2>1. Len(m) \in Nat /\ F[m] = At(Len(m))[m]
    BY <1>c
  <2>2. At(Len(m))[m] = Step(At(Len(m)), m)
    <3> HIDE DEF At, Good
    <3>1. Len(m) <= Len(m)
      BY <2>1
    <3>2. QED
      BY <1>3, <1>u, <2>1, <3>1
  <2>3. m = <<>> \/ At(Len(m))[Front(m)] = F[Front(m)]
    <3> SUFFICES ASSUME m # <<>> PROVE At(Len(m))[Front(m)] = F[Front(m)]
      OBVIOUS
    <3> DEFINE c == Front(m)
    <3>1. c \in Modules(p) /\ Len(c) \in Nat /\ Len(c) <= Len(m)
      BY <1>c
    <3>2. F[c] = At(Len(c))[c]
      BY <3>1
    <3>3. At(Len(c))[c] = At(Len(m))[c]
      <4> HIDE DEF At, Good, c
      <4>1. Len(c) <= Len(c)
        BY <3>1
      <4>2. QED
        BY <1>1, <1>3, <2>1, <3>1, <4>1
    <3>4. QED
      BY <3>2, <3>3
  <2>4. Step(At(Len(m)), m) = Step(F, m)
    <3> HIDE DEF F, At
    <3>1. QED
      BY <1>s, <2>3
  <2>5. QED
    BY <2>1, <2>2, <2>4
<1>5. F = [m \in Modules(p) |-> Step(F, m)]
  <2>1. F = [m \in Modules(p) |-> F[m]]
    OBVIOUS
  <2> HIDE DEF F
  <2>2. QED
    BY <1>4, <2>1
<1>6. Images(p) = CHOOSE g : g = [m \in Modules(p) |-> Step(g, m)]
  BY DEF Images, Step
<1>7. Images(p) = [m \in Modules(p) |-> Step(Images(p), m)]
  <2> HIDE DEF F
  <2>1. QED
    BY <1>5, <1>6
<1>8. \A m \in Modules(p) : Images(p)[m] = Step(Images(p), m)
  BY <1>7
<1>9. QED
  BY <1>8 DEF Step

\* What a call hands down is a mention if it is one, and where it refers to a
\* mention of its caller's.
LEMMA MentionIsHanded ==
  ASSUME NEW p, PlanShaped(p), NEW m \in DOMAIN p.calls
  PROVE  /\ p.calls[m] = "mention" => GivenMention(m, p)
         /\ p.calls[m] = "reference" /\ GivenMention(Front(m), p) => GivenMention(m, p)
<1>1. m \in Seq(STRING) /\ Len(m) \in Nat /\ Len(m) # 0 /\ Len(Front(m)) = Len(m) - 1
  <2>1. m \in Seq(STRING)
    BY DEF PlanShaped
  <2>2. m \in Modules(p) /\ m # <<>>
    BY DEF PlanShaped, Modules
  <2>3. QED
    BY <2>1, <2>2, CallerIsAbove
<1>2. SubSeq(m, 1, Len(m)) = m
  BY <1>1, SubSeqFull
<1>3. Len(m) \in 1..Len(m) /\ (Len(m) + 1)..Len(m) = {}
  BY <1>1
<1>4. p.calls[m] = "mention" => GivenMention(m, p)
  BY <1>2, <1>3 DEF GivenMention
<1>5. ASSUME NEW n \in 1..(Len(m) - 1) PROVE SubSeq(Front(m), 1, n) = SubSeq(m, 1, n)
  <2>1. /\ 1 \in 1..Len(m) /\ Len(m) - 1 \in 1..Len(m)
        /\ 1 \in 1..((Len(m) - 1) - 1 + 1) /\ n \in 1..((Len(m) - 1) - 1 + 1)
        /\ 1 + 1 - 1 = 1 /\ 1 + n - 1 = n
    BY <1>1
  <2>2. SubSeq(SubSeq(m, 1, Len(m) - 1), 1, n) = SubSeq(m, 1 + 1 - 1, 1 + n - 1)
    BY <1>1, <2>1, SubSeqOfSubSeq
  <2>3. QED
    BY <2>1, <2>2 DEF Front
<1>6. ASSUME p.calls[m] = "reference", GivenMention(Front(m), p) PROVE GivenMention(m, p)
  <2>1. PICK n \in 1..(Len(m) - 1) :
          /\ p.calls[SubSeq(Front(m), 1, n)] = "mention"
          /\ \A k \in (n + 1)..(Len(m) - 1) : p.calls[SubSeq(Front(m), 1, k)] = "reference"
    BY <1>1, <1>6 DEF GivenMention
  <2>2. /\ n \in 1..Len(m)
        /\ \A k \in (n + 1)..Len(m) :
              (k \in 1..(Len(m) - 1) /\ k \in (n + 1)..(Len(m) - 1)) \/ k = Len(m)
    BY <1>1
  <2>3. p.calls[SubSeq(m, 1, n)] = "mention"
    BY <1>5, <2>1
  <2>4. \A k \in (n + 1)..Len(m) : p.calls[SubSeq(m, 1, k)] = "reference"
    <3> SUFFICES ASSUME NEW k \in (n + 1)..Len(m) PROVE p.calls[SubSeq(m, 1, k)] = "reference"
      OBVIOUS
    <3>1. CASE k = Len(m)
      BY <1>2, <1>6, <3>1
    <3>2. CASE k \in 1..(Len(m) - 1) /\ k \in (n + 1)..(Len(m) - 1)
      BY <1>5, <2>1, <3>2
    <3>3. QED
      BY <2>2, <3>1, <3>2
  <2>5. QED
    BY <2>2, <2>3, <2>4 DEF GivenMention
<1>7. QED
  BY <1>4, <1>6

\* Where the policy takes the image for a digest, it is one, whatever the
\* modules that are given nothing have for a default, unless what the module is
\* given comes from a call that only mentions the image.
LEMMA ImageIsPassed ==
  ASSUME NEW p, PlanShaped(p), NEW image \in ImageValues(p),
         NEW m \in Modules(p), Images(p)[m] = "digest", ~GivenMention(m, p)
  PROVE  image[m] = "digest"
<1> DEFINE Wrong(k) == Images(p)[k] = "digest" /\ image[k] # "digest" /\ ~GivenMention(k, p)
           Bad == {n \in Nat : \E k \in Modules(p) : Len(k) = n /\ Wrong(k)}
<1>c. /\ \A k \in Modules(p) : Len(k) \in Nat
      /\ \A k \in Modules(p) : k # <<>> =>
           k \in DOMAIN p.calls /\ Front(k) \in Modules(p) /\ Len(Front(k)) = Len(k) - 1 /\ Len(k) # 0
  BY CallerIsAbove
<1> SUFFICES ASSUME Bad # {} PROVE FALSE
  BY <1>c
<1>1. PICK n \in Bad : \A i \in Bad : n <= i
  <2> HIDE DEF Bad
  <2>1. Bad \in SUBSET Nat
    BY DEF Bad
  <2>2. QED
    BY <2>1, Least
<1>2. PICK k \in Modules(p) : Len(k) = n /\ Wrong(k)
  OBVIOUS
<1>3. k # <<>>
  <2>1. image[<<>>] = p.image
    BY DEF ImageValues
  <2>2. k = <<>> => Images(p)[k] = p.image
    BY ImagesIs
  <2>3. QED
    BY <1>2, <2>1, <2>2
<1>4. k \in DOMAIN p.calls
  BY <1>c, <1>3
<1>5. /\ p.calls[k] \in ImageKinds \cup {"reference", "mention", "nothing"}
      /\ p.calls[k] = "reference" => image[k] = image[Front(k)]
      /\ p.calls[k] \in ImageKinds => image[k] = p.calls[k]
  BY <1>4 DEF ImageValues, PlanShaped
<1>6. Images(p)[k] = CASE p.calls[k] \in {"reference", "mention"} -> Images(p)[Front(k)]
                       [] p.calls[k] = "nothing" -> ""
                       [] OTHER                  -> p.calls[k]
  BY <1>3, ImagesIs
<1>7. p.calls[k] = "reference" /\ ~GivenMention(Front(k), p)
  <2>1. p.calls[k] # "mention" /\ (p.calls[k] = "reference" => ~GivenMention(Front(k), p))
    BY <1>2, <1>4, MentionIsHanded
  <2>2. p.calls[k] # "nothing" /\ p.calls[k] \notin ImageKinds
    BY <1>2, <1>5, <1>6 DEF ImageKinds
  <2>3. QED
    BY <1>5, <2>1, <2>2
<1>8. Wrong(Front(k))
  BY <1>2, <1>5, <1>6, <1>7
<1>9. Front(k) \in Modules(p) /\ Len(Front(k)) = n - 1 /\ n - 1 \in Nat /\ ~(n <= n - 1)
  BY <1>c, <1>2, <1>3
<1>10. n - 1 \in Bad
  <2> HIDE DEF Wrong
  <2>1. QED
    BY <1>8, <1>9
<1>11. QED
  <2> HIDE DEF Bad
  <2>1. QED
    BY <1>1, <1>9, <1>10

-----------------------------------------------------------------------------
\* A plan that passed is safe.

\* What applying a plan leaves of a listed resource: all of it but the values
\* that were unknown, and those are among what they may become.
LeftOf(r, g, rs, p) ==
    /\ g.type = r.type
    /\ \A f \in DOMAIN r.v \ r.unknown : g.v[f] = r.v[f]
    /\ \A f \in r.unknown : g.v[f] \in Becomes(r, rs, p)

LEMMA SettledIsLeft ==
  ASSUME NEW p, NEW rs, NEW r, DOMAIN r = Fields, r.unknown \subseteq DOMAIN r.v, NEW g \in Settled(r, rs, p)
  PROVE  LeftOf(r, g, rs, p)
<1> DEFINE Filled(values) == [f \in DOMAIN r.v |-> IF f \in r.unknown THEN values[f] ELSE r.v[f]]
<1>1. PICK values \in [r.unknown -> Becomes(r, rs, p)] : g = [r EXCEPT !.v = Filled(values)]
  BY DEF Settled
<1>2. g.type = r.type /\ g.v = Filled(values)
  BY <1>1 DEF Fields
<1>3. \A f \in r.unknown : g.v[f] = values[f]
  BY <1>2
<1>4. \A f \in DOMAIN r.v \ r.unknown : g.v[f] = r.v[f]
  BY <1>2
<1>5. QED
  BY <1>1, <1>2, <1>3, <1>4 DEF LeftOf

\* The resources that are left are those that were listed.
LEMMA OutcomeIsLeft ==
  ASSUME NEW p \in Plans, NEW done \in Outcomes(p)
  PROVE  /\ DOMAIN done = DOMAIN Listed(p)
         /\ \A i \in DOMAIN Listed(p) : LeftOf(Listed(p)[i], done[i], Listed(p), p)
<1>1. \A i \in DOMAIN Listed(p) :
        DOMAIN Listed(p)[i] = Fields /\ Listed(p)[i].unknown \subseteq DOMAIN Listed(p)[i].v
  <2> SUFFICES ASSUME NEW i \in DOMAIN Listed(p)
               PROVE  DOMAIN Listed(p)[i] = Fields /\ Listed(p)[i].unknown \subseteq DOMAIN Listed(p)[i].v
    OBVIOUS
  <2> DEFINE r == Listed(p)[i]
  <2>1. r = [f \in Fields |-> r[f]] /\ UnknownIsAbsent(r)
    BY PlansAssumption DEF WellFormed
  <2> HIDE DEF r
  <2>2. DOMAIN r = Fields
    BY <2>1
  <2>3. r.unknown \subseteq DOMAIN r.v
    BY <2>1 DEF UnknownIsAbsent
  <2>4. QED
    BY <2>2, <2>3 DEF r
<1>2. /\ DOMAIN done = DOMAIN Listed(p)
      /\ \A i \in DOMAIN Listed(p) : done[i] \in Settled(Listed(p)[i], Listed(p), p)
  BY DEF Outcomes
<1>3. QED
  BY <1>1, <1>2, SettledIsLeft

-----------------------------------------------------------------------------
\* A listed resource, as the policy finds it and as it is left.
LEMMA OneResource ==
  ASSUME NEW p \in Plans, NEW done \in Outcomes(p), Evaluate(p) = {}, NEW i \in DOMAIN Listed(p)
  PROVE  /\ ~Violates(i, Resources(p), p) /\ Resources(p)[i] = Listed(p)[i]
         /\ Shaped(Listed(p)[i]) /\ UnknownIsAbsent(Listed(p)[i]) /\ Listed(p)[i].path \in Modules(p)
         /\ LeftOf(Listed(p)[i], done[i], Listed(p), p) /\ i \in DOMAIN done
<1>1. ResourceViolations(Resources(p), p) = {}
  BY DEF Evaluate
<1>2. /\ DOMAIN Resources(p) = DOMAIN Listed(p) /\ Resources(p)[i] = Listed(p)[i]
  BY PlanIsRead
<1>3. ~Violates(i, Resources(p), p)
  BY <1>1, <1>2 DEF ResourceViolations
<1>4. Shaped(Listed(p)[i]) /\ UnknownIsAbsent(Listed(p)[i]) /\ Listed(p)[i].path \in Modules(p)
  BY PlansAssumption DEF WellFormed
<1>5. LeftOf(Listed(p)[i], done[i], Listed(p), p) /\ i \in DOMAIN done
  BY OutcomeIsLeft
<1>6. QED
  BY <1>2, <1>3, <1>4, <1>5

\* What is there was not unknown, and stays.
LEMMA WhatIsThereStays ==
  ASSUME NEW r, NEW g, NEW rs, NEW p, UnknownIsAbsent(r), LeftOf(r, g, rs, p),
         NEW f \in DOMAIN r.v, r.v[f] # Absent(f)
  PROVE  f \notin r.unknown /\ g.v[f] = r.v[f]
BY DEF UnknownIsAbsent, LeftOf

\* Databases, load balancers, services and rules for ingress: the policy asks
\* for values that are there.
LEMMA PlainIsSafe ==
  ASSUME NEW p \in Plans, NEW done \in Outcomes(p), Evaluate(p) = {}, NEW i \in DOMAIN Listed(p),
         Listed(p)[i].type \in {"db_instance", "lb", "ecs_service", "ingress_rule"}
  PROVE  SafeIn(done[i], done)
<1> DEFINE r == Listed(p)[i]
           g == done[i]
<1>1. /\ ~Violates(i, Resources(p), p) /\ Resources(p)[i] = r
      /\ Shaped(r) /\ UnknownIsAbsent(r) /\ LeftOf(r, g, Listed(p), p) /\ g.type = r.type
  BY OneResource DEF LeftOf
<1>2. \A f \in DOMAIN r.v : r.v[f] # Absent(f) => g.v[f] = r.v[f]
  BY <1>1, WhatIsThereStays
<1> HIDE DEF r, g
<1>3. CASE r.type = "db_instance"
  <2>1. r.v.multi_az = "true" /\ r.v.publicly_accessible = "false" /\ r.v.storage_encrypted = "true"
    BY <1>1, <1>3 DEF Violates
  <2>2. {"multi_az", "publicly_accessible", "storage_encrypted"} \subseteq DOMAIN r.v
    BY <1>1, <1>3 DEF Shaped
  <2>3. g.v.multi_az = "true" /\ g.v.publicly_accessible = "false" /\ g.v.storage_encrypted = "true"
    BY <1>2, <2>1, <2>2 DEF Absent
  <2>4. QED
    BY <1>1, <1>3, <2>3 DEF SafeIn, g
<1>4. CASE r.type = "lb"
  <2>1. r.v.internal = "true"
    BY <1>1, <1>4 DEF Violates
  <2>2. "internal" \in DOMAIN r.v
    BY <1>1, <1>4 DEF Shaped
  <2>3. g.v.internal = "true"
    BY <1>2, <2>1, <2>2 DEF Absent
  <2>4. QED
    BY <1>1, <1>4, <2>3 DEF SafeIn, g
<1>5. CASE r.type = "ecs_service"
  <2>1. Len(r.v.configurations) = 1 /\ r.v.configurations[1] = "false"
    BY <1>1, <1>5 DEF Violates, AssignsPublicIP
  <2>2. "configurations" \in DOMAIN r.v /\ r.v.configurations \in Seq(Flag)
    BY <1>1, <1>5 DEF Shaped
  <2>3. r.v.configurations = <<"false">> /\ r.v.configurations # <<>>
    BY <2>1, <2>2
  <2>4. g.v.configurations = <<"false">>
    BY <1>2, <2>2, <2>3 DEF Absent
  <2>5. QED
    BY <1>1, <1>5, <2>4 DEF SafeIn, g
<1>6. CASE r.type = "ingress_rule"
  <2>1. {r.v.cidr_ipv4, r.v.cidr_ipv6} \cap World = {} /\ r.unknown = {}
    BY <1>1, <1>6 DEF Violates
  <2>2. {"cidr_ipv4", "cidr_ipv6"} \subseteq DOMAIN r.v
    BY <1>1, <1>6 DEF Shaped
  <2>3. g.v.cidr_ipv4 = r.v.cidr_ipv4 /\ g.v.cidr_ipv6 = r.v.cidr_ipv6
    BY <1>1, <2>1, <2>2 DEF LeftOf
  <2>4. QED
    BY <1>1, <1>6, <2>1, <2>3 DEF SafeIn, g
<1>7. QED
  BY <1>3, <1>4, <1>5, <1>6 DEF r

\* Task definitions and distributions: what is unknown is proven by the
\* configuration, unless that only mentions the proof.
LEMMA ProvenIsSafe ==
  ASSUME NEW p \in Plans, NEW done \in Outcomes(p), Evaluate(p) = {}, NEW i \in DOMAIN Listed(p),
         Listed(p)[i].type \in {"task_definition", "distribution"},
         ~RestsOnMention(Listed(p)[i], Listed(p), p)
  PROVE  SafeIn(done[i], done)
<1> DEFINE r == Listed(p)[i]
           g == done[i]
<1>1. /\ ~Violates(i, Resources(p), p) /\ Resources(p)[i] = r
      /\ Shaped(r) /\ UnknownIsAbsent(r) /\ LeftOf(r, g, Listed(p), p) /\ g.type = r.type
  BY OneResource DEF LeftOf
<1>2. \A f \in DOMAIN r.v : r.v[f] # Absent(f) => g.v[f] = r.v[f]
  BY <1>1, WhatIsThereStays
<1>3. \A f \in r.unknown : g.v[f] \in Becomes(r, Listed(p), p)
  BY <1>1 DEF LeftOf
<1>4. ToSet(Resources(p)) = ToSet(Listed(p)) /\ PlanShaped(p) /\ r.path \in Modules(p)
  BY PlanIsRead, OneResource
<1>m. ~RestsOnMention(r, Listed(p), p)
  OBVIOUS
<1> HIDE DEF r, g
<1>5. CASE r.type = "task_definition"
  <2>1. "container_definitions" \in DOMAIN r.v
    BY <1>1, <1>5 DEF Shaped
  <2>2. CASE UseDigests(r.v.container_definitions)
    <3>1. g.v.container_definitions = r.v.container_definitions
      BY <1>2, <2>1, <2>2 DEF Absent, UseDigests
    <3>2. QED
      BY <1>1, <1>5, <2>2, <3>1 DEF SafeIn, g
  <2>3. CASE "container_definitions" \in r.unknown /\ ImageProven(r, p)
    <3>1. r.usesImage /\ Images(p)[r.path] = "digest"
      BY <2>3 DEF ImageProven
    <3>m. r.exact /\ ~GivenMention(r.path, p)
      BY <1>m, <1>5, <2>3, <3>1 DEF RestsOnMention
    <3>2. PICK image \in ImageValues(p) : g.v.container_definitions = <<image[r.path]>>
      BY <1>3, <1>5, <2>3, <3>1, <3>m DEF Becomes
    <3>3. g.v.container_definitions = <<"digest">>
      BY <1>4, <3>1, <3>2, <3>m, ImageIsPassed
    <3>4. UseDigests(<<"digest">>)
      BY DEF UseDigests, ToSet
    <3>5. QED
      BY <1>1, <1>5, <3>3, <3>4 DEF SafeIn, g
  <2>4. QED
    BY <1>1, <1>5, <2>2, <2>3 DEF Violates
<1>6. CASE r.type = "distribution"
  <2>1. r.v \in [web_acl_id : {"acl", ""}]
    BY <1>1, <1>6 DEF Shaped
  <2>2. CASE r.v.web_acl_id # ""
    <3>1. g.v.web_acl_id = "acl"
      BY <1>2, <2>1, <2>2 DEF Absent
    <3>2. QED
      BY <1>1, <1>6, <3>1 DEF SafeIn, g
  <2>3. CASE r.unknown # {} /\ \E w \in ToSet(Listed(p)) : w.type = "web_acl"
    <3>1. DOMAIN r.v = {"web_acl_id"}
      BY <2>1
    <3>2. r.unknown \subseteq {"web_acl_id"}
      BY <1>1, <3>1 DEF UnknownIsAbsent
    <3>3. r.unknown = {"web_acl_id"}
      BY <2>3, <3>2
    <3>m. r.exact
      BY <1>m, <1>6, <2>3 DEF RestsOnMention
    <3>4. Becomes(r, Listed(p), p) = {"acl"}
      BY <1>6, <2>3, <3>m DEF Becomes
    <3>5. g.v.web_acl_id = "acl"
      BY <1>3, <3>3, <3>4
    <3>6. QED
      BY <1>1, <1>6, <3>5 DEF SafeIn, g
  <2>4. QED
    BY <1>1, <1>4, <1>6, <2>2, <2>3 DEF Violates
<1>7. QED
  BY <1>5, <1>6 DEF r

\* What is left of a complete block is complete.
LEMMA CompleteStays ==
  ASSUME NEW p, NEW rs, NEW b, NEW g, b.type = "public_access_block", Complete(b),
         Shaped(b), UnknownIsAbsent(b), LeftOf(b, g, rs, p)
  PROVE  g.type = "public_access_block" /\ Complete(g)
<1> DEFINE Flags == {"block_public_acls", "block_public_policy",
                     "ignore_public_acls", "restrict_public_buckets"}
<1>1. Flags \subseteq DOMAIN b.v
  BY DEF Shaped
<1>2. \A f \in Flags : b.v[f] = "true" /\ "true" # Absent(f)
  BY DEF Complete, Absent
<1>3. \A f \in Flags : g.v[f] = "true"
  BY <1>1, <1>2, WhatIsThereStays
<1>4. QED
  BY <1>3 DEF Complete, LeftOf

\* A bucket is left with its name.
LEMMA BucketHasName ==
  ASSUME NEW p, NEW rs, NEW b, NEW g, b.type = "bucket",
         Shaped(b), UnknownIsAbsent(b), LeftOf(b, g, rs, p)
  PROVE  g.v.bucket = NameOf(b)
<1>1. "bucket" \in DOMAIN b.v /\ (b.v.bucket = "" <=> "bucket" \in b.unknown)
  BY DEF Shaped, UnknownIsAbsent
<1>2. CASE b.v.bucket # ""
  BY <1>1, <1>2 DEF LeftOf, NameOf
<1>3. CASE b.v.bucket = ""
  <2>1. Becomes(b, rs, p) = {NameOf(b)}
    BY DEF Becomes
  <2>2. QED
    BY <1>1, <1>3, <2>1 DEF LeftOf
<1>4. QED
  BY <1>2, <1>3

\* A bucket is protected by the block whose bucket it exactly is, or by one of
\* its name; where the policy found neither, it went by a mention.
LEMMA BucketIsSafe ==
  ASSUME NEW p \in Plans, NEW done \in Outcomes(p), Evaluate(p) = {}, NEW i \in DOMAIN Listed(p),
         Listed(p)[i].type = "bucket", ~RestsOnMention(Listed(p)[i], Listed(p), p)
  PROVE  SafeIn(done[i], done)
<1> DEFINE rs == Listed(p)
           R == Resources(p)
           r == rs[i]
<1>1. /\ BucketViolates(i, R) => Violates(i, R, p)
      /\ Shaped(r) /\ UnknownIsAbsent(r) /\ LeftOf(r, done[i], rs, p) /\ done[i].type = "bucket"
  BY OneResource DEF LeftOf, Violates
<1>2. ~BucketViolates(i, R) /\ R[i] = r /\ DOMAIN R = DOMAIN rs
  BY <1>1, OneResource, PlanIsRead
<1>3. done[i].v.bucket = NameOf(r)
  BY <1>1, BucketHasName
<1>4. ASSUME NEW j \in DOMAIN rs, rs[j].type = "public_access_block", Complete(rs[j]),
             done[j].v.bucket = NameOf(r)
      PROVE  SafeIn(done[i], done)
  <2>1. /\ Shaped(rs[j]) /\ UnknownIsAbsent(rs[j]) /\ LeftOf(rs[j], done[j], rs, p) /\ j \in DOMAIN done
    BY OneResource
  <2>2. done[j].type = "public_access_block" /\ Complete(done[j])
    BY <1>4, <2>1, CompleteStays
  <2>3. done[j] \in ToSet(done)
    BY <2>1 DEF ToSet
  <2>4. QED
    BY <1>1, <1>3, <1>4, <2>2, <2>3 DEF SafeIn
<1>5. ASSUME NEW j \in DOMAIN rs, rs[j].type = "public_access_block", Complete(rs[j]),
             rs[j].v.bucket # ""
      PROVE  done[j].v.bucket = rs[j].v.bucket
  <2>1. Shaped(rs[j]) /\ UnknownIsAbsent(rs[j]) /\ LeftOf(rs[j], done[j], rs, p)
    BY OneResource
  <2>2. "bucket" \in DOMAIN rs[j].v /\ "bucket" \notin rs[j].unknown
    BY <1>5, <2>1 DEF Shaped, UnknownIsAbsent
  <2>3. QED
    BY <2>1, <2>2 DEF LeftOf
<1>6. ASSUME NEW j \in DOMAIN rs, rs[j].type = "public_access_block", Complete(rs[j]),
             rs[j].v.bucket = r.v.bucket, r.v.bucket # ""
      PROVE  SafeIn(done[i], done)
  <2>1. done[j].v.bucket = NameOf(r)
    BY <1>5, <1>6 DEF NameOf
  <2>2. QED
    BY <1>4, <1>6, <2>1
<1>7. ASSUME NEW j \in DOMAIN rs, rs[j].type = "public_access_block", Complete(rs[j]),
             rs[j].exact, Refers(rs[j], r), r.key = ""
      PROVE  SafeIn(done[i], done)
  <2>1. WellFormed(p) /\ r.type = "bucket"
    BY PlansAssumption
  <2>2. CASE rs[j].v.bucket # ""
    <3>1. r.v.bucket = rs[j].v.bucket
      BY <1>7, <2>1, <2>2 DEF WellFormed
    <3>2. QED
      BY <1>6, <1>7, <2>2, <3>1
  <2>3. CASE rs[j].v.bucket = ""
    <3>1. "bucket" \in rs[j].unknown /\ LeftOf(rs[j], done[j], rs, p)
      BY <1>7, <2>3, OneResource DEF UnknownIsAbsent
    <3> DEFINE meant == {b \in Buckets(rs) : rs[j].exact /\ Refers(rs[j], b)}
    <3>2. meant = {r}
      <4>1. r \in meant
        BY <1>7, <2>1 DEF Buckets, ToSet
      <4>2. ASSUME NEW k \in DOMAIN rs, rs[k] \in meant PROVE rs[k] = r
        <5>1. rs[k].type = "bucket" /\ rs[k].path = r.path /\ rs[k].name = r.name
          BY <1>7, <4>2 DEF Buckets, Refers
        <5>2. QED
          BY <1>7, <2>1, <5>1 DEF WellFormed
      <4>3. \A b \in meant : \E k \in DOMAIN rs : b = rs[k]
        BY DEF Buckets, ToSet
      <4>4. QED
        BY <4>1, <4>2, <4>3
    <3>3. Becomes(rs[j], rs, p) = {NameOf(r)}
      BY <1>7, <3>2 DEF Becomes
    <3>4. done[j].v.bucket = NameOf(r)
      BY <3>1, <3>3 DEF LeftOf
    <3>5. QED
      BY <1>4, <1>7, <3>4
  <2>4. QED
    BY <2>2, <2>3
<1>8. CASE ProtectedByReference(r, R)
  <2>1. PICK j \in DOMAIN rs :
          /\ rs[j].type = "public_access_block" /\ Complete(rs[j])
          /\ rs[j].key = "" /\ rs[j].refersTo # ""
          /\ Address(r) = <<rs[j].path, "bucket", rs[j].refersTo, "">>
    <3>1. PICK j \in DOMAIN R :
            /\ R[j].type = "public_access_block" /\ Complete(R[j])
            /\ R[j].key = "" /\ R[j].refersTo # ""
            /\ Address(r) = <<R[j].path, "bucket", R[j].refersTo, "">>
      BY <1>8 DEF ProtectedByReference, ToSet
    <3>2. j \in DOMAIN rs /\ R[j] = rs[j]
      BY PlanIsRead
    <3>3. QED
      BY <3>1, <3>2
  <2>2. r.key = "" /\ Refers(rs[j], r)
    BY <2>1 DEF Address, Refers
  <2> DEFINE blocks == {b \in ToSet(rs) : b.type = "public_access_block" /\ Complete(b)}
  <2>3. rs[j] \in blocks
    BY <2>1 DEF ToSet
  <2>4. PICK b \in blocks : (b.exact /\ Refers(b, r)) \/ b.v.bucket \in {r.v.bucket} \ {""}
    <3>1. \E b \in blocks : ~(~(b.exact /\ Refers(b, r)) /\ b.v.bucket \notin {r.v.bucket} \ {""})
      BY <1>1, <2>2, <2>3 DEF RestsOnMention
    <3>2. QED
      BY <3>1
  <2>5. PICK k \in DOMAIN rs : rs[k] = b
    BY DEF ToSet
  <2>6. rs[k].type = "public_access_block" /\ Complete(rs[k])
    BY <2>5
  <2>7. QED
    BY <1>6, <1>7, <2>2, <2>4, <2>5, <2>6
<1>9. CASE OwnsName(i, R) /\ ProtectedByName(r.v.bucket, R)
  <2>1. r.v.bucket # ""
    BY <1>2, <1>9 DEF OwnsName
  <2>2. PICK j \in DOMAIN rs :
          rs[j].type = "public_access_block" /\ rs[j].v.bucket = r.v.bucket /\ Complete(rs[j])
    BY <1>2, <1>9, PlanIsRead DEF ProtectedByName, IsLast
  <2>3. QED
    BY <1>6, <2>1, <2>2
<1>10. QED
  BY <1>2, <1>8, <1>9 DEF BucketViolates

\* A plan without violations leaves nothing but safe resources and those whose
\* verdict rests on a mention.
LEMMA OutcomeIsSafe ==
  ASSUME NEW p \in Plans, NEW done \in Outcomes(p), Evaluate(p) = {}
  PROVE  /\ BoundToAccount(p)
         /\ \A i \in DOMAIN done :
               SafeIn(done[i], done) \/ RestsOnMention(Listed(p)[i], Listed(p), p)
<1>1. AccountViolations(p) = {}
  BY DEF Evaluate
<1>2. "aws" \in DOMAIN p.providers
  BY <1>1 DEF AccountViolations
<1>3. \A n \in DOMAIN p.providers \cap AWSProviders : p.providers[n] = <<Expected>>
  <2> SUFFICES ASSUME NEW n \in DOMAIN p.providers \cap AWSProviders, p.providers[n] # <<Expected>>
               PROVE  FALSE
    OBVIOUS
  <2>1. <<<<>>, "provider", n, "">> \in AccountViolations(p)
    BY <1>2 DEF AccountViolations
  <2>2. QED
    BY <1>1, <2>1
<1>4. ASSUME NEW i \in DOMAIN Listed(p), ~RestsOnMention(Listed(p)[i], Listed(p), p)
      PROVE  SafeIn(done[i], done)
  <2>1. done[i].type = Listed(p)[i].type
    BY OneResource DEF LeftOf
  <2>2. CASE Listed(p)[i].type \in {"db_instance", "lb", "ecs_service", "ingress_rule", "bucket",
                                    "task_definition", "distribution"}
    BY <1>4, <2>2, PlainIsSafe, ProvenIsSafe, BucketIsSafe
  <2>3. CASE Listed(p)[i].type \notin {"db_instance", "lb", "ecs_service", "ingress_rule", "bucket",
                                       "task_definition", "distribution"}
    BY <2>1, <2>3 DEF SafeIn
  <2>4. QED
    BY <2>2, <2>3
<1>5. DOMAIN done = DOMAIN Listed(p)
  BY OutcomeIsLeft
<1>6. QED
  BY <1>2, <1>3, <1>4, <1>5 DEF BoundToAccount

\* Nothing is applied but the plan that was reviewed, and it passed if and only
\* if it had no violation.
PolicyInv ==
  /\ plan \in Plans
  /\ stage \in {"passed", "applied"} => Evaluate(plan) = {}
  /\ stage = "rejected" => Evaluate(plan) # {}
  /\ stage = "applied" => final \in Outcomes(plan)

LEMMA PolicyStep == PolicyInv /\ [PolicyNext]_policyVars => PolicyInv'
<1> SUFFICES ASSUME PolicyInv, [PolicyNext]_policyVars PROVE PolicyInv'
  OBVIOUS
<1>1. CASE UNCHANGED policyVars
  BY <1>1 DEF policyVars, PolicyInv
<1>2. CASE Review
  BY <1>2 DEF Review, PolicyInv
<1>3. CASE Apply
  BY <1>3 DEF Apply, PolicyInv
<1>4. QED
  BY <1>1, <1>2, <1>3 DEF PolicyNext

\* A plan that the policy passed leaves a safe cell, but for the resources whose
\* verdict rests on a mere mention of the image, of a bucket, or of an ACL.
THEOREM PassedPlansAreSafe == PolicySpec => []PassedPlanIsSafe
<1>1. PolicyInit => PolicyInv
  BY DEF PolicyInit, PolicyInv
<1>2. PolicyInv => PassedPlanIsSafe
  BY OutcomeIsSafe DEF PolicyInv, PassedPlanIsSafe
<1>3. QED
  BY <1>1, <1>2, PolicyStep, PTL DEF PolicySpec

-----------------------------------------------------------------------------
\* The verdict is a matter of what a plan lists.

\* The other ways to write a plan.
Rewritten(p) == {Backwards(p), [p EXCEPT !.planned = <<>>]}

\* They list the same resources.
LEMMA RewrittenListsTheSame ==
  ASSUME NEW p \in Plans, NEW q \in Rewritten(p)
  PROVE  /\ PlanShaped(q) /\ ToSet(Listed(q)) = ToSet(Listed(p))
         /\ q.providers = p.providers /\ q.image = p.image /\ q.calls = p.calls
         /\ ToSet(q.changes) = ToSet(p.changes)
<1>p. /\ PlanShaped(p)
      /\ Flatten(p) # <<>> => ToSet(Flatten(p)) = {c \in ToSet(p.changes) : ~c.deleted}
  <2>1. PlanShaped(p) /\ (Flatten(p) # <<>> => ToSet(Flatten(p)) = ToSet(ChangedResources(p.changes)))
    BY PlansAssumption DEF WellFormed
  <2>2. QED
    BY <2>1, ChangedIs DEF PlanShaped
<1>l. ToSet(Listed(p)) = {c \in ToSet(p.changes) : ~c.deleted}
  BY <1>p, ListedIs
<1>1. CASE q = Backwards(p)
  <2>1. /\ PlanShaped(q)
        /\ q.providers = p.providers /\ q.image = p.image /\ q.calls = p.calls
        /\ ToSet(Flatten(q)) = ToSet(Flatten(p)) /\ ToSet(q.changes) = ToSet(p.changes)
    BY <1>1, <1>p, BackwardsIs
  <2>2. ToSet(Listed(q)) = ToSet(Listed(p))
    BY <1>p, <2>1, ListedIs
  <2>3. QED
    BY <2>1, <2>2
<1>2. CASE q = [p EXCEPT !.planned = <<>>]
  <2>1. /\ q.providers = p.providers /\ q.image = p.image /\ q.calls = p.calls
        /\ q.planned = <<>> /\ q.changes = p.changes
        /\ q = [f \in {"providers", "image", "calls", "planned", "changes"} |-> q[f]]
    BY <1>2, <1>p DEF PlanShaped
  <2>2. IsList(<<>>) /\ DOMAIN <<>> = {}
    BY DEF IsList
  <2>3. PlanShaped(q)
    BY <1>p, <2>1, <2>2 DEF PlanShaped, Modules
  <2>4. Flatten(q) = <<>>
    BY <2>1 DEF Flatten, FlattenSeq
  <2>5. ToSet(Listed(q)) = {c \in ToSet(q.changes) : ~c.deleted}
    BY <2>3, <2>4, ListedIs
  <2>6. QED
    BY <1>l, <2>1, <2>3, <2>5
<1>3. QED
  BY <1>1, <1>2 DEF Rewritten

\* Of the resources of a name one is the last.
LEMMA LastExists ==
  ASSUME NEW rs, IsList(rs), NEW type, NEW name,
         \E r \in ToSet(rs) : r.type = type /\ r.v.bucket = name
  PROVE  \E k \in DOMAIN rs : IsLast(k, type, name, rs)
<1> DEFINE S == {k \in DOMAIN rs : rs[k].type = type /\ rs[k].v.bucket = name}
<1>1. DOMAIN rs = 1..Len(rs) /\ Len(rs) \in Nat
  BY ListIsSeq DEF IsList
<1>2. S # {} /\ S \in SUBSET (1..Len(rs))
  BY <1>1 DEF ToSet
<1>3. PICK k \in S : \A m \in S : m <= k
  <2> HIDE DEF S
  <2>1. QED
    BY <1>1, <1>2, Greatest
<1>4. ASSUME NEW j \in DOMAIN rs, j > k, rs[j].type = type, rs[j].v.bucket = name PROVE FALSE
  <2>1. j \in S
    BY <1>4
  <2>2. j <= k /\ j \in Nat /\ k \in Nat
    BY <1>1, <1>2, <1>3, <2>1
  <2>3. QED
    BY <1>4, <2>2
<1>5. QED
  BY <1>3, <1>4 DEF IsLast

\* A bucket that passes in one order passes in the other, if all blocks do and
\* no other bucket has its name.
LEMMA BucketOfTheSet ==
  ASSUME NEW rs, NEW qs, IsList(rs), IsList(qs), ToSet(rs) = ToSet(qs), NamesDiffer(rs),
         \A b \in ToSet(rs) : b.type = "public_access_block" => Complete(b),
         NEW i \in DOMAIN rs, NEW j \in DOMAIN qs, rs[i] = qs[j], rs[i].type = "bucket",
         ~BucketViolates(i, rs)
  PROVE  ~BucketViolates(j, qs)
<1>1. CASE ProtectedByReference(rs[i], rs)
  BY <1>1 DEF ProtectedByReference, BucketViolates
<1>2. CASE OwnsName(i, rs) /\ ProtectedByName(rs[i].v.bucket, rs)
  <2> DEFINE name == qs[j].v.bucket
  <2>1. name # ""
    BY <1>2 DEF OwnsName
  <2>2. PICK k \in DOMAIN qs : IsLast(k, "bucket", name, qs)
    <3>1. qs[j] \in ToSet(qs)
      BY DEF ToSet
    <3>2. QED
      BY <3>1, LastExists
  <2>3. Address(qs[k]) = Address(qs[j])
    <3>1. qs[k] \in ToSet(rs)
      BY DEF ToSet
    <3>2. PICK l \in DOMAIN rs : rs[l] = qs[k]
      BY <3>1 DEF ToSet
    <3>3. QED
      BY <2>1, <2>2, <3>2 DEF NamesDiffer, IsLast
  <2>4. OwnsName(j, qs)
    BY <2>1, <2>2, <2>3 DEF OwnsName
  <2>5. PICK l \in DOMAIN rs : rs[l].type = "public_access_block" /\ rs[l].v.bucket = name
    BY <1>2 DEF ProtectedByName, IsLast
  <2>6. rs[l] \in ToSet(qs)
    BY DEF ToSet
  <2>7. PICK m \in DOMAIN qs : IsLast(m, "public_access_block", name, qs)
    BY <2>5, <2>6, LastExists
  <2>8. qs[m] \in ToSet(rs) /\ qs[m].type = "public_access_block"
    BY <2>7 DEF ToSet, IsLast
  <2>9. ProtectedByName(name, qs)
    BY <2>7, <2>8 DEF ProtectedByName
  <2>10. QED
    BY <2>4, <2>9 DEF BucketViolates
<1>3. QED
  BY <1>1, <1>2 DEF BucketViolates

\* Whether there is a violation is a matter of the set of resources.
LEMMA SetDecides ==
  ASSUME NEW p, NEW q, Images(p) = Images(q),
         NEW rs, NEW qs, IsList(rs), IsList(qs), ToSet(rs) = ToSet(qs), NamesDiffer(rs),
         ResourceViolations(rs, p) = {}
  PROVE  ResourceViolations(qs, q) = {}
<1>1. \A i \in DOMAIN rs : ~Violates(i, rs, p)
  BY DEF ResourceViolations
<1>2. \A b \in ToSet(rs) : b.type = "public_access_block" => Complete(b)
  <2> SUFFICES ASSUME NEW i \in DOMAIN rs, rs[i].type = "public_access_block" PROVE Complete(rs[i])
    BY DEF ToSet
  <2>1. QED
    BY <1>1 DEF Violates
<1>3. ASSUME NEW j \in DOMAIN qs PROVE ~Violates(j, qs, q)
  <2>1. qs[j] \in ToSet(rs)
    BY DEF ToSet
  <2>2. PICK i \in DOMAIN rs : rs[i] = qs[j]
    BY <2>1 DEF ToSet
  <2>3. CASE qs[j].type = "bucket"
    <3>1. ~BucketViolates(i, rs)
      BY <1>1, <2>2, <2>3 DEF Violates
    <3>2. ~BucketViolates(j, qs)
      BY <1>2, <2>2, <2>3, <3>1, BucketOfTheSet
    <3>3. QED
      BY <2>3, <3>2 DEF Violates
  <2>4. CASE qs[j].type # "bucket"
    <3>1. ~Violates(i, rs, p)
      BY <1>1
    <3>2. ImageProven(rs[i], p) <=> ImageProven(qs[j], q)
      BY <2>2 DEF ImageProven
    <3>3. QED
      BY <2>2, <2>4, <3>1, <3>2 DEF Violates
  <2>5. QED
    BY <2>3, <2>4
<1>4. QED
  BY <1>3 DEF ResourceViolations

\* A rewritten plan is judged as the plan is.
LEMMA RewrittenIsJudgedTheSame ==
  ASSUME NEW p \in Plans, NEW q \in Rewritten(p), NamesDiffer(Listed(p))
  PROVE  Evaluate(q) = {} <=> Evaluate(p) = {}
<1>1. /\ PlanShaped(q) /\ ToSet(Listed(q)) = ToSet(Listed(p))
      /\ q.providers = p.providers /\ q.image = p.image /\ q.calls = p.calls
      /\ ToSet(q.changes) = ToSet(p.changes)
  BY RewrittenListsTheSame
<1>2. /\ PlanShaped(p) /\ Resources(p) = Listed(p) /\ ToSet(Listed(p)) \subseteq ToSet(p.changes)
      /\ \A r \in ToSet(Listed(p)) : r = [f \in Fields |-> r[f]]
  BY PlanIsRead
<1>3. Resources(q) = Listed(q)
  BY <1>1, <1>2, ReadIsListed
<1>4. IsList(Listed(p)) /\ IsList(Listed(q))
  BY <1>1, <1>2, ListedIs
<1>5. NamesDiffer(Listed(q))
  <2>1. \A i \in DOMAIN Listed(q) : \E k \in DOMAIN Listed(p) : Listed(q)[i] = Listed(p)[k]
    BY <1>1 DEF ToSet
  <2>2. SUFFICES ASSUME NEW i \in DOMAIN Listed(q), NEW j \in DOMAIN Listed(q),
                        Listed(q)[i].type = "bucket", Listed(q)[j].type = "bucket",
                        Listed(q)[i].v.bucket # "", Listed(q)[i].v.bucket = Listed(q)[j].v.bucket
                 PROVE  Address(Listed(q)[i]) = Address(Listed(q)[j])
    BY DEF NamesDiffer
  <2>3. PICK k \in DOMAIN Listed(p), l \in DOMAIN Listed(p) :
          Listed(q)[i] = Listed(p)[k] /\ Listed(q)[j] = Listed(p)[l]
    BY <2>1
  <2>4. QED
    BY <2>2, <2>3 DEF NamesDiffer
<1>6. Images(p) = Images(q)
  BY <1>1 DEF Images, Modules
<1>7. AccountViolations(p) = AccountViolations(q)
  BY <1>1 DEF AccountViolations
<1>8. ResourceViolations(Listed(p), p) = {} => ResourceViolations(Listed(q), q) = {}
  BY <1>1, <1>4, <1>6, SetDecides
<1>9. ResourceViolations(Listed(q), q) = {} => ResourceViolations(Listed(p), p) = {}
  BY <1>1, <1>4, <1>5, <1>6, SetDecides
<1>10. QED
  BY <1>2, <1>3, <1>7, <1>8, <1>9 DEF Evaluate

\* The verdict is about the plan and not about how it is written.
THEOREM VerdictsAreStable == PolicySpec => []VerdictIsStable
<1>1. PolicyInit => PolicyInv
  BY DEF PolicyInit, PolicyInv
<1>2. PolicyInv => VerdictIsStable
  <2> SUFFICES ASSUME PolicyInv, stage \in {"passed", "rejected"}, NamesDiffer(Listed(plan)),
                      NEW p \in Rewritten(plan)
               PROVE  stage = "passed" <=> Evaluate(p) = {}
    BY DEF VerdictIsStable, Rewritten
  <2>1. stage = "passed" <=> Evaluate(plan) = {}
    BY DEF PolicyInv
  <2>2. QED
    BY <2>1, RewrittenIsJudgedTheSame DEF PolicyInv
<1>3. QED
  BY <1>1, <1>2, PolicyStep, PTL DEF PolicySpec

=============================================================================
