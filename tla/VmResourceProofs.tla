-------------------------- MODULE VmResourceProofs --------------------------
(***************************************************************************)
(* Proofs about VmResource, for all configurations, devices and events.    *)
(* TypeInv types the state; ProgressInv adds what the pipeline's order has *)
(* already reached, for StartsConfigured.  SyncInv strengthens both by what *)
(* each step of an apply has made true of the machine; from it follow      *)
(* OkMeansInSync and NeverInconsistent.  Where a theorem needs no late     *)
(* effect and no other writer, it assumes so.                              *)
(***************************************************************************)
EXTENDS VmResource, WellFoundedInduction, TLAPS

(* Boot orders: what Among computes, by induction on the order's length *)

\* A set of numbers that is not empty has a least one.
LEMMA Least ==
    ASSUME NEW T \in SUBSET Nat, T # {}
    PROVE  \E x \in T : \A y \in T : ~(y < x)
<1> DEFINE R == OpToRel(<, Nat)
<1>1. IsWellFoundedOn(R, Nat)
  BY NatLessThanWellFounded
<1>2. \A x, y \in Nat : <<y, x>> \in R <=> y < x
  BY DEF OpToRel
<1> HIDE DEF R
<1>3. \E x \in T : \A y \in T : ~(<<y, x>> \in R)
  BY <1>1, WFMin
<1> QED
  BY <1>2, <1>3

\* Induction up to n, as a statement about a set.
LEMMA UpTo ==
    ASSUME NEW n \in Nat, NEW S, 0 \in S, \A i \in 1..n : i - 1 \in S => i \in S
    PROVE  0..n \subseteq S
<1> DEFINE T == {i \in 0..n : i \notin S}
<1> SUFFICES ASSUME T # {} PROVE FALSE
  OBVIOUS
<1>1. PICK x \in T : \A y \in T : ~(y < x)
  <2>1. T \in SUBSET Nat
    OBVIOUS
  <2> HIDE DEF T
  <2> QED
    BY <2>1, Least
<1>2. x \in 1..n /\ x - 1 \in 0..n /\ x - 1 < x
  BY <1>1
<1> QED
  BY <1>1, <1>2

\* How Among goes on.
AmongStep(order, some, among, i) ==
    IF i = 0 THEN <<>>
    ELSE IF order[i] \in some THEN Append(among[i - 1], order[i])
    ELSE among[i - 1]

\* The recursion defines a function.
LEMMA AmongExists ==
    ASSUME NEW n \in Nat, NEW order, NEW some
    PROVE  \E f : f = [i \in 0..n |-> AmongStep(order, some, f, i)]
<1> DEFINE S == {m \in 0..n : \E f : f = [i \in 0..m |-> AmongStep(order, some, f, i)]}
<1>1. 0 \in S
  <2> DEFINE f == [i \in 0..0 |-> <<>>]
  <2>1. f = [i \in 0..0 |-> AmongStep(order, some, f, i)]
    BY DEF AmongStep
  <2> QED
    BY <2>1
<1>2. ASSUME NEW m \in 1..n, m - 1 \in S
      PROVE  m \in S
  <2>1. PICK f : f = [i \in 0..(m-1) |-> AmongStep(order, some, f, i)]
    BY <1>2
  <2> DEFINE g == [i \in 0..m |-> IF i = m THEN AmongStep(order, some, f, m) ELSE f[i]]
  <2>2. ASSUME NEW i \in 0..m
        PROVE  g[i] = AmongStep(order, some, g, i)
    <3>1. CASE i = 0
      BY <2>1, <3>1 DEF AmongStep
    <3>2. CASE i # 0
      <4>1. i - 1 \in 0..(m-1) /\ i - 1 # m /\ i - 1 \in 0..m
        BY <3>2
      <4>2. g[i - 1] = f[i - 1]
        BY <4>1
      <4>3. CASE i = m
        BY <4>2, <4>3, <3>2 DEF AmongStep
      <4>4. CASE i # m
        <5>1. i \in 0..(m-1) /\ g[i] = f[i]
          BY <4>4
        <5>2. f[i] = AmongStep(order, some, f, i)
          BY <2>1, <5>1
        <5> HIDE DEF g
        <5> QED
          BY <4>2, <5>1, <5>2, <3>2 DEF AmongStep
      <4> QED
        BY <4>3, <4>4
    <3> QED
      BY <3>1, <3>2
  <2>3. g = [i \in 0..m |-> AmongStep(order, some, g, i)]
    BY <2>2
  <2> HIDE DEF g
  <2> QED
    BY <2>3
<1> HIDE DEF S
<1>3. n \in S
  <2>1. 0..n \subseteq S
    BY <1>1, <1>2, UpTo
  <2> QED
    BY <2>1
<1> QED
  BY <1>3 DEF S

\* What Among computes.
LEMMA AmongDef ==
    ASSUME NEW order, Len(order) \in Nat, NEW some
    PROVE  \E f : /\ f = [i \in 0..Len(order) |-> AmongStep(order, some, f, i)]
                  /\ Among(order, some) = f[Len(order)]
<1> DEFINE among == CHOOSE f : f = [i \in 0..Len(order) |-> AmongStep(order, some, f, i)]
<1>1. among = [i \in 0..Len(order) |-> AmongStep(order, some, among, i)]
  BY AmongExists
<1>2. Among(order, some) = among[Len(order)]
  BY DEF Among, AmongStep
<1> QED
  BY <1>1, <1>2

\* Nothing is left without any entry to keep.
LEMMA AmongNothing ==
    ASSUME NEW order, Len(order) \in Nat
    PROVE  Among(order, {}) = <<>>
<1>1. PICK f : /\ f = [i \in 0..Len(order) |-> AmongStep(order, {}, f, i)]
               /\ Among(order, {}) = f[Len(order)]
  BY AmongDef
<1> DEFINE S == {i \in 0..Len(order) : f[i] = <<>>}
<1>2. 0 \in S
  BY <1>1 DEF AmongStep
<1>3. ASSUME NEW i \in 1..Len(order), i - 1 \in S
      PROVE  i \in S
  <2>1. f[i] = AmongStep(order, {}, f, i)
    BY <1>1
  <2> QED
    BY <1>3, <2>1 DEF AmongStep
<1> HIDE DEF S
<1>4. 0..Len(order) \subseteq S
  BY <1>2, <1>3, UpTo
<1> QED
  BY <1>1, <1>4 DEF S

\* The entries that are left are those in `some`, and in the order.
LEMMA AmongMembers ==
    ASSUME NEW P, NEW order \in Seq(P), NEW some
    PROVE  LET kept == Among(order, some)
           IN /\ kept \in Seq(P)
              /\ \A j \in DOMAIN kept : kept[j] \in some
              /\ \A k \in DOMAIN order :
                     order[k] \in some => \E j \in DOMAIN kept : kept[j] = order[k]
<1> DEFINE n == Len(order)
<1>0. n \in Nat /\ DOMAIN order = 1..n /\ \A i \in 1..n : order[i] \in P
  OBVIOUS
<1>1. PICK f : /\ f = [i \in 0..n |-> AmongStep(order, some, f, i)]
               /\ Among(order, some) = f[n]
  BY <1>0, AmongDef
<1> DEFINE Good(i) == /\ f[i] \in Seq(P)
                      /\ \A j \in DOMAIN f[i] : f[i][j] \in some
                      /\ \A k \in 1..i :
                             order[k] \in some => \E j \in DOMAIN f[i] : f[i][j] = order[k]
           S == {i \in 0..n : Good(i)}
<1>2. 0 \in S
  <2>1. f[0] = <<>>
    BY <1>1 DEF AmongStep
  <2>2. f[0] \in Seq(P) /\ DOMAIN f[0] = {} /\ 1..0 = {} /\ 0 \in 0..n
    BY <1>0, <2>1
  <2>3. Good(0)
    BY <2>2
  <2> HIDE DEF Good
  <2> QED
    BY <2>2, <2>3
<1>3. ASSUME NEW i \in 1..n, i - 1 \in S
      PROVE  i \in S
  <2>1. f[i] = AmongStep(order, some, f, i)
    BY <1>1
  <2>2. Good(i - 1)
    BY <1>3
  <2>3. CASE order[i] \in some
    <3>1. f[i] = Append(f[i - 1], order[i])
      BY <2>1, <2>3 DEF AmongStep
    <3> DEFINE m == Len(f[i - 1])
    <3>2. /\ m \in Nat /\ DOMAIN f[i - 1] = 1..m
          /\ f[i] \in Seq(P) /\ DOMAIN f[i] = 1..(m + 1)
          /\ \A j \in 1..m : f[i][j] = f[i - 1][j]
          /\ f[i][m + 1] = order[i]
      BY <1>0, <2>2, <3>1
    <3> HIDE DEF m
    <3>3. ASSUME NEW j \in 1..(m + 1)
          PROVE  f[i][j] \in some
      <4>1. CASE j \in 1..m
        BY <2>2, <3>2, <4>1
      <4>2. CASE j = m + 1
        BY <2>3, <3>2, <4>2
      <4> QED
        BY <3>2, <4>1, <4>2
    <3>4. ASSUME NEW k \in 1..i, order[k] \in some
          PROVE  \E j \in 1..(m + 1) : f[i][j] = order[k]
      <4>1. CASE k = i
        BY <3>2, <4>1
      <4>2. CASE k # i
        <5>1. k \in 1..(i - 1)
          BY <4>2
        <5>2. PICK j \in 1..m : f[i - 1][j] = order[k]
          BY <2>2, <3>2, <3>4, <5>1
        <5>3. f[i][j] = order[k] /\ j \in 1..(m + 1)
          BY <3>2, <5>2
        <5> QED
          BY <5>3
      <4> QED
        BY <4>1, <4>2
    <3> QED
      BY <3>2, <3>3, <3>4
  <2>4. CASE order[i] \notin some
    <3>1. f[i] = f[i - 1]
      BY <2>1, <2>4 DEF AmongStep
    <3> QED
      BY <2>2, <2>4, <3>1
  <2> QED
    BY <2>3, <2>4
<1> HIDE DEF S
<1>4. 0..n \subseteq S
  BY <1>0, <1>2, <1>3, UpTo
<1>5. Good(n)
  BY <1>0, <1>4 DEF S
<1> QED
  BY <1>0, <1>1, <1>5

\* What is left depends on which of the order's own entries are in the set.
LEMMA AmongSame ==
    ASSUME NEW P, NEW order \in Seq(P), NEW some, NEW other,
           \A k \in DOMAIN order : order[k] \in some <=> order[k] \in other
    PROVE  Among(order, some) = Among(order, other)
<1> DEFINE n == Len(order)
<1>0. n \in Nat /\ DOMAIN order = 1..n
  OBVIOUS
<1>1. PICK f : /\ f = [i \in 0..n |-> AmongStep(order, some, f, i)]
               /\ Among(order, some) = f[n]
  BY <1>0, AmongDef
<1>2. PICK g : /\ g = [i \in 0..n |-> AmongStep(order, other, g, i)]
               /\ Among(order, other) = g[n]
  BY <1>0, AmongDef
<1> DEFINE S == {i \in 0..n : f[i] = g[i]}
<1>3. 0 \in S
  BY <1>1, <1>2 DEF AmongStep
<1>4. ASSUME NEW i \in 1..n, i - 1 \in S
      PROVE  i \in S
  <2>1. f[i] = AmongStep(order, some, f, i) /\ g[i] = AmongStep(order, other, g, i)
    BY <1>1, <1>2
  <2>2. order[i] \in some <=> order[i] \in other
    BY <1>0
  <2>3. f[i - 1] = g[i - 1]
    BY <1>4
  <2> QED
    BY <2>1, <2>2, <2>3 DEF AmongStep
<1> HIDE DEF S
<1>5. 0..n \subseteq S
  BY <1>0, <1>3, <1>4, UpTo
<1> QED
  BY <1>0, <1>1, <1>2, <1>5 DEF S

\* To keep what was kept changes nothing.
LEMMA KeptAgain ==
    ASSUME NEW P, NEW order \in Seq(P), NEW boot
    PROVE  Kept(order, Kept(order, boot)) = Kept(order, boot)
<1> DEFINE some == {boot[i] : i \in DOMAIN boot}
           kept == Among(order, some)
           other == {kept[i] : i \in DOMAIN kept}
<1>1. /\ \A j \in DOMAIN kept : kept[j] \in some
      /\ \A k \in DOMAIN order :
             order[k] \in some => \E j \in DOMAIN kept : kept[j] = order[k]
  <2> HIDE DEF some
  <2> QED
    BY AmongMembers
<1>2. \A k \in DOMAIN order : order[k] \in other <=> order[k] \in some
  <2> HIDE DEF some, kept
  <2> QED
    BY <1>1
<1>3. Among(order, other) = Among(order, some)
  <2> HIDE DEF some, other
  <2> QED
    BY <1>2, AmongSame
<1> QED
  BY <1>3 DEF Kept, Entries

\* One more entry is left if it is in `some`.
LEMMA AmongAppend ==
    ASSUME NEW P, NEW order \in Seq(P), NEW p \in P, NEW some
    PROVE  Among(Append(order, p), some) =
               IF p \in some THEN Append(Among(order, some), p) ELSE Among(order, some)
<1> DEFINE n == Len(order)
           more == Append(order, p)
<1>0. /\ n \in Nat /\ Len(more) = n + 1 /\ more[n + 1] = p
      /\ \A i \in 1..n : more[i] = order[i]
  OBVIOUS
<1> HIDE DEF more
<1>1. PICK f : /\ f = [i \in 0..n |-> AmongStep(order, some, f, i)]
               /\ Among(order, some) = f[n]
  BY <1>0, AmongDef
<1>2. PICK g : /\ g = [i \in 0..(n + 1) |-> AmongStep(more, some, g, i)]
               /\ Among(more, some) = g[n + 1]
  BY <1>0, AmongDef
<1> DEFINE S == {i \in 0..n : f[i] = g[i]}
<1>3. 0 \in S
  BY <1>0, <1>1, <1>2 DEF AmongStep
<1>4. ASSUME NEW i \in 1..n, i - 1 \in S
      PROVE  i \in S
  <2>0. i \in 0..n /\ i \in 0..(n + 1)
    BY <1>0
  <2>1. f[i] = AmongStep(order, some, f, i) /\ g[i] = AmongStep(more, some, g, i)
    <3> HIDE DEF S, n
    <3> QED
      BY <1>1, <1>2, <2>0
  <2>2. more[i] = order[i] /\ f[i - 1] = g[i - 1]
    BY <1>0, <1>4
  <2> QED
    BY <2>1, <2>2 DEF AmongStep
<1> HIDE DEF S
<1>5. 0..n \subseteq S
  BY <1>0, <1>3, <1>4, UpTo
<1>6. g[n] = f[n]
  BY <1>0, <1>5 DEF S
<1>7. g[n + 1] = AmongStep(more, some, g, n + 1) /\ n + 1 # 0 /\ n + 1 - 1 = n
  BY <1>0, <1>2
<1>8. Among(more, some) = IF p \in some THEN Append(f[n], p) ELSE f[n]
  <2> HIDE DEF n
  <2> QED
    BY <1>0, <1>2, <1>6, <1>7 DEF AmongStep
<1> QED
  BY <1>1, <1>8 DEF more

\* To take some of what was taken is to take what is in both sets.
LEMMA AmongAmong ==
    ASSUME NEW P, NEW order \in Seq(P), NEW some, NEW other
    PROVE  Among(Among(order, some), other) = Among(order, some \cap other)
<1> DEFINE n == Len(order)
<1>0. n \in Nat /\ \A i \in 1..n : order[i] \in P
  OBVIOUS
<1>1. PICK f : /\ f = [i \in 0..n |-> AmongStep(order, some, f, i)]
               /\ Among(order, some) = f[n]
  BY <1>0, AmongDef
<1>2. PICK g : /\ g = [i \in 0..n |-> AmongStep(order, some \cap other, g, i)]
               /\ Among(order, some \cap other) = g[n]
  BY <1>0, AmongDef
<1> DEFINE S == {i \in 0..n : f[i] \in Seq(P) /\ Among(f[i], other) = g[i]}
<1>3. 0 \in S
  <2>1. f[0] = <<>> /\ g[0] = <<>>
    BY <1>0, <1>1, <1>2 DEF AmongStep
  <2>2. Among(<<>>, other) = <<>>
    <3>1. Len(<<>>) = 0
      OBVIOUS
    <3>2. PICK h : /\ h = [i \in 0..0 |-> AmongStep(<<>>, other, h, i)]
                   /\ Among(<<>>, other) = h[0]
      BY <3>1, AmongDef
    <3> QED
      BY <3>2 DEF AmongStep
  <2>3. <<>> \in Seq(P) /\ 0 \in 0..n
    BY <1>0
  <2>4. f[0] \in Seq(P) /\ Among(f[0], other) = g[0]
    BY <2>1, <2>2, <2>3
  <2> QED
    BY <2>3, <2>4
<1>4. ASSUME NEW i \in 1..n, i - 1 \in S
      PROVE  i \in S
  <2>0. i \in 0..n /\ i # 0
    BY <1>0
  <2>1. f[i] = AmongStep(order, some, f, i) /\ g[i] = AmongStep(order, some \cap other, g, i)
    <3> HIDE DEF S, n
    <3> QED
      BY <1>1, <1>2, <2>0
  <2>2. f[i - 1] \in Seq(P) /\ Among(f[i - 1], other) = g[i - 1] /\ order[i] \in P
    BY <1>0, <1>4
  <2>3. CASE order[i] \in some
    <3>1. f[i] = Append(f[i - 1], order[i])
      BY <2>1, <2>3 DEF AmongStep
    <3>2. f[i] \in Seq(P)
      BY <2>2, <3>1
    <3>3. Among(f[i], other) = IF order[i] \in other THEN Append(g[i - 1], order[i]) ELSE g[i - 1]
      <4> DEFINE before == f[i - 1]
                 p == order[i]
      <4>1. before \in Seq(P) /\ p \in P
        BY <2>2
      <4> HIDE DEF before, p
      <4>2. Among(Append(before, p), other) =
                IF p \in other THEN Append(Among(before, other), p) ELSE Among(before, other)
        BY <4>1, AmongAppend
      <4> QED
        BY <2>2, <3>1, <4>2 DEF before, p
    <3>4. g[i] = IF order[i] \in other THEN Append(g[i - 1], order[i]) ELSE g[i - 1]
      BY <2>0, <2>1, <2>3 DEF AmongStep
    <3> QED
      BY <2>0, <3>2, <3>3, <3>4
  <2>4. CASE order[i] \notin some
    <3>1. f[i] = f[i - 1] /\ g[i] = g[i - 1]
      BY <2>0, <2>1, <2>4 DEF AmongStep
    <3> QED
      BY <2>0, <2>2, <3>1
  <2> QED
    BY <2>3, <2>4
<1> HIDE DEF S
<1>5. 0..n \subseteq S
  BY <1>0, <1>3, <1>4, UpTo
<1>6. Among(f[n], other) = g[n]
  BY <1>0, <1>5 DEF S
<1> QED
  BY <1>1, <1>2, <1>6

\* All is left if all of the order's entries are in the set.
LEMMA AmongAll ==
    ASSUME NEW P, NEW order \in Seq(P), NEW some, \A i \in DOMAIN order : order[i] \in some
    PROVE  Among(order, some) = order
<1> DEFINE n == Len(order)
<1>0. n \in Nat /\ DOMAIN order = 1..n /\ \A i \in 1..n : order[i] \in P
  OBVIOUS
<1>1. PICK f : /\ f = [i \in 0..n |-> AmongStep(order, some, f, i)]
               /\ Among(order, some) = f[n]
  BY <1>0, AmongDef
<1> DEFINE Upto(i) == f[i] \in Seq(P) /\ Len(f[i]) = i /\ \A k \in 1..i : f[i][k] = order[k]
           S == {i \in 0..n : Upto(i)}
<1>2. 0 \in S
  <2>1. f[0] = <<>> /\ 0 \in 0..n
    BY <1>0, <1>1 DEF AmongStep
  <2>2. Upto(0)
    BY <2>1
  <2> QED
    BY <2>1, <2>2
<1>3. ASSUME NEW i \in 1..n, i - 1 \in S
      PROVE  i \in S
  <2>1. Upto(i - 1) /\ i \in 0..n
    BY <1>0, <1>3
  <2>2. f[i] = Append(f[i - 1], order[i]) /\ order[i] \in P
    <3>1. f[i] = AmongStep(order, some, f, i)
      BY <1>0, <1>1, <2>1
    <3>2. order[i] \in some /\ order[i] \in P /\ i # 0
      BY <1>0
    <3> QED
      BY <3>1, <3>2 DEF AmongStep
  <2>3. /\ f[i] \in Seq(P) /\ Len(f[i]) = i
        /\ f[i][i] = order[i] /\ \A k \in 1..(i - 1) : f[i][k] = f[i - 1][k]
    BY <2>1, <2>2
  <2>4. ASSUME NEW k \in 1..i
        PROVE  f[i][k] = order[k]
    <3>1. k = i \/ k \in 1..(i - 1)
      OBVIOUS
    <3> QED
      BY <2>1, <2>3, <3>1
  <2> QED
    BY <2>1, <2>3, <2>4
<1> HIDE DEF S
<1>4. 0..n \subseteq S
  BY <1>0, <1>2, <1>3, UpTo
<1>5. Upto(n)
  BY <1>0, <1>4 DEF S
<1> QED
  BY <1>0, <1>1, <1>5

LEMMA OrdersTyped ==
    ASSUME NEW order \in Seq(Places)
    PROVE  /\ \A p : Without(order, p) \in Seq(Places)
           /\ \A boot : Kept(order, boot) \in Seq(Places)
  BY AmongMembers DEF Without, Kept

\* A boot order that is not managed is read as empty.
LEMMA KeptNothing ==
    ASSUME NEW P, NEW order \in Seq(P)
    PROVE  Kept(order, <<>>) = <<>>
<1>1. {<<>>[i] : i \in DOMAIN <<>>} = {}
  OBVIOUS
<1>2. Len(order) \in Nat
  OBVIOUS
<1> QED
  BY <1>1, <1>2, AmongNothing DEF Kept, Entries

-----------------------------------------------------------------------------
(* Types *)

CallType(c) ==
    /\ c.do \in {"new", "remove", "attach", "detach", "boot", "set", "power", "get"}
    /\ c.do \in {"new", "set"} => c.with \in [Settings -> Values]
    /\ c.do \in {"attach", "detach"} => c.at \in Places
    /\ c.do = "attach" => c.with \in Media
    /\ c.do = "boot" => c.with \in Seq(Places)
    /\ c.do = "power" => c.with \in Powers

TypeInv == TypeOK /\ (late # NoCall => CallType(late))

LEMMA ConfigType ==
    ASSUME TypeOK, cfg # NoConfig
    PROVE  /\ cfg.at \in Devices
           /\ cfg.boot \in Seq(Places)
           /\ cfg.settings \in [Settings -> Values]
           /\ cfg.desired \in Powers \cup {"unmanaged"}
<1>1. WellFormed(cfg)
  BY ConfigsAssumption DEF TypeOK
<1>2. cfg.boot \in Seq(Places)
  <2> DEFINE S == {p \in Places : cfg.at[p] # Empty}
  <2>1. cfg.boot \in Seq(S) /\ S \subseteq Places
    BY <1>1 DEF WellFormed
  <2> HIDE DEF S
  <2> QED
    BY <2>1
<1> QED
  BY <1>1, <1>2 DEF WellFormed

LEMMA CallsTyped ==
    ASSUME TypeOK
    PROVE  /\ cfg # NoConfig => CallType(New(cfg))
           /\ CallType(Remove) /\ CallType(GetVM)
           /\ cfg # NoConfig => CallType(SetBootOrder(cfg.boot))
           /\ cfg # NoConfig => CallType(SetVM(Changed, cfg.settings))
           /\ cfg # NoConfig => CallType(FinalCall)
           /\ \A c \in todo : CallType(c)
<1>1. cfg # NoConfig => CallType(New(cfg))
  BY ConfigType DEF CallType, New
<1>2. CallType(Remove) /\ CallType(GetVM)
  BY DEF CallType, Remove, GetVM
<1>3. cfg # NoConfig => CallType(SetBootOrder(cfg.boot))
  BY ConfigType DEF CallType, SetBootOrder
<1>4. cfg # NoConfig => CallType(SetVM(Changed, cfg.settings))
  BY ConfigType DEF CallType, SetVM
<1>5. cfg # NoConfig => CallType(FinalCall)
  BY ConfigType DEF CallType, FinalCall, StateChanged, SetVMState, GetVM
<1>6. \A c \in todo : CallType(c)
  BY DEF TypeOK, CallType, DeviceCalls
<1> QED
  BY <1>1, <1>2, <1>3, <1>4, <1>5, <1>6

LEMMA PartsTyped ==
    ASSUME NEW c, CallType(c), NEW d \in Parts(c)
    PROVE  CallType(d)
<1>1. CASE d = c
  BY <1>1
<1>2. CASE c.do \in {"new", "set"} /\ \E some : d = [do |-> c.do, at |-> some, with |-> c.with]
  BY <1>2 DEF CallType
<1>3. CASE d = SetVMState("Off")
  BY <1>3 DEF CallType, SetVMState, Powers
<1>4. CASE c.do = "attach" /\ c.at \in Nics /\ d = Attach(c.at, Untagged[c.with])
  BY <1>4, PlacesAssumption DEF CallType, Attach
<1> QED
  BY <1>1, <1>2, <1>3, <1>4 DEF Parts

\* What the host does keeps the machine one of its type.
LEMMA HappensType ==
    ASSUME TypeOK, NEW c, CallType(c), Happens(c)
    PROVE  /\ vm' # NoVm => vm' \in Machines
           /\ c.do # "remove" => vm' \in Machines
           /\ twin' \in BOOLEAN
<1>0. Accepts(c) /\ twin' \in BOOLEAN
  BY DEF Happens, TypeOK
<1>1. CASE c.do = "new"
  <2>1. CASE vm = NoVm
    <3>1. vm' = Created(c.at, c.with)
      BY <1>0, <1>1, <2>1 DEF Happens
    <3>2. vm'.settings \in [Settings -> Values]
      BY <1>1, <3>1, PlacesAssumption DEF Created, CallType
    <3> QED
      BY <3>1, <3>2, <1>0, <1>1 DEF Created, Machines, Powers, Devices
  <2>2. CASE vm # NoVm
    BY <1>0, <1>1, <2>2 DEF Happens, TypeOK
  <2> QED
    BY <2>1, <2>2
<1>2. CASE c.do = "remove"
  BY <1>0, <1>2 DEF Happens
<1>3. CASE c.do \notin {"new", "remove"}
  <2>0. vm # NoVm /\ vm \in Machines
    BY <1>0, <1>3 DEF Accepts, TypeOK
  <2>1. CASE c.do = "attach"
    <3>1. vm' = Attached(vm, c.at, c.with)
      BY <1>0, <2>1 DEF Happens
    <3>2. c.at \in Places /\ c.with \in Media
      BY <2>1 DEF CallType
    <3>3. c.at \in Drives => vm.at[c.at] = Empty
      BY <1>0, <2>1 DEF Accepts
    <3>4. vm'.twice \subseteq Nics
      BY <2>0, <3>1, <3>2, <3>3 DEF Attached, Machines, Places
    <3>5. vm'.at \in Devices
      BY <2>0, <3>1, <3>2 DEF Attached, Machines, Devices
    <3>6. vm'.boot \in Seq(Places)
      BY <2>0, <3>1, <3>2 DEF Attached, Machines
    <3> QED
      BY <1>0, <2>0, <3>1, <3>4, <3>5, <3>6 DEF Attached, Machines
  <2>2. CASE c.do = "detach"
    <3>1. vm' = Detached(vm, c.at)
      BY <1>0, <2>2 DEF Happens
    <3>2. vm'.at \in Devices
      BY <2>0, <3>1 DEF Detached, Machines, Devices
    <3>3. vm'.boot \in Seq(Places)
      BY <2>0, <3>1, OrdersTyped DEF Detached, Machines
    <3> QED
      BY <1>0, <2>0, <3>1, <3>2, <3>3 DEF Detached, Machines
  <2>3. CASE c.do = "boot"
    <3>1. vm' = Booting(vm, c.with) /\ c.with \in Seq(Places)
      BY <1>0, <2>3 DEF Happens, CallType
    <3> QED
      BY <1>0, <2>0, <3>1 DEF Booting, Machines
  <2>4. CASE c.do = "set"
    <3>1. vm' = Having(vm, c.at, c.with)
      BY <1>0, <2>4 DEF Happens
    <3>2. c.with \in [Settings -> Values] /\ vm.settings \in [Settings -> Values]
      BY <2>0, <2>4 DEF CallType, Machines
    <3>3. vm'.settings \in [Settings -> Values]
      BY <3>1, <3>2 DEF Having
    <3> QED
      BY <1>0, <2>0, <3>1, <3>3 DEF Having, Machines
  <2>5. CASE c.do = "power"
    <3>1. vm' = Powered(vm, c.with)
      BY <1>0, <2>5 DEF Happens
    <3> QED
      BY <1>0, <2>0, <2>5, <3>1 DEF Powered, Machines, CallType
  <2>6. CASE c.do = "get"
    BY <1>0, <2>0, <2>6 DEF Happens
  <2> QED
    BY <1>3, <2>1, <2>2, <2>3, <2>4, <2>5, <2>6 DEF CallType
<1> QED
  BY <1>1, <1>2, <1>3

LEMMA RefusedType ==
    ASSUME TypeInv, NEW c, Refused(c)
    PROVE  TypeInv'
<1>1. vm' \in Machines \cup {NoVm}
  <2>1. CASE UNCHANGED vm
    BY <2>1 DEF TypeInv, TypeOK
  <2>2. CASE vm # NoVm /\ vm' = Powered(vm, "Off")
    BY <2>2 DEF TypeInv, TypeOK, Powered, Machines, Powers
  <2> QED
    BY <2>1, <2>2 DEF Refused
<1> QED
  BY <1>1 DEF TypeInv, TypeOK, Refused, End, Steps, UpdateSteps, CallType

LEMMA FailsType ==
    ASSUME TypeInv, NEW c, CallType(c), CallFails(c)
    PROVE  TypeInv'
<1>0. TypeOK /\ End("error") /\ UNCHANGED <<cfg, st>> /\ events' \in Nat
  BY DEF TypeInv, CallFails, Event, TypeOK
<1>1. (vm' # NoVm => vm' \in Machines) /\ twin' \in BOOLEAN /\ (late' # NoCall => CallType(late'))
  <2>1. CASE UNCHANGED host
    BY <2>1 DEF TypeInv, TypeOK, host, CallType
  <2>2. CASE \E part \in Parts(c) : Happens(part) /\ UNCHANGED late
    <3>1. PICK part \in Parts(c) : Happens(part) /\ UNCHANGED late
      BY <2>2
    <3>2. CallType(part)
      BY <3>1, PartsTyped
    <3> QED
      BY <1>0, <3>1, <3>2, HappensType DEF TypeInv, CallType
  <2>3. CASE late' = c /\ UNCHANGED <<vm, twin>>
    BY <2>3 DEF TypeInv, TypeOK, CallType
  <2> QED
    BY <2>1, <2>2, <2>3 DEF CallFails
<1> QED
  BY <1>0, <1>1 DEF TypeInv, TypeOK, End, Steps, UpdateSteps

LEMMA ReadType ==
    ASSUME NEW v, v \in Machines, NEW boot, NEW desired \in Powers \cup {"unmanaged"},
           NEW tainted \in BOOLEAN
    PROVE  ReadModel(v, boot, desired, tainted) \in Models
  BY OrdersTyped DEF ReadModel, Machines, Models

LEMMA StoreType ==
    ASSUME TypeOK, cfg # NoConfig, NEW v, v \in Machines, NEW creating \in BOOLEAN,
           Store(v, creating)
    PROVE  /\ st' \in Models
           /\ step' = "idle" /\ todo' = {} /\ result' \in {"ok", "inconsistent"}
<1>1. PICK tainted \in BOOLEAN : st' = ReadModel(v, cfg.boot, cfg.desired, tainted)
  <2> DEFINE t == creating /\ ~AsPlanned(ReadModel(v, cfg.boot, cfg.desired, FALSE))
  <2>1. st' = ReadModel(v, cfg.boot, cfg.desired, t) /\ t \in BOOLEAN
    BY DEF Store
  <2> QED
    BY <2>1
<1>2. step' = "idle" /\ todo' = {} /\ result' \in {"ok", "inconsistent"}
  BY DEF Store, End
<1> QED
  BY <1>1, <1>2, ConfigType, ReadType

LEMMA DiffType ==
    ASSUME TypeOK, cfg # NoConfig
    PROVE  Diff \subseteq DeviceCalls
<1>1. \A p \in Places : Detach(p) \in DeviceCalls
  BY DEF Detach, DeviceCalls
<1>2. \A p \in Places : cfg.at[p] # Empty => Attach(p, cfg.at[p]) \in DeviceCalls
  BY ConfigType DEF Attach, DeviceCalls, Devices
<1> QED
  BY <1>1, <1>2 DEF Diff

\* A step of an apply keeps the types.
LEMMA ApplyType ==
    ASSUME TypeInv, ApplyStep
    PROVE  TypeInv'
<1>0. TypeOK
  BY DEF TypeInv
<1>1. CASE Refresh
  <2>1. cfg' = cfg /\ vm' = vm /\ twin' = twin /\ late' = late /\ events' = events
        /\ todo' = {} /\ step' \in {"plan", "idle"} /\ result' \in {result, "error"}
    BY <1>1 DEF Refresh, Goto, End, host
  <2>2. st' # NoState =>
           st' \in Models
    <3>1. CASE Creating \/ vm = NoVm
      BY <1>1, <3>1 DEF Refresh
    <3>2. CASE ~(Creating \/ vm = NoVm) /\ twin
      BY <1>0, <1>1, <3>2 DEF Refresh, TypeOK
    <3>3. CASE ~(Creating \/ vm = NoVm) /\ ~twin
      <4>1. st' = ReadModel(vm, st.boot, st.desired, st.tainted)
        BY <1>1, <3>3 DEF Refresh
      <4>2. vm \in Machines /\ st.desired \in Powers \cup {"unmanaged"} /\ st.tainted \in BOOLEAN
        BY <1>0, <3>3 DEF TypeOK, Models, Creating
      <4> QED
        BY <4>1, <4>2, ReadType
    <3> QED
      BY <3>1, <3>2, <3>3
  <2> QED
    BY <2>1, <2>2 DEF TypeInv, TypeOK, Steps, UpdateSteps, CallType
<1>2. CASE RefreshFails
  BY <1>0, <1>2, FailsType, CallsTyped DEF RefreshFails
<1>3. CASE Plan
  <2>1. UNCHANGED <<cfg, st, host, events>>
    BY <1>3 DEF Plan
  <2>2. todo' \subseteq DeviceCalls
    BY <1>0, <1>3, DiffType DEF Plan, Goto, End
  <2>3. /\ step' \in {"idle", "new", "delete", "devices"}
        /\ result' \in {result, "ok"}
        /\ step' \in {"new", "devices"} => cfg # NoConfig
        /\ step' = "delete" => st # NoState
    BY <1>3 DEF Plan, Goto, End, Creating
  <2> QED
    BY <2>1, <2>2, <2>3 DEF TypeInv, TypeOK, host, Steps, UpdateSteps, CallType
<1>4. CASE DeleteVM
  <2>1. CASE Succeeds(Remove) /\ st' = NoState /\ UNCHANGED cfg
             /\ IF cfg = NoConfig THEN End("ok") ELSE Goto("new")
    <3>1. (vm' # NoVm => vm' \in Machines) /\ twin' \in BOOLEAN
      BY <1>0, <2>1, HappensType, CallsTyped DEF Succeeds
    <3> QED
      BY <2>1, <3>1 DEF TypeInv, TypeOK, Succeeds, End, Goto, Steps, UpdateSteps, CallType
  <2> QED
    BY <1>0, <1>4, <2>1, RefusedType, FailsType, CallsTyped DEF DeleteVM
<1>5. CASE NewVM
  <2>0. step = "new" /\ cfg # NoConfig /\ CallType(New(cfg))
    BY <1>0, <1>5, CallsTyped DEF NewVM, TypeOK
  <2>1. CASE Succeeds(New(cfg)) /\ step' = "devices" /\ todo' = Diff
             /\ UNCHANGED <<cfg, st, result>>
    <3>1. (vm' # NoVm => vm' \in Machines) /\ twin' \in BOOLEAN
      BY <1>0, <2>0, <2>1, HappensType DEF Succeeds
    <3>2. todo' \subseteq DeviceCalls
      BY <1>0, <2>0, <2>1, DiffType
    <3> QED
      BY <2>0, <2>1, <3>1, <3>2
         DEF TypeInv, TypeOK, Succeeds, Steps, UpdateSteps, CallType
  <2> QED
    BY <1>5, <2>0, <2>1, RefusedType, FailsType DEF NewVM
<1>6. CASE MoveDevice
  <2>1. PICK c \in First :
           \/ /\ Succeeds(c) \/ Tolerated(c)
              /\ todo' = todo \ {c}
              /\ UNCHANGED <<cfg, st, step, result>>
           \/ c.do = "attach" /\ Refused(c)
           \/ CallFails(c)
    BY <1>6 DEF MoveDevice
  <2>2. CallType(c)
    BY <1>0, CallsTyped DEF First
  <2>3. CASE /\ Succeeds(c) \/ Tolerated(c)
             /\ todo' = todo \ {c}
             /\ UNCHANGED <<cfg, st, step, result>>
    <3>1. (vm' # NoVm => vm' \in Machines) /\ twin' \in BOOLEAN
      BY <1>0, <2>2, <2>3, HappensType DEF Succeeds, Tolerated, host, TypeOK
    <3>2. late' = late /\ events' = events
      BY <2>3 DEF Succeeds, Tolerated, host
    <3> QED
      BY <2>3, <3>1, <3>2 DEF TypeInv, TypeOK, CallType
  <2> QED
    BY <2>1, <2>2, <2>3, RefusedType, FailsType
<1>7. CASE DevicesMoved
  BY <1>7 DEF DevicesMoved, TypeInv, TypeOK, Goto, host, Steps, UpdateSteps, CallType
<1>8. CASE OrderBoot
  <2>0. step = "boot" /\ cfg # NoConfig /\ CallType(SetBootOrder(cfg.boot))
    BY <1>0, <1>8, CallsTyped DEF OrderBoot, TypeOK, UpdateSteps
  <2>1. CASE Goto("settings") /\ UNCHANGED <<cfg, st, host, events>>
    BY <2>0, <2>1 DEF TypeInv, TypeOK, Goto, host, Steps, UpdateSteps, CallType
  <2>2. CASE Succeeds(SetBootOrder(cfg.boot)) /\ Goto("settings") /\ UNCHANGED <<cfg, st>>
    <3>1. (vm' # NoVm => vm' \in Machines) /\ twin' \in BOOLEAN
      BY <1>0, <2>0, <2>2, HappensType DEF Succeeds
    <3> QED
      BY <2>0, <2>2, <3>1
         DEF TypeInv, TypeOK, Succeeds, Goto, Steps, UpdateSteps, CallType
  <2> QED
    BY <1>8, <2>0, <2>1, <2>2, RefusedType, FailsType DEF OrderBoot
<1>9. CASE ChangeSettings
  <2> DEFINE call == SetVM(Changed, cfg.settings)
  <2>0. step = "settings" /\ cfg # NoConfig /\ CallType(call)
    BY <1>0, <1>9, CallsTyped DEF ChangeSettings, TypeOK, UpdateSteps
  <2>1. CASE Goto("final") /\ UNCHANGED <<cfg, st, host, events>>
    BY <2>0, <2>1 DEF TypeInv, TypeOK, Goto, host, Steps, UpdateSteps, CallType
  <2>2. CASE Succeeds(call) /\ Goto("final") /\ UNCHANGED <<cfg, st>>
    <3>1. (vm' # NoVm => vm' \in Machines) /\ twin' \in BOOLEAN
      BY <1>0, <2>0, <2>2, HappensType DEF Succeeds
    <3> HIDE DEF call
    <3> QED
      BY <2>0, <2>2, <3>1
         DEF TypeInv, TypeOK, Succeeds, Goto, Steps, UpdateSteps, CallType
  <2>3. CASE Succeeds(call) /\ Store(vm', Creating) /\ UNCHANGED cfg
    <3>1. (vm' # NoVm => vm' \in Machines) /\ twin' \in BOOLEAN
      BY <1>0, <2>0, <2>3, HappensType DEF Succeeds
    <3>2. vm' \in Machines
      BY <1>0, <2>0, <2>3, HappensType DEF Succeeds, SetVM
    <3>3. /\ st' \in Models
          /\ step' = "idle" /\ todo' = {} /\ result' \in {"ok", "inconsistent"}
      BY <1>0, <2>0, <2>3, <3>1, <3>2, StoreType DEF Creating
    <3> QED
      BY <2>0, <2>3, <3>1, <3>3
         DEF TypeInv, TypeOK, Succeeds, Steps, UpdateSteps, CallType
  <2> QED
    BY <1>9, <2>0, <2>1, <2>2, <2>3, RefusedType, FailsType DEF ChangeSettings
<1>10. CASE Finish
  <2>0. step = "final" /\ cfg # NoConfig /\ CallType(FinalCall)
    BY <1>0, <1>10, CallsTyped DEF Finish, TypeOK, UpdateSteps
  <2>1. CASE Succeeds(FinalCall) /\ UNCHANGED cfg
             /\ IF Creating /\ cfg.wait
                  THEN /\ st' = ReadModel(vm', cfg.boot, cfg.desired, TRUE)
                       /\ Goto("wait")
                  ELSE Store(vm', Creating)
    <3>1. (vm' # NoVm => vm' \in Machines) /\ twin' \in BOOLEAN
      BY <1>0, <2>0, <2>1, HappensType DEF Succeeds
    <3>2. FinalCall.do # "remove"
      BY DEF FinalCall, SetVMState, GetVM
    <3>2a. vm' \in Machines
      BY <1>0, <2>0, <2>1, <3>2, HappensType DEF Succeeds
    <3>3. /\ st' \in Models
          /\ step' \in {"idle", "wait"} /\ todo' = {}
          /\ result' \in {result, "ok", "inconsistent"}
      <4>1. CASE Creating /\ cfg.wait
        <5>1. /\ st' = ReadModel(vm', cfg.boot, cfg.desired, TRUE)
              /\ step' = "wait" /\ todo' = {} /\ result' = result
          BY <2>1, <4>1 DEF Goto
        <5>2. cfg.desired \in Powers \cup {"unmanaged"} /\ TRUE \in BOOLEAN
          BY <1>0, <2>0, ConfigType
        <5> QED
          BY <3>2a, <5>1, <5>2, ReadType
      <4>2. CASE ~(Creating /\ cfg.wait)
        BY <1>0, <2>0, <2>1, <3>1, <3>2a, <4>2, StoreType DEF Creating
      <4> QED
        BY <4>1, <4>2
    <3> QED
      BY <2>0, <2>1, <3>1, <3>3
         DEF TypeInv, TypeOK, Succeeds, Steps, UpdateSteps, CallType
  <2> QED
    BY <1>10, <2>0, <2>1, RefusedType, FailsType DEF Finish
<1>11. CASE GuestAnswers
  <2>0. step = "wait" /\ cfg # NoConfig /\ vm \in Machines /\ Store(vm, TRUE)
        /\ UNCHANGED <<cfg, host, events>>
    BY <1>0, <1>11 DEF GuestAnswers, TypeOK
  <2>1. /\ st' \in Models
        /\ step' = "idle" /\ todo' = {} /\ result' \in {"ok", "inconsistent"}
    BY <1>0, <2>0, StoreType
  <2> QED
    BY <2>0, <2>1 DEF TypeInv, TypeOK, host, Steps, UpdateSteps, CallType
<1>12. CASE WaitFails
  <2>0. step = "wait" /\ cfg # NoConfig /\ End("error") /\ UNCHANGED <<cfg, host>>
        /\ events' \in Nat
    BY <1>0, <1>12 DEF WaitFails, TypeOK, Event
  <2>1. st' # NoState =>
           st' \in Models
    <3>1. CASE UNCHANGED st
      BY <1>0, <3>1 DEF TypeOK
    <3>2. CASE vm # NoVm /\ st' = ReadModel(vm, cfg.boot, cfg.desired, TRUE)
      BY <1>0, <2>0, <3>2, ReadType, ConfigType DEF TypeOK
    <3> QED
      BY <1>12, <3>1, <3>2 DEF WaitFails
  <2> QED
    BY <2>0, <2>1 DEF TypeInv, TypeOK, host, End, Steps, UpdateSteps, CallType
<1>13. CASE WaitRefused
  BY <1>13 DEF WaitRefused, TypeInv, TypeOK, End, host, Steps, UpdateSteps, CallType
<1> QED
  BY <1>1, <1>2, <1>3, <1>4, <1>5, <1>6, <1>7, <1>8, <1>9, <1>10, <1>11, <1>12, <1>13
     DEF ApplyStep

LEMMA OtherType ==
    ASSUME TypeInv, Edit \/ Interfere \/ Land
    PROVE  TypeInv'
<1>0. TypeOK
  BY DEF TypeInv
<1>1. CASE Edit
  BY <1>1 DEF Edit, Event, TypeInv, TypeOK, host, apply, Steps, UpdateSteps, CallType
<1>2. CASE Interfere
  <2>1. vm' # NoVm => vm' \in Machines
    <3>0. vm \in Machines
      BY <1>0, <1>2 DEF Interfere, TypeOK
    <3>1. CASE vm' = NoVm
      BY <3>1
    <3>2. CASE \E power \in Powers \ {vm.power} : vm' = Powered(vm, power)
      BY <3>0, <3>2 DEF Powered, Machines
    <3>3. CASE \E p \in Places : vm' = Detached(vm, p)
      <4>1. PICK p \in Places : vm' = Detached(vm, p)
        BY <3>3
      <4>2. vm'.at \in Devices
        BY <3>0, <4>1 DEF Detached, Machines, Devices
      <4>3. vm'.boot \in Seq(Places)
        BY <3>0, <4>1, OrdersTyped DEF Detached, Machines
      <4> QED
        BY <3>0, <4>1, <4>2, <4>3 DEF Detached, Machines
    <3> QED
      BY <1>2, <3>1, <3>2, <3>3 DEF Interfere
  <2>2. twin' \in BOOLEAN /\ events' \in Nat /\ UNCHANGED <<cfg, st, late, step, todo, result>>
    BY <1>0, <1>2 DEF Interfere, Event, TypeOK, apply
  <2> QED
    BY <2>1, <2>2 DEF TypeInv, TypeOK, CallType
<1>3. CASE Land
  <2>1. PICK part \in Parts(late) :
           IF Accepts(part) THEN Happens(part) ELSE UNCHANGED <<vm, twin>>
    BY <1>3 DEF Land
  <2>2. CallType(part)
    BY <1>3, PartsTyped DEF TypeInv, Land
  <2>3. (vm' # NoVm => vm' \in Machines) /\ twin' \in BOOLEAN
    <3>1. CASE Happens(part)
      BY <1>0, <2>2, <3>1, HappensType
    <3>2. CASE UNCHANGED <<vm, twin>>
      BY <1>0, <3>2 DEF TypeOK
    <3> QED
      BY <2>1, <3>1, <3>2
  <2>4. late' = NoCall /\ UNCHANGED <<cfg, st, step, todo, result, events>>
    BY <1>3 DEF Land, apply
  <2> QED
    BY <2>3, <2>4 DEF TypeInv, TypeOK
<1> QED
  BY <1>1, <1>2, <1>3

LEMMA TypeInvInit == Init => TypeInv
<1> SUFFICES ASSUME Init
             PROVE  TypeInv
  OBVIOUS
<1>1. /\ cfg = NoConfig /\ st = NoState /\ vm = NoVm /\ late = NoCall
      /\ twin \in BOOLEAN /\ todo = {} /\ events \in Nat
      /\ step = "idle" /\ result = "none"
  BY DEF Init
<1>2. todo \subseteq DeviceCalls /\ cfg \in Configs \cup {NoConfig}
  BY <1>1
<1>3. step \in Steps /\ step \notin {"new", "wait"} \cup UpdateSteps /\ step # "delete"
  BY <1>1 DEF Steps, UpdateSteps
<1> QED
  BY <1>1, <1>2, <1>3 DEF TypeInv, TypeOK

LEMMA TypeInvStep == TypeInv /\ [Next]_vars => TypeInv'
<1> SUFFICES ASSUME TypeInv, [Next]_vars
             PROVE  TypeInv'
  OBVIOUS
<1>1. CASE UNCHANGED vars
  BY <1>1 DEF vars, host, apply, TypeInv, TypeOK, CallType
<1> QED
  BY <1>1, ApplyType, OtherType DEF Next

\* The state, the machine and the steps of an apply keep their types,
\* whatever fails, lands late or is changed from outside.
THEOREM TypeCorrect == Spec => []TypeOK
<1>1. TypeInv => TypeOK
  BY DEF TypeInv
<1> QED
  BY <1>1, TypeInvInit, TypeInvStep, PTL DEF Spec

-----------------------------------------------------------------------------
(* A VM is started as configured, when failed calls have no late effects   *)
(* and nobody interferes with an update.                                   *)

\* What is at a place, given the device calls that are left.
Due(p) ==
    IF Detach(p) \in todo THEN Had(p)
    ELSE IF Attach(p, cfg.at[p]) \in todo THEN Empty
    ELSE cfg.at[p]

\* What is detached to be replaced is going to be.
Matched ==
    /\ todo \subseteq Diff
    /\ \A p \in Places :
           Detach(p) \in todo /\ cfg.at[p] # Empty => Attach(p, cfg.at[p]) \in todo

\* The settings a VM has before they are changed.
Base == IF Creating THEN cfg.settings ELSE st.settings

\* How far an apply has got with the VM.
Progress ==
    /\ step = "plan" /\ ~Creating =>
           ~twin /\ vm.at = st.at /\ vm.settings = st.settings
    /\ step = "devices" =>
           Matched /\ (\A p \in Places : vm.at[p] = Due(p)) /\ vm.settings = Base
    /\ step \in {"boot", "settings"} => vm.at = cfg.at /\ vm.settings = Base
    /\ step = "final" => vm.at = cfg.at /\ vm.settings = cfg.settings

ProgressInv ==
    /\ TypeInv
    /\ late = NoCall
    /\ step = "new" => Creating
    /\ ~twin /\ vm # NoVm => Progress

LEMMA InDiff ==
    ASSUME NEW p \in Places
    PROVE  /\ Detach(p) \in Diff <=> Had(p) # Empty /\ cfg.at[p] # Had(p)
           /\ Attach(p, cfg.at[p]) \in Diff <=> cfg.at[p] \notin {Empty, Had(p)}
  BY DEF Diff, Detach, Attach

LEMMA DiffMembers ==
    ASSUME NEW c \in Diff
    PROVE  \E p \in Places : c = Detach(p) \/ c = Attach(p, cfg.at[p])
  BY DEF Diff

LEMMA CallsDiffer ==
    ASSUME NEW p, NEW q, NEW m, NEW n
    PROVE  /\ Detach(p) # Attach(q, m)
           /\ Detach(p) = Detach(q) => p = q
           /\ Attach(p, m) = Attach(q, n) => p = q
  BY DEF Detach, Attach

LEMMA DetachFirst ==
    ASSUME NEW p, NEW m, Attach(p, m) \in First
    PROVE  Detach(p) \notin todo
<1> SUFFICES ASSUME Detach(p) \in todo
             PROVE  FALSE
  OBVIOUS
<1>1. Rank(Attach(p, m)) <= Rank(Detach(p))
  BY DEF First
<1> QED
  BY <1>1 DEF Rank, Attach, Detach

\* Nothing was done to the VM when all device calls are left.
LEMMA DevicesBegin ==
    ASSUME todo' = Diff, Diff' = Diff, cfg' = cfg,
           \A p \in Places : Had(p)' = Had(p) /\ vm'.at[p] = Had(p)
    PROVE  Matched' /\ \A p \in Places : vm'.at[p] = Due(p)'
<1>1. Matched'
  <2> SUFFICES ASSUME NEW p \in Places, Detach(p) \in todo', cfg.at[p] # Empty
               PROVE  Attach(p, cfg.at[p]) \in todo'
    BY DEF Matched
  <2> QED
    BY InDiff
<1>2. ASSUME NEW p \in Places
      PROVE  vm'.at[p] = Due(p)'
  <2>1. Due(p)' = IF Detach(p) \in Diff THEN Had(p)
                  ELSE IF Attach(p, cfg.at[p]) \in Diff THEN Empty
                  ELSE cfg.at[p]
    BY <1>2 DEF Due
  <2> QED
    BY <1>2, <2>1, InDiff
<1> QED
  BY <1>1, <1>2

\* A device call that succeeds leaves the place as it is due.
LEMMA DeviceMoved ==
    ASSUME TypeInv, NEW c \in First, step = "devices", ~twin, vm # NoVm,
           Matched, \A p \in Places : vm.at[p] = Due(p), vm.settings = Base,
           Succeeds(c), todo' = todo \ {c}, UNCHANGED <<cfg, st>>
    PROVE  Matched' /\ (\A p \in Places : vm'.at[p] = Due(p)') /\ vm'.settings = Base'
<1>0. vm \in Machines /\ c \in todo /\ todo \subseteq Diff
  BY DEF TypeInv, TypeOK, First, Matched
<1>1. PICK q \in Places : c = Detach(q) \/ c = Attach(q, cfg.at[q])
  BY <1>0, DiffMembers
<1>2. Diff' = Diff /\ Base' = Base /\ \A p : Had(p)' = Had(p)
  BY DEF Diff, Base, Had, Creating
<1>3. CASE c = Detach(q)
  <2>1. vm' = Detached(vm, q)
    BY <1>3 DEF Succeeds, Happens, Detach
  <2>2. vm'.at = [vm.at EXCEPT ![q] = Empty] /\ vm'.settings = vm.settings
    BY <2>1 DEF Detached
  <2>3. Matched'
    BY <1>0, <1>2, <1>3, CallsDiffer DEF Matched
  <2>4. ASSUME NEW p \in Places
        PROVE  vm'.at[p] = Due(p)'
    <3>0. /\ vm'.at[p] = IF p = q THEN Empty ELSE vm.at[p]
          /\ Attach(p, cfg.at[p]) \in todo' <=> Attach(p, cfg.at[p]) \in todo
          /\ Detach(p) \in todo' <=> Detach(p) \in todo /\ p # q
      BY <1>0, <1>3, <2>2, <2>4, CallsDiffer DEF Machines, Devices
    <3>1. CASE p = q
      <4>1. cfg.at[q] # Empty => Attach(q, cfg.at[q]) \in todo
        BY <1>0, <1>3 DEF Matched
      <4> QED
        BY <3>0, <3>1, <4>1 DEF Due
    <3>2. CASE p # q
      BY <1>2, <2>4, <3>0, <3>2 DEF Due
    <3> QED
      BY <3>1, <3>2
  <2> QED
    BY <1>2, <2>2, <2>3, <2>4
<1>4. CASE c = Attach(q, cfg.at[q])
  <2>1. vm' = Attached(vm, q, cfg.at[q])
    BY <1>4 DEF Succeeds, Happens, Attach
  <2>2. vm'.at = [vm.at EXCEPT ![q] = cfg.at[q]] /\ vm'.settings = vm.settings
    BY <2>1 DEF Attached
  <2>3. Detach(q) \notin todo
    BY <1>4, DetachFirst
  <2>4. ASSUME NEW p \in Places
        PROVE  /\ Attach(p, cfg.at[p]) \in todo' <=> Attach(p, cfg.at[p]) \in todo /\ p # q
               /\ Detach(p) \in todo' <=> Detach(p) \in todo
    BY <1>4, CallsDiffer
  <2>5. Matched'
    BY <1>0, <1>2, <2>3, <2>4 DEF Matched
  <2>6. ASSUME NEW p \in Places
        PROVE  vm'.at[p] = Due(p)'
    <3>0. vm'.at[p] = IF p = q THEN cfg.at[q] ELSE vm.at[p]
      BY <1>0, <2>2, <2>6 DEF Machines, Devices
    <3>1. CASE p = q
      BY <2>3, <2>4, <3>0, <3>1 DEF Due
    <3>2. CASE p # q
      BY <1>2, <2>4, <2>6, <3>0, <3>2 DEF Due
    <3> QED
      BY <3>1, <3>2
  <2> QED
    BY <1>2, <2>2, <2>5, <2>6
<1> QED
  BY <1>1, <1>3, <1>4

\* The settings that differ are changed, so then all are the configuration's.
LEMMA SettingsSet ==
    ASSUME TypeOK, step = "settings", vm # NoVm, vm.settings = Base,
           vm' = Having(vm, Changed, cfg.settings)
    PROVE  vm'.settings = cfg.settings
<1>1. cfg.settings \in [Settings -> Values] /\ vm.settings \in [Settings -> Values]
  BY ConfigType DEF TypeOK, Machines, Models, UpdateSteps
<1>2. \A s \in Settings : s \notin Changed => Base[s] = cfg.settings[s]
  BY DEF Changed, Base
<1>3. vm'.settings = [s \in Settings |->
                        IF s \in Changed THEN cfg.settings[s] ELSE vm.settings[s]]
  BY DEF Having
<1> QED
  BY <1>1, <1>2, <1>3

\* Between applies, and where an apply ends, there is nothing to keep.
LEMMA EndKeeps ==
    ASSUME TypeInv', late' = NoCall, step' \in {"idle", "new", "delete", "wait"},
           step' = "new" => Creating'
    PROVE  ProgressInv'
  BY DEF ProgressInv, Progress

LEMMA FailKeeps ==
    ASSUME ~LateEffects, late = NoCall, NEW c, Refused(c) \/ CallFails(c)
    PROVE  late' = NoCall /\ step' = "idle"
  BY DEF Refused, CallFails, End, host

LEMMA ApplyProgress ==
    ASSUME ~LateEffects, ProgressInv, ApplyStep, TypeInv'
    PROVE  ProgressInv'
<1>0. TypeInv /\ TypeOK /\ late = NoCall
  BY DEF ProgressInv, TypeInv
<1>a. late' = NoCall
  BY <1>0, FailKeeps
     DEF ApplyStep, Refresh, RefreshFails, Plan, DeleteVM, NewVM, MoveDevice, DevicesMoved,
         OrderBoot, ChangeSettings, Finish, GuestAnswers, WaitFails, WaitRefused,
         Succeeds, Tolerated, host
<1>b. step' = "new" => Creating'
  <2> SUFFICES ASSUME step' = "new"
               PROVE  Creating'
    OBVIOUS
  <2>1. CASE Plan
    BY <2>1 DEF Plan, Goto, End, Creating
  <2>2. CASE DeleteVM
    BY <1>0, <2>2, FailKeeps DEF DeleteVM, End, Creating
  <2>3. CASE ~Plan /\ ~DeleteVM
    BY <1>0, <2>3, FailKeeps
       DEF ApplyStep, Refresh, RefreshFails, NewVM, MoveDevice, DevicesMoved, OrderBoot,
           ChangeSettings, Finish, GuestAnswers, WaitFails, WaitRefused, Store, End, Goto
  <2> QED
    BY <2>1, <2>2, <2>3
<1> SUFFICES ASSUME ~twin', vm' # NoVm, step' \notin {"idle", "new", "delete", "wait"}
             PROVE  Progress'
  BY <1>a, <1>b, EndKeeps DEF ProgressInv
<1>1. CASE Refresh
  <2>1. step' = "plan" /\ vm' = vm /\ twin' = twin
    BY <1>1 DEF Refresh, Goto, End, host
  <2>2. CASE Creating'
    BY <2>1, <2>2 DEF Progress
  <2>3. CASE ~Creating'
    <3>1. st' = ReadModel(vm, st.boot, st.desired, st.tainted)
      BY <1>1, <2>1, <2>3 DEF Refresh, Creating
    <3>2. st'.at = vm'.at /\ st'.settings = vm'.settings
      BY <2>1, <3>1 DEF ReadModel
    <3> QED
      BY <2>1, <3>2 DEF Progress
  <2> QED
    BY <2>2, <2>3
<1>2. CASE RefreshFails
  BY <1>0, <1>2, FailKeeps DEF RefreshFails
<1>3. CASE Plan
  <2>1. /\ step = "plan" /\ step' = "devices" /\ todo' = Diff /\ ~Creating
        /\ UNCHANGED <<cfg, st, vm, twin>>
    BY <1>3 DEF Plan, Goto, End, host
  <2>2. vm.at = st.at /\ vm.settings = st.settings
    BY <2>1 DEF ProgressInv, Progress
  <2>3. Diff' = Diff /\ Base' = st.settings
    BY <2>1 DEF Diff, Base, Had, Creating
  <2>4. \A p \in Places : Had(p)' = Had(p) /\ vm'.at[p] = Had(p)
    BY <2>1, <2>2 DEF Had, Creating
  <2>5. Matched' /\ \A p \in Places : vm'.at[p] = Due(p)'
    BY <2>1, <2>3, <2>4, DevicesBegin
  <2>6. vm'.settings = Base'
    BY <2>1, <2>2, <2>3
  <2> QED
    BY <2>1, <2>5, <2>6 DEF Progress
<1>4. CASE DeleteVM
  BY <1>0, <1>4, FailKeeps DEF DeleteVM, End, Goto
<1>5. CASE NewVM
  <2>1. /\ Succeeds(New(cfg)) /\ step' = "devices" /\ todo' = Diff
        /\ UNCHANGED <<cfg, st, result>>
    BY <1>0, <1>5, FailKeeps DEF NewVM
  <2>2. vm = NoVm /\ vm' = Created(Settings, cfg.settings)
    BY <2>1 DEF Succeeds, Happens, New
  <2>3. Creating
    BY <1>5 DEF NewVM, ProgressInv
  <2>4. vm'.at = [p \in Places |-> Empty] /\ vm'.settings = cfg.settings
    <3>1. cfg.settings \in [Settings -> Values]
      BY <1>5, ConfigType DEF NewVM, ProgressInv, TypeInv, TypeOK
    <3>2. vm'.settings = [s \in Settings |-> cfg.settings[s]]
      BY <2>2 DEF Created
    <3> QED
      BY <2>2, <3>1, <3>2 DEF Created
  <2>5. Diff' = Diff /\ Base' = cfg.settings
    BY <2>1, <2>3 DEF Diff, Base, Had, Creating
  <2>6. \A p \in Places : Had(p)' = Had(p) /\ vm'.at[p] = Had(p)
    BY <2>1, <2>3, <2>4 DEF Had, Creating
  <2>7. Matched' /\ \A p \in Places : vm'.at[p] = Due(p)'
    BY <2>1, <2>5, <2>6, DevicesBegin
  <2> QED
    BY <2>1, <2>4, <2>5, <2>7 DEF Progress
<1>6. CASE MoveDevice
  <2>1. PICK c \in First :
           /\ Succeeds(c) \/ Tolerated(c)
           /\ todo' = todo \ {c}
           /\ UNCHANGED <<cfg, st, step, result>>
    BY <1>0, <1>6, FailKeeps DEF MoveDevice
  <2>2. step = "devices" /\ step' = "devices" /\ ~twin
    <3>1. c.do \in {"attach", "detach"}
      BY DEF First, DeviceCalls, ProgressInv, TypeInv, TypeOK
    <3> QED
      BY <1>6, <2>1, <3>1 DEF MoveDevice, Succeeds, Tolerated
  <2>3. c \in Diff => \E p \in Places : c = Detach(p) \/ c = Attach(p, cfg.at[p])
    BY DiffMembers
  <2>4. CASE Tolerated(c)
    <3>1. vm' = vm /\ twin' = twin /\ c.do = "detach" /\ ~Accepts(c)
      BY <2>4 DEF Tolerated, host
    <3>2. Progress
      BY <2>2, <3>1 DEF ProgressInv
    <3>3. PICK p \in Places : c = Detach(p)
      BY <2>2, <2>3, <3>1, <3>2 DEF Progress, Matched, First, Attach
    <3>4. vm.at[p] = Had(p) /\ Had(p) # Empty
      BY <2>2, <3>2, <3>3, InDiff DEF Progress, Matched, Due, First
    <3>5. Accepts(c)
      BY <3>1, <3>3, <3>4 DEF Accepts, Detach
    <3> QED
      BY <3>1, <3>5
  <2>5. CASE Succeeds(c)
    <3>1. vm # NoVm
      <4>1. c.do \in {"attach", "detach"}
        BY <1>0 DEF TypeOK, DeviceCalls, First
      <4> QED
        BY <2>5, <4>1 DEF Succeeds, Happens, Accepts
    <3>2. Matched /\ (\A p \in Places : vm.at[p] = Due(p)) /\ vm.settings = Base
      BY <2>2, <3>1 DEF ProgressInv, Progress
    <3>3. Matched' /\ (\A p \in Places : vm'.at[p] = Due(p)') /\ vm'.settings = Base'
      BY <1>0, <2>1, <2>2, <2>5, <3>1, <3>2, DeviceMoved
    <3> QED
      BY <2>2, <3>3 DEF Progress
  <2> QED
    BY <2>1, <2>4, <2>5
<1>7. CASE DevicesMoved
  <2>1. /\ step = "devices" /\ todo = {} /\ step' = "boot"
        /\ UNCHANGED <<cfg, st, vm, twin>>
    BY <1>7 DEF DevicesMoved, Goto, host
  <2>2. Progress /\ Base' = Base
    BY <2>1 DEF ProgressInv, Base, Creating
  <2>3. \A p \in Places : vm.at[p] = cfg.at[p]
    BY <2>1, <2>2 DEF Progress, Due
  <2>4. vm.at = cfg.at
    <3>1. vm.at \in Devices /\ cfg.at \in Devices
      BY <1>0, <2>1, ConfigType DEF TypeOK, Machines, Models, UpdateSteps
    <3> QED
      BY <2>3, <3>1 DEF Devices
  <2> QED
    BY <2>1, <2>2, <2>4 DEF Progress
<1>8. CASE OrderBoot
  <2> DEFINE call == SetBootOrder(cfg.boot)
  <2>0. step = "boot" /\ step' = "settings" /\ UNCHANGED <<cfg, st>>
        /\ (UNCHANGED host \/ Succeeds(call))
    BY <1>0, <1>8, FailKeeps DEF OrderBoot, Goto
  <2>1. Base' = Base
    BY <2>0 DEF Base, Creating
  <2>2. CASE UNCHANGED host
    BY <2>0, <2>1, <2>2 DEF ProgressInv, Progress, host
  <2>3. CASE Succeeds(call)
    <3>1. vm # NoVm /\ ~twin /\ vm' = Booting(vm, cfg.boot)
      BY <2>3 DEF Succeeds, Happens, Accepts, SetBootOrder
    <3>2. vm'.at = vm.at /\ vm'.settings = vm.settings
      BY <3>1 DEF Booting
    <3> QED
      BY <2>0, <2>1, <3>1, <3>2 DEF ProgressInv, Progress
  <2> QED
    BY <2>0, <2>2, <2>3
<1>9. CASE ChangeSettings
  <2> DEFINE call == SetVM(Changed, cfg.settings)
  <2>0. step = "settings" /\ step' = "final" /\ UNCHANGED <<cfg, st>>
        /\ (\/ Changed = {} /\ UNCHANGED host
            \/ Succeeds(call))
    BY <1>0, <1>9, FailKeeps DEF ChangeSettings, Goto, Store, End
  <2>1. /\ vm # NoVm => vm \in Machines
        /\ cfg.settings \in [Settings -> Values]
        /\ ~Creating => st.settings \in [Settings -> Values]
    BY <1>0, <2>0, ConfigType DEF TypeOK, Machines, Models, UpdateSteps, Creating
  <2>2. \A s \in Settings : s \notin Changed => Base[s] = cfg.settings[s]
    BY DEF Changed, Base
  <2>3. CASE Changed = {} /\ UNCHANGED host
    <3>1. Base = cfg.settings
      <4>1. Base \in [Settings -> Values]
        BY <2>1 DEF Base
      <4> QED
        BY <2>1, <2>2, <2>3, <4>1
    <3>2. vm' = vm /\ twin' = twin
      BY <2>3 DEF host
    <3> QED
      BY <2>0, <3>1, <3>2 DEF ProgressInv, Progress
  <2>4. CASE Succeeds(call)
    <3>1. vm # NoVm /\ ~twin /\ vm' = Having(vm, Changed, cfg.settings)
      BY <2>4 DEF Succeeds, Happens, Accepts, SetVM
    <3>2. vm.at = cfg.at /\ vm.settings = Base
      BY <2>0, <3>1 DEF ProgressInv, Progress
    <3>3. vm'.at = vm.at
      BY <3>1 DEF Having
    <3>4. vm'.settings = cfg.settings
      BY <1>0, <2>0, <3>1, <3>2, SettingsSet
    <3> QED
      BY <2>0, <3>2, <3>3, <3>4 DEF Progress
  <2> QED
    BY <2>0, <2>3, <2>4
<1>10. CASE Finish
  BY <1>0, <1>10, FailKeeps DEF Finish, Goto, Store, End
<1>11. CASE GuestAnswers
  BY <1>11 DEF GuestAnswers, Store, End
<1>12. CASE WaitFails
  BY <1>12 DEF WaitFails, End
<1>13. CASE WaitRefused
  BY <1>13 DEF WaitRefused, End
<1> QED
  BY <1>1, <1>2, <1>3, <1>4, <1>5, <1>6, <1>7, <1>8, <1>9, <1>10, <1>11, <1>12, <1>13
     DEF ApplyStep

LEMMA OtherProgress ==
    ASSUME ~Meddling, ProgressInv, Edit \/ Interfere \/ Land, TypeInv'
    PROVE  ProgressInv'
<1>1. late = NoCall /\ ~Land
  BY DEF ProgressInv, Land
<1>2. step' = "idle" /\ late' = late
  BY <1>1 DEF Edit, Interfere, host, apply
<1> QED
  BY <1>1, <1>2, EndKeeps

\* A step that starts the VM finds it as configured.
LEMMA StartsStep ==
    ASSUME ProgressInv
    PROVE  StartAsConfigured
  BY DEF ProgressInv, Progress, StartAsConfigured

LEMMA ProgressStep ==
    ASSUME ~LateEffects, ~Meddling, ProgressInv, [Next]_vars
    PROVE  ProgressInv'
<1>1. TypeInv'
  BY TypeInvStep DEF ProgressInv
<1>2. CASE UNCHANGED vars
  BY <1>1, <1>2
     DEF vars, host, apply, ProgressInv, Progress, Matched, Due, Base, Had, Diff, Creating
<1> QED
  BY <1>1, <1>2, ApplyProgress, OtherProgress DEF Next

\* When no failed call has a late effect and nobody interferes with an update,
\* the VM an apply starts has the devices and settings of the configuration,
\* for all configurations, failures and outside changes between applies.
THEOREM StartedAsConfigured ==
    ASSUME ~LateEffects, ~Meddling
    PROVE  Spec => StartsConfigured
<1>1. Init => ProgressInv
  <2>1. Init => TypeInv
    BY TypeInvInit
  <2>2. Init => late = NoCall /\ step = "idle" /\ vm = NoVm
    BY DEF Init
  <2> QED
    BY <2>1, <2>2 DEF ProgressInv
<1>3. ProgressInv /\ [Next]_vars => ProgressInv'
  BY ProgressStep
<1>4. ProgressInv => StartAsConfigured
  BY StartsStep
<1> QED
  BY <1>1, <1>3, <1>4, PTL DEF Spec, StartsConfigured

-----------------------------------------------------------------------------
(* What a successful apply has done *)

\* What of host and state an apply relies on besides Progress: the state is
\* what was read, no adapter is there twice, and only its last step changes
\* the power.
Synced ==
    /\ step = "plan" /\ Creating /\ cfg = NoConfig => vm = NoVm
    /\ step = "plan" /\ ~Creating =>
           ~twin /\ vm # NoVm /\ st.boot = Kept(vm.boot, st.boot)
    /\ ~twin /\ vm # NoVm =>
           /\ vm.twice = {}
           /\ step \in {"plan"} \cup UpdateSteps /\ ~Creating => vm.power = st.power
           /\ step = "wait" =>
                  /\ vm.at = cfg.at /\ vm.settings = cfg.settings
                  /\ cfg.desired = vm.power

SyncInv == ProgressInv /\ Synced

\* A call leaves single what is single.
LEMMA HappensSingle ==
    ASSUME SyncInv, NEW c, Happens(c), ~twin', vm' # NoVm,
           c.do = "attach" /\ ~twin /\ vm # NoVm => vm.at[c.at] = Empty
    PROVE  vm'.twice = {}
<1>0. ~twin /\ Accepts(c) /\ (vm # NoVm => vm.twice = {})
  BY DEF Happens, SyncInv, Synced, ProgressInv, TypeInv, TypeOK
<1>1. CASE c.do = "new" /\ vm' = IF vm = NoVm THEN Created(c.at, c.with) ELSE vm
  BY <1>0, <1>1 DEF Created
<1>2. CASE vm' = NoVm
  BY <1>2
<1>3. ASSUME c.do \notin {"new", "remove"}
      PROVE  vm # NoVm /\ vm.twice = {}
  BY <1>0, <1>3 DEF Accepts
<1>4. CASE c.do = "attach" /\ vm' = Attached(vm, c.at, c.with)
  <2>1. vm'.twice = IF vm.at[c.at] = Empty THEN vm.twice ELSE vm.twice \cup {c.at}
    BY <1>4 DEF Attached
  <2> QED
    BY <1>0, <1>3, <1>4, <2>1
<1>5. CASE c.do = "detach" /\ vm' = Detached(vm, c.at)
  BY <1>3, <1>5 DEF Detached
<1>6. CASE c.do = "boot" /\ vm' = Booting(vm, c.with)
  BY <1>3, <1>6 DEF Booting
<1>7. CASE c.do = "set" /\ vm' = Having(vm, c.at, c.with)
  BY <1>3, <1>7 DEF Having
<1>8. CASE c.do = "power" /\ vm' = Powered(vm, c.with)
  BY <1>3, <1>8 DEF Powered
<1>9. CASE c.do = "get" /\ UNCHANGED vm
  BY <1>3, <1>9
<1> QED
  BY <1>1, <1>2, <1>4, <1>5, <1>6, <1>7, <1>8, <1>9 DEF Happens

\* What is attached goes to a place that is empty.
LEMMA AttachesToEmpty ==
    ASSUME SyncInv, NEW c \in First, step = "devices", ~twin, vm # NoVm, c.do = "attach"
    PROVE  vm.at[c.at] = Empty
<1>1. Matched /\ \A p \in Places : vm.at[p] = Due(p)
  BY DEF SyncInv, ProgressInv, Progress
<1>2. PICK p \in Places : c = Attach(p, cfg.at[p])
  BY <1>1, DiffMembers DEF Matched, First, Detach
<1>3. Detach(p) \notin todo /\ Attach(p, cfg.at[p]) \in todo /\ c.at = p
  BY <1>2, DetachFirst DEF First, Attach
<1> QED
  BY <1>1, <1>2, <1>3 DEF Due

\* A call that is refused or fails leaves single what is single.
LEMMA FailsSingle ==
    ASSUME ~LateEffects, SyncInv, NEW c, CallType(c), Refused(c) \/ CallFails(c),
           c.do = "attach" /\ ~twin /\ vm # NoVm => vm.at[c.at] = Empty
    PROVE  step' = "idle" /\ (~twin' /\ vm' # NoVm => vm'.twice = {})
<1>1. step' = "idle"
  BY DEF Refused, CallFails, End
<1>2. CASE UNCHANGED <<vm, twin>>
  BY <1>1, <1>2 DEF SyncInv, Synced
<1>3. CASE \E part \in Parts(c) : Happens(part)
  <2>1. PICK part \in Parts(c) : Happens(part)
    BY <1>3
  <2>2. part.do = "attach" => c.do = "attach" /\ part.at = c.at
    BY <2>1 DEF Parts, Attach, SetVMState
  <2> QED
    BY <1>1, <2>1, <2>2, HappensSingle
<1> QED
  BY <1>1, <1>2, <1>3 DEF Refused, CallFails, host

\* The machine as an apply leaves it.
AsConfigured(v) ==
    /\ v # NoVm /\ v.at = cfg.at /\ v.twice = {} /\ v.settings = cfg.settings

LEMMA SettingsDone ==
    ASSUME SyncInv, step = "settings", Succeeds(SetVM(Changed, cfg.settings))
    PROVE  /\ ~twin' /\ AsConfigured(vm')
           /\ ~Creating /\ ~StateChanged => cfg.desired \in {"unmanaged", vm'.power}
<1>0. TypeOK
  BY DEF SyncInv, ProgressInv, TypeInv
<1>1. vm # NoVm /\ ~twin /\ ~twin' /\ vm' = Having(vm, Changed, cfg.settings)
  BY <1>0 DEF Succeeds, Happens, Accepts, SetVM, TypeOK
<1>2. vm.at = cfg.at /\ vm.settings = Base
  BY <1>1 DEF SyncInv, ProgressInv, Progress
<1>3. vm.twice = {} /\ (~Creating => vm.power = st.power)
  BY <1>1 DEF SyncInv, Synced, UpdateSteps
<1>4. vm'.settings = cfg.settings
  BY <1>0, <1>1, <1>2, SettingsSet
<1>5. vm'.at = vm.at /\ vm'.twice = vm.twice /\ vm'.power = vm.power
  BY <1>1 DEF Having
<1>6. vm' # NoVm
  <2> DEFINE call == SetVM(Changed, cfg.settings)
  <2>1. CallType(call) /\ Happens(call) /\ call.do # "remove"
    BY <1>0, CallsTyped DEF Succeeds, SetVM, TypeOK, UpdateSteps
  <2>2. vm' \in Machines
    <3> HIDE DEF call
    <3> QED
      BY <1>0, <2>1, HappensType
  <2> QED
    BY <2>2, NothingAssumption
<1> QED
  BY <1>1, <1>2, <1>3, <1>4, <1>5, <1>6 DEF AsConfigured, StateChanged

LEMMA FinalDone ==
    ASSUME SyncInv, step = "final", Succeeds(FinalCall)
    PROVE  /\ ~twin' /\ AsConfigured(vm')
           /\ cfg.desired \in {"unmanaged", vm'.power}
<1>0. TypeOK /\ FinalCall.do \in {"power", "get"}
  BY DEF SyncInv, ProgressInv, TypeInv, FinalCall, SetVMState, GetVM
<1>1. vm # NoVm /\ ~twin /\ ~twin'
  BY <1>0 DEF Succeeds, Happens, Accepts, TypeOK
<1>2. vm.at = cfg.at /\ vm.settings = cfg.settings
  BY <1>1 DEF SyncInv, ProgressInv, Progress
<1>3. vm.twice = {} /\ (~Creating => vm.power = st.power)
  BY <1>1 DEF SyncInv, Synced, UpdateSteps
<1>4. CASE StateChanged
  <2>1. vm' = Powered(vm, cfg.desired)
    BY <1>4 DEF Succeeds, Happens, FinalCall, SetVMState
  <2>2. vm' \in Machines
    BY <1>0, CallsTyped, HappensType DEF Succeeds, TypeOK, UpdateSteps
  <2>3. vm' # NoVm
    BY <2>2, NothingAssumption
  <2> QED
    BY <1>1, <1>2, <1>3, <2>1, <2>3 DEF Powered, AsConfigured
<1>5. CASE ~StateChanged
  <2>1. vm' = vm
    BY <1>5 DEF Succeeds, Happens, FinalCall, GetVM
  <2> QED
    BY <1>1, <1>2, <1>3, <1>5, <2>1 DEF AsConfigured, StateChanged
<1> QED
  BY <1>4, <1>5

LEMMA EndSynced ==
    ASSUME step' \notin {"plan", "wait"} \cup UpdateSteps,
           ~twin' /\ vm' # NoVm => vm'.twice = {}
    PROVE  Synced'
  BY DEF Synced, UpdateSteps

LEMMA SameSynced ==
    ASSUME SyncInv, UNCHANGED <<vm, twin>>, step' \notin {"plan", "wait"} \cup UpdateSteps
    PROVE  Synced'
  BY EndSynced DEF SyncInv, Synced

LEMMA ApplySynced ==
    ASSUME ~LateEffects, SyncInv, ApplyStep
    PROVE  Synced'
<1>0. TypeOK /\ ProgressInv
  BY DEF SyncInv, ProgressInv, TypeInv
<1>a. ASSUME NEW c, CallType(c), c.do # "attach", Refused(c) \/ CallFails(c)
      PROVE  Synced'
  BY <1>a, FailsSingle, EndSynced DEF UpdateSteps
<1>1. CASE Refresh
  <2>0. step = "idle" /\ cfg' = cfg /\ vm' = vm /\ twin' = twin
        /\ ~(cfg = NoConfig /\ Creating)
    BY <1>1 DEF Refresh, host, Creating
  <2>1. CASE Creating \/ vm = NoVm
    <3>1. step' = "plan" /\ st' = NoState
      BY <1>1, <2>1 DEF Refresh, Goto
    <3> QED
      BY <2>0, <2>1, <3>1 DEF SyncInv, Synced, Creating, UpdateSteps
  <2>2. CASE ~Creating /\ vm # NoVm /\ twin
    <3>1. step' = "idle"
      BY <1>1, <2>2 DEF Refresh, End
    <3> QED
      BY <2>0, <3>1, SameSynced DEF UpdateSteps
  <2>3. CASE ~Creating /\ vm # NoVm /\ ~twin
    <3>1. step' = "plan" /\ st' = ReadModel(vm, st.boot, st.desired, st.tainted)
      BY <1>1, <2>3 DEF Refresh, Goto
    <3>2. st'.boot = Kept(vm.boot, st.boot) /\ st'.power = vm.power
      BY <3>1 DEF ReadModel
    <3>3. vm.boot \in Seq(Places)
      BY <1>0, <2>3 DEF TypeOK, Machines
    <3>4. st'.boot = Kept(vm.boot, st'.boot)
      BY <3>2, <3>3, KeptAgain
    <3>5. vm.twice = {}
      BY <2>3 DEF SyncInv, Synced
    <3>6. st'.boot = Kept(vm'.boot, st'.boot) /\ st'.power = vm'.power /\ vm'.twice = {}
      BY <2>0, <3>2, <3>4, <3>5
    <3>7. step' = "plan" /\ ~twin' /\ vm' # NoVm /\ cfg' = cfg
      BY <2>0, <2>3, <3>1
    <3>8. ~Creating'
      <4>1. st' \in Models
        BY <1>0, <2>3, <3>1, ReadType DEF TypeOK, Models, Creating
      <4> QED
        BY <4>1, NothingAssumption DEF Creating
    <3> QED
      BY <3>6, <3>7, <3>8 DEF Synced, UpdateSteps
  <2> QED
    BY <2>1, <2>2, <2>3
<1>2. CASE RefreshFails
  BY <1>0, <1>2, <1>a, CallsTyped DEF RefreshFails, GetVM
<1>3. CASE Plan
  <2>0. step = "plan" /\ UNCHANGED <<cfg, st, vm, twin>>
    BY <1>3 DEF Plan, host
  <2>1. step' \in {"idle", "new", "delete"} \/ (step' = "devices" /\ ~Creating)
    BY <1>3 DEF Plan, Goto, End
  <2>2. CASE step' \in {"idle", "new", "delete"}
    BY <2>0, <2>2, SameSynced DEF UpdateSteps
  <2>3. CASE step' = "devices" /\ ~Creating
    BY <2>0, <2>3 DEF SyncInv, Synced, Creating, UpdateSteps
  <2> QED
    BY <2>1, <2>2, <2>3
<1>4. CASE DeleteVM
  <2>1. CASE Succeeds(Remove) /\ step' \in {"idle", "new"}
    <3>1. vm' = NoVm
      BY <2>1 DEF Succeeds, Happens, Remove
    <3> QED
      BY <2>1, <3>1, EndSynced DEF UpdateSteps
  <2>2. CASE Refused(Remove) \/ CallFails(Remove)
    BY <1>0, <1>a, <2>2, CallsTyped DEF Remove
  <2> QED
    BY <1>4, <2>1, <2>2 DEF DeleteVM, End, Goto
<1>5. CASE NewVM
  <2>0. step = "new" /\ cfg # NoConfig /\ CallType(New(cfg)) /\ New(cfg).do = "new"
    BY <1>0, <1>5, CallsTyped DEF NewVM, TypeOK, New
  <2>1. CASE Succeeds(New(cfg)) /\ step' = "devices" /\ UNCHANGED st
    <3>1. Creating'
      BY <1>0, <2>0, <2>1 DEF ProgressInv, Creating
    <3>2. ~twin' /\ vm' # NoVm => vm'.twice = {}
      BY <2>0, <2>1, HappensSingle DEF Succeeds
    <3> QED
      BY <2>1, <3>1, <3>2 DEF Synced, UpdateSteps
  <2>2. CASE Refused(New(cfg)) \/ CallFails(New(cfg))
    BY <1>a, <2>0, <2>2
  <2> QED
    BY <1>5, <2>1, <2>2 DEF NewVM
<1>6. CASE MoveDevice
  <2>1. PICK c \in First :
           \/ /\ Succeeds(c) \/ Tolerated(c)
              /\ todo' = todo \ {c}
              /\ UNCHANGED <<cfg, st, step, result>>
           \/ c.do = "attach" /\ Refused(c)
           \/ CallFails(c)
    BY <1>6 DEF MoveDevice
  <2>2. step = "devices" /\ CallType(c) /\ c.do \in {"attach", "detach"}
    BY <1>0, <1>6, CallsTyped DEF MoveDevice, First, TypeOK, DeviceCalls
  <2>3. c.do = "attach" /\ ~twin /\ vm # NoVm => vm.at[c.at] = Empty
    BY <2>2, AttachesToEmpty
  <2>4. CASE Succeeds(c) /\ UNCHANGED <<cfg, st, step>>
    <3>1. ~twin' /\ vm' # NoVm => vm'.twice = {}
      BY <2>3, <2>4, HappensSingle DEF Succeeds
    <3>2. vm # NoVm /\ ~twin /\ vm'.power = vm.power
      BY <2>2, <2>4 DEF Succeeds, Happens, Accepts, Attached, Detached
    <3> QED
      BY <2>2, <2>4, <3>1, <3>2 DEF SyncInv, Synced, Creating, UpdateSteps
  <2>5. CASE Tolerated(c) /\ UNCHANGED <<cfg, st, step>>
    BY <2>2, <2>5 DEF Tolerated, host, SyncInv, Synced, Creating, UpdateSteps
  <2>6. CASE Refused(c) \/ CallFails(c)
    BY <2>2, <2>3, <2>6, FailsSingle, EndSynced DEF UpdateSteps
  <2> QED
    BY <2>1, <2>4, <2>5, <2>6
<1>7. CASE DevicesMoved
  BY <1>7 DEF DevicesMoved, Goto, host, SyncInv, Synced, Creating, UpdateSteps
<1>8. CASE OrderBoot
  <2> DEFINE call == SetBootOrder(cfg.boot)
  <2>0. step = "boot" /\ cfg # NoConfig /\ CallType(call) /\ call.do = "boot"
    BY <1>0, <1>8, CallsTyped DEF OrderBoot, TypeOK, UpdateSteps, SetBootOrder
  <2>1. CASE step' = "settings" /\ UNCHANGED <<cfg, st, host>>
    BY <2>0, <2>1 DEF host, SyncInv, Synced, Creating, UpdateSteps
  <2>2. CASE Succeeds(call) /\ step' = "settings" /\ UNCHANGED <<cfg, st>>
    <3>1. vm # NoVm /\ ~twin /\ vm' = Booting(vm, cfg.boot)
      BY <2>2 DEF Succeeds, Happens, Accepts, SetBootOrder
    <3>2. vm'.twice = vm.twice /\ vm'.power = vm.power
      BY <3>1 DEF Booting
    <3> QED
      BY <2>0, <2>2, <3>1, <3>2 DEF SyncInv, Synced, Creating, UpdateSteps
  <2>3. CASE Refused(call) \/ CallFails(call)
    <3> HIDE DEF call
    <3> QED
      BY <1>a, <2>0, <2>3
  <2> QED
    BY <1>8, <2>1, <2>2, <2>3 DEF OrderBoot, Goto
<1>9. CASE ChangeSettings
  <2> DEFINE call == SetVM(Changed, cfg.settings)
  <2>0. step = "settings" /\ cfg # NoConfig /\ CallType(call) /\ call.do = "set"
    BY <1>0, <1>9, CallsTyped DEF ChangeSettings, TypeOK, UpdateSteps, SetVM
  <2>1. CASE step' = "final" /\ UNCHANGED <<cfg, st, host>>
    BY <2>0, <2>1 DEF host, SyncInv, Synced, Creating, UpdateSteps
  <2>2. CASE Succeeds(call) /\ UNCHANGED cfg
             /\ (step' = "idle" \/ (step' = "final" /\ UNCHANGED st))
    <3>1. vm # NoVm /\ ~twin /\ vm' = Having(vm, Changed, cfg.settings)
      BY <2>2 DEF Succeeds, Happens, Accepts, SetVM
    <3>2. vm'.twice = vm.twice /\ vm'.power = vm.power
      BY <3>1 DEF Having
    <3> HIDE DEF call
    <3> QED
      BY <2>0, <2>2, <3>1, <3>2 DEF SyncInv, Synced, Creating, UpdateSteps
  <2>3. CASE Refused(call) \/ CallFails(call)
    <3> HIDE DEF call
    <3> QED
      BY <1>a, <2>0, <2>3
  <2> QED
    BY <1>9, <2>1, <2>2, <2>3 DEF ChangeSettings, Goto, Store, End
<1>10. CASE Finish
  <2>0. step = "final" /\ cfg # NoConfig /\ CallType(FinalCall) /\ FinalCall.do # "attach"
    BY <1>0, <1>10, CallsTyped
       DEF Finish, TypeOK, UpdateSteps, FinalCall, SetVMState, GetVM
  <2>1. CASE Succeeds(FinalCall) /\ UNCHANGED cfg
             /\ (step' = "idle" \/ (Creating /\ cfg.wait /\ step' = "wait"))
    <3>1. /\ ~twin' /\ AsConfigured(vm')
          /\ cfg.desired \in {"unmanaged", vm'.power}
      BY <2>0, <2>1, FinalDone
    <3>2. cfg.wait => cfg.desired = "Running"
      BY <1>0, <2>0, ConfigsAssumption DEF TypeOK, WellFormed
    <3> QED
      BY <2>1, <3>1, <3>2 DEF AsConfigured, Synced, UpdateSteps
  <2>2. CASE Refused(FinalCall) \/ CallFails(FinalCall)
    BY <1>a, <2>0, <2>2
  <2> QED
    BY <1>10, <2>1, <2>2 DEF Finish, Goto, Store, End
<1>11. CASE GuestAnswers \/ WaitFails \/ WaitRefused
  BY <1>11, SameSynced DEF GuestAnswers, WaitFails, WaitRefused, Store, End, host, UpdateSteps
<1> QED
  BY <1>1, <1>2, <1>3, <1>4, <1>5, <1>6, <1>7, <1>8, <1>9, <1>10, <1>11 DEF ApplyStep

LEMMA OtherSynced ==
    ASSUME ~Meddling, SyncInv, Edit \/ Interfere \/ Land
    PROVE  Synced'
<1>0. ~Land
  BY DEF SyncInv, ProgressInv, Land
<1>1. CASE Edit
  BY <1>1, SameSynced DEF Edit, host, apply, UpdateSteps
<1>2. CASE Interfere
  <2>1. step' = "idle" /\ vm # NoVm /\ twin' = (twin /\ vm' # NoVm)
    BY <1>2 DEF Interfere, apply
  <2>2. ~twin' /\ vm' # NoVm => vm'.twice = {}
    <3> SUFFICES ASSUME ~twin', vm' # NoVm
                 PROVE  vm'.twice = {}
      OBVIOUS
    <3>1. vm.twice = {}
      BY <2>1 DEF SyncInv, Synced, ProgressInv, TypeInv, TypeOK
    <3>2. CASE \E power \in Powers \ {vm.power} : vm' = Powered(vm, power)
      BY <3>1, <3>2 DEF Powered
    <3>3. CASE \E p \in Places : vm' = Detached(vm, p)
      BY <3>1, <3>3 DEF Detached
    <3> QED
      BY <1>2, <3>2, <3>3 DEF Interfere
  <2> QED
    BY <2>1, <2>2, EndSynced DEF UpdateSteps
<1> QED
  BY <1>0, <1>1, <1>2

\* The last read is the configuration but for the boot order.
Unplanned ==
    /\ st'.at = cfg.at /\ st'.twice = {} /\ st'.settings = cfg.settings
    /\ st'.boot = Kept(vm'.boot, cfg.boot) /\ st'.boot # cfg.boot

\* What Store answers, if the machine is as it should be.
LEMMA Stored ==
    ASSUME TypeOK, NEW creating, Store(vm', creating), cfg # NoConfig, UNCHANGED cfg,
           ~twin', AsConfigured(vm'), vm' \in Machines
    PROVE  /\ result' = "ok" /\ cfg.desired \in {"unmanaged", vm'.power} => InSync'
           /\ result' = "inconsistent" => Unplanned
<1> DEFINE s == ReadModel(vm', cfg.boot, cfg.desired, FALSE)
<1>1. result' = IF AsPlanned(s) THEN "ok" ELSE "inconsistent"
  BY DEF Store, End
<1>2. AsPlanned(ReadModel(vm, cfg.boot, cfg.desired, FALSE))' <=> AsPlanned(s)
  BY DEF AsPlanned, ReadModel, Kept, Among, Entries
<1>3. result' = "ok" /\ cfg.desired \in {"unmanaged", vm'.power} => InSync'
  BY <1>1, <1>2 DEF InSync, AsConfigured
<1>4. result' = "inconsistent" => Unplanned
  <2>1. s.at = cfg.at /\ s.twice = {} /\ s.settings = cfg.settings /\ s.boot = Kept(vm'.boot, cfg.boot)
    BY DEF ReadModel, AsConfigured
  <2>2. /\ st'.at = vm'.at /\ st'.twice = vm'.twice /\ st'.settings = vm'.settings
        /\ st'.boot = Kept(vm'.boot, cfg.boot)
    BY DEF Store, ReadModel
  <2> HIDE DEF s
  <2> QED
    BY <1>1, <2>1, <2>2 DEF AsPlanned, AsConfigured, Unplanned
<1> QED
  BY <1>1, <1>3, <1>4

\* Where an apply ends, what it answers is true.
LEMMA AnswerTrue ==
    ASSUME ~LateEffects, SyncInv, ApplyStep, TypeOK', step # "idle", step' = "idle"
    PROVE  /\ result' = "ok" => InSync'
           /\ result' = "inconsistent" => Unplanned
<1>0. TypeOK /\ ProgressInv
  BY DEF SyncInv, ProgressInv, TypeInv
<1>1. CASE Plan
  <2>0. step = "plan" /\ UNCHANGED <<cfg, st, vm, twin>> /\ result' = "ok"
    BY <1>1, <1>0 DEF Plan, host, End, Goto
  <2>1. CASE Creating
    <3>1. cfg = NoConfig /\ vm = NoVm
      BY <1>1, <2>0, <2>1 DEF Plan, Goto, SyncInv, Synced
    <3> QED
      BY <2>0, <3>1 DEF InSync
  <2>2. CASE ~Creating
    <3>1. cfg # NoConfig /\ ~Differs
      BY <1>1, <2>0, <2>2 DEF Plan, Goto, End
    <3>2. ~twin /\ vm # NoVm /\ st.boot = Kept(vm.boot, st.boot) /\ vm.twice = {}
      BY <2>0, <2>2 DEF SyncInv, Synced
    <3>3. vm.at = st.at /\ vm.settings = st.settings
      BY <2>0, <2>2, <3>2 DEF ProgressInv, Progress, SyncInv
    <3>4. AsPlanned(st) /\ cfg.desired = "unmanaged"
      BY <3>1 DEF Differs
    <3>5. AsPlanned(ReadModel(vm, cfg.boot, cfg.desired, FALSE))
      BY <3>2, <3>3, <3>4 DEF AsPlanned, ReadModel
    <3>6. InSync
      BY <3>1, <3>2, <3>4, <3>5 DEF InSync
    <3>7. InSync' <=> InSync
      BY <2>0 DEF InSync, AsPlanned, ReadModel, Kept, Among, Entries
    <3> QED
      BY <2>0, <3>6, <3>7
  <2> QED
    BY <2>1, <2>2
<1>2. CASE DeleteVM
  <2>1. CASE Succeeds(Remove) /\ UNCHANGED cfg
             /\ IF cfg = NoConfig THEN End("ok") ELSE Goto("new")
    <3>1. vm' = NoVm /\ cfg = NoConfig /\ cfg' = cfg /\ result' = "ok"
      BY <2>1 DEF Succeeds, Happens, Remove, Goto, End
    <3> QED
      BY <3>1 DEF InSync
  <2> QED
    BY <1>2, <2>1 DEF DeleteVM, Refused, CallFails, End
<1>3. CASE ChangeSettings
  <2> DEFINE call == SetVM(Changed, cfg.settings)
  <2>0. step = "settings" /\ cfg # NoConfig
    BY <1>0, <1>3 DEF ChangeSettings, TypeOK, UpdateSteps
  <2>1. CASE Refused(call) \/ CallFails(call)
    BY <2>1 DEF Refused, CallFails, End
  <2>2. CASE Succeeds(call) /\ Store(vm', Creating) /\ UNCHANGED cfg
             /\ ~StateChanged /\ Changed # {}
    <3>1. ~twin' /\ AsConfigured(vm')
          /\ (~Creating /\ ~StateChanged => cfg.desired \in {"unmanaged", vm'.power})
      BY <2>0, <2>2, SettingsDone
    <3>2. ~Creating
      BY <2>2 DEF Changed
    <3>3. vm' \in Machines
      BY <3>1 DEF AsConfigured, TypeOK
    <3> QED
      BY <1>0, <2>0, <2>2, <3>1, <3>2, <3>3, Stored
  <2> QED
    BY <1>3, <2>1, <2>2 DEF ChangeSettings, Goto
<1>4. CASE Finish
  <2>0. step = "final" /\ cfg # NoConfig
    BY <1>0, <1>4 DEF Finish, TypeOK, UpdateSteps
  <2>1. CASE Refused(FinalCall) \/ CallFails(FinalCall)
    BY <2>1 DEF Refused, CallFails, End
  <2>2. CASE Succeeds(FinalCall) /\ Store(vm', Creating) /\ UNCHANGED cfg
    <3>1. ~twin' /\ AsConfigured(vm') /\ cfg.desired \in {"unmanaged", vm'.power}
      BY <2>0, <2>2, FinalDone
    <3>2. vm' \in Machines
      BY <3>1 DEF AsConfigured, TypeOK
    <3> QED
      BY <1>0, <2>0, <2>2, <3>1, <3>2, Stored
  <2> QED
    BY <1>4, <2>1, <2>2 DEF Finish, Goto
<1>5. CASE GuestAnswers
  <2>0. step = "wait" /\ cfg # NoConfig /\ UNCHANGED <<cfg, vm, twin>>
        /\ vm # NoVm /\ ~twin /\ Store(vm', TRUE)
    BY <1>0, <1>5 DEF GuestAnswers, TypeOK, host
  <2>1. AsConfigured(vm') /\ ~twin' /\ cfg.desired \in {"unmanaged", vm'.power}
    BY <2>0 DEF SyncInv, Synced, AsConfigured
  <2>2. vm' \in Machines
    BY <2>1 DEF AsConfigured, TypeOK
  <2> QED
    BY <1>0, <2>0, <2>1, <2>2, Stored
<1>6. CASE WaitFails \/ WaitRefused
  BY <1>6 DEF WaitFails, WaitRefused, End
<1>7. CASE Refresh \/ RefreshFails
  BY <1>7 DEF Refresh, RefreshFails
<1>8. CASE NewVM \/ MoveDevice \/ DevicesMoved \/ OrderBoot
  <2>1. result' = "error"
    BY <1>8 DEF NewVM, MoveDevice, DevicesMoved, OrderBoot, Refused, CallFails, End, Goto
  <2> QED
    BY <2>1
<1> QED
  BY <1>1, <1>2, <1>3, <1>4, <1>5, <1>6, <1>7, <1>8 DEF ApplyStep

LEMMA SyncInvariant ==
    ASSUME ~LateEffects, ~Meddling
    PROVE  Spec => [](SyncInv /\ TypeOK)
<1>1. Init => SyncInv
  <2>1. Init => TypeInv
    BY TypeInvInit
  <2>2. Init => late = NoCall /\ step = "idle" /\ vm = NoVm
    BY DEF Init
  <2> QED
    BY <2>1, <2>2 DEF SyncInv, ProgressInv, Synced, UpdateSteps
<1>2. ASSUME SyncInv, [Next]_vars
      PROVE  SyncInv'
  <2>1. ProgressInv'
    BY <1>2, ProgressStep DEF SyncInv
  <2>2. Synced'
    <3>1. CASE UNCHANGED vars
      BY <1>2, <3>1
         DEF vars, host, apply, SyncInv, Synced, Creating, Kept, Among, Entries, UpdateSteps
    <3> QED
      BY <1>2, <3>1, ApplySynced, OtherSynced DEF Next
  <2> QED
    BY <2>1, <2>2 DEF SyncInv
<1>3. SyncInv => TypeOK
  BY DEF SyncInv, ProgressInv, TypeInv
<1> QED
  BY <1>1, <1>2, <1>3, PTL DEF Spec

\* An apply that succeeds has made the VM what the configuration asks for:
\* devices, settings, managed boot order and power state after a creation or
\* an update, no VM after a destruction, and a plan with no changes means that
\* there was nothing to do; for all configurations, failing calls (those of a
\* creation included) and outside changes between applies.
THEOREM AppliesInSync ==
    ASSUME ~LateEffects, ~Meddling
    PROVE  Spec => OkMeansInSync
<1>1. ASSUME SyncInv, TypeOK', [Next]_vars
      PROVE  [step # "idle" /\ result' = "ok" /\ step' = "idle" => InSync']_vars
  BY <1>1, AnswerTrue DEF Next, Edit, Interfere, Land, apply
<1> QED
  BY <1>1, SyncInvariant, PTL DEF Spec, OkMeansInSync

-----------------------------------------------------------------------------
(* The boot order through an update *)

\* A boot entry names a device that is there: on the host, and in the state
\* an update goes by.
Bootable == vm # NoVm => \A i \in DOMAIN vm.boot : vm.at[vm.boot[i]] # Empty

StateBootable ==
    step \in {"plan"} \cup UpdateSteps /\ ~Creating =>
        \A i \in DOMAIN st.boot : st.at[st.boot[i]] # Empty

\* The entries whose devices an update leaves alone, and their order.
Lasting == Entries(cfg.boot) \ Replaced

LastingOrdered ==
    ~Creating /\ st.boot = cfg.boot /\ Among(vm.boot, Lasting) = Among(cfg.boot, Lasting)

Ordered ==
    ~twin /\ vm # NoVm =>
        /\ step \in {"devices", "boot"} /\ ~Creating /\ st.boot = cfg.boot => LastingOrdered
        /\ step \in {"settings", "final"} =>
               Kept(vm.boot, cfg.boot) = cfg.boot \/ LastingOrdered
        /\ step = "wait" => Kept(vm.boot, cfg.boot) = cfg.boot

OrderInv == SyncInv /\ Bootable /\ StateBootable /\ Ordered

\* What is kept of an order is in it.
LEMMA AmongWithin ==
    ASSUME NEW order \in Seq(Places), NEW some
    PROVE  LET kept == Among(order, some)
           IN \A j \in DOMAIN kept : kept[j] \in some /\ kept[j] \in Entries(order)
<1> DEFINE n == Len(order)
           E == Entries(order)
<1>1. n \in Nat /\ DOMAIN order = 1..n /\ order = [i \in 1..n |-> order[i]]
  OBVIOUS
<1>2. \A i \in 1..n : order[i] \in E
  BY <1>1 DEF Entries
<1> HIDE DEF E
<1>3. order \in Seq(E)
  BY <1>1, <1>2
<1>4. /\ Among(order, some) \in Seq(E)
      /\ \A j \in DOMAIN Among(order, some) : Among(order, some)[j] \in some
  BY <1>3, AmongMembers
<1>5. \A j \in DOMAIN Among(order, some) : Among(order, some)[j] \in E
  BY <1>4
<1> QED
  BY <1>4, <1>5 DEF E

LEMMA HappensBootable ==
    ASSUME TypeOK, Bootable, NEW c, CallType(c), Happens(c)
    PROVE  Bootable'
<1> SUFFICES ASSUME vm' # NoVm, NEW i \in DOMAIN vm'.boot
             PROVE  vm'.at[vm'.boot[i]] # Empty
  BY DEF Bootable
<1>0. Accepts(c)
  BY DEF Happens
<1>1. CASE c.do = "new"
  <2>1. CASE vm = NoVm
    <3>1. vm'.boot = <<>>
      BY <1>1, <2>1 DEF Happens, Created
    <3> QED
      BY <3>1
  <2>2. CASE vm # NoVm
    BY <1>1, <2>2 DEF Happens, Bootable
  <2> QED
    BY <2>1, <2>2
<1>2. CASE c.do = "remove"
  BY <1>2 DEF Happens
<1>3. CASE c.do \notin {"new", "remove"}
  <2>0. vm # NoVm /\ vm \in Machines /\ vm.boot \in Seq(Places) /\ vm.at \in Devices
    BY <1>0, <1>3 DEF Accepts, TypeOK, Machines
  <2>1. CASE c.do = "attach"
    <3>1. vm'.boot = Append(vm.boot, c.at) /\ vm'.at = [vm.at EXCEPT ![c.at] = c.with]
      BY <2>1 DEF Happens, Attached
    <3>2. c.at \in Places /\ c.with # Empty
      BY <2>1, PlacesAssumption DEF CallType
    <3>3. vm'.boot[i] = c.at \/ \E j \in DOMAIN vm.boot : vm'.boot[i] = vm.boot[j]
      BY <2>0, <3>1
    <3>4. \A j \in DOMAIN vm.boot : vm.boot[j] \in Places /\ vm.at[vm.boot[j]] # Empty
      BY <2>0 DEF Bootable
    <3> QED
      BY <2>0, <3>1, <3>2, <3>3, <3>4 DEF Devices
  <2>2. CASE c.do = "detach"
    <3>1. vm'.boot = Among(vm.boot, Places \ {c.at}) /\ vm'.at = [vm.at EXCEPT ![c.at] = Empty]
      BY <2>2 DEF Happens, Detached, Without
    <3>2. vm'.boot[i] \in Places \ {c.at} /\ vm'.boot[i] \in Entries(vm.boot)
      BY <2>0, <3>1, AmongWithin
    <3>3. vm.at[vm'.boot[i]] # Empty
      BY <2>0, <3>2 DEF Bootable, Entries
    <3> QED
      BY <2>0, <3>1, <3>2, <3>3 DEF Devices
  <2>3. CASE c.do = "boot"
    BY <1>0, <2>3 DEF Happens, Accepts, Booting
  <2>4. CASE c.do \in {"set", "power", "get"}
    <3>1. vm'.boot = vm.boot /\ vm'.at = vm.at
      BY <2>4 DEF Happens, Having, Powered
    <3> QED
      BY <2>0, <3>1 DEF Bootable
  <2> QED
    BY <1>3, <2>1, <2>2, <2>3, <2>4 DEF CallType
<1> QED
  BY <1>1, <1>2, <1>3

\* However a call ends, the entries name devices that are there.
LEMMA EndsBootable ==
    ASSUME TypeOK, Bootable, NEW c, CallType(c),
           Succeeds(c) \/ Refused(c) \/ CallFails(c) \/ Tolerated(c)
    PROVE  Bootable'
<1>1. CASE UNCHANGED vm
  BY <1>1 DEF Bootable
<1>2. CASE vm # NoVm /\ vm' = Powered(vm, "Off")
  BY <1>2 DEF Bootable, Powered
<1>3. ASSUME NEW d, CallType(d), Happens(d) PROVE Bootable'
  BY <1>3, HappensBootable
<1>4. CASE Succeeds(c) \/ Refused(c) \/ Tolerated(c)
  BY <1>1, <1>2, <1>3, <1>4 DEF Succeeds, Refused, Tolerated, host
<1>5. CASE CallFails(c)
  BY <1>1, <1>3, <1>5, PartsTyped DEF CallFails, host
<1> QED
  BY <1>4, <1>5

LEMMA BootableStep ==
    ASSUME TypeInv, late = NoCall, Bootable, [Next]_vars
    PROVE  Bootable'
<1>0. TypeOK
  BY DEF TypeInv
<1>1. CASE UNCHANGED vm
  BY <1>1 DEF Bootable
<1>2. ASSUME NEW c, CallType(c), Succeeds(c) \/ Refused(c) \/ CallFails(c) \/ Tolerated(c)
      PROVE  Bootable'
  BY <1>0, <1>2, EndsBootable
<1>3. CASE RefreshFails
  BY <1>0, <1>2, <1>3, CallsTyped DEF RefreshFails
<1>4. CASE DeleteVM
  BY <1>0, <1>2, <1>4, CallsTyped DEF DeleteVM
<1>5. CASE NewVM
  BY <1>0, <1>2, <1>5, CallsTyped DEF NewVM, TypeOK
<1>6. CASE MoveDevice
  BY <1>0, <1>2, <1>6, CallsTyped DEF MoveDevice, First
<1>7. CASE OrderBoot
  BY <1>0, <1>1, <1>2, <1>7, CallsTyped DEF OrderBoot, TypeOK, UpdateSteps, host
<1>8. CASE ChangeSettings
  BY <1>0, <1>1, <1>2, <1>8, CallsTyped DEF ChangeSettings, TypeOK, UpdateSteps, host
<1>9. CASE Finish
  BY <1>0, <1>2, <1>9, CallsTyped DEF Finish, TypeOK, UpdateSteps
<1>10. CASE Interfere
  <2>1. CASE vm' = NoVm
    BY <2>1 DEF Bootable
  <2>2. CASE vm # NoVm /\ \E power \in Powers : vm' = Powered(vm, power)
    BY <2>2 DEF Bootable, Powered
  <2>3. ASSUME NEW p \in Places, vm # NoVm, vm.at[p] # Empty, vm' = Detached(vm, p)
        PROVE  Bootable'
    <3>1. vm.boot \in Seq(Places) /\ vm.at \in Devices
      BY <1>0, <2>3 DEF TypeOK, Machines
    <3>2. vm'.boot = Among(vm.boot, Places \ {p}) /\ vm'.at = [vm.at EXCEPT ![p] = Empty]
      BY <2>3 DEF Detached, Without
    <3>3. ASSUME NEW i \in DOMAIN vm'.boot
          PROVE  vm'.at[vm'.boot[i]] # Empty
      <4>1. vm'.boot[i] \in Places \ {p} /\ vm'.boot[i] \in Entries(vm.boot)
        BY <3>1, <3>2, AmongWithin
      <4>2. vm.at[vm'.boot[i]] # Empty
        BY <2>3, <4>1 DEF Bootable, Entries
      <4> QED
        BY <3>1, <3>2, <4>1, <4>2 DEF Devices
    <3> QED
      BY <3>3 DEF Bootable
  <2> QED
    BY <1>10, <2>1, <2>2, <2>3 DEF Interfere
<1>11. CASE Refresh \/ Plan \/ DevicesMoved \/ GuestAnswers \/ WaitFails \/ WaitRefused \/ Edit
            \/ UNCHANGED vars
  BY <1>1, <1>11 DEF Refresh, Plan, DevicesMoved, GuestAnswers, WaitFails, WaitRefused, Edit,
                     host, vars
<1>12. ~Land
  BY DEF Land
<1> QED
  BY <1>3, <1>4, <1>5, <1>6, <1>7, <1>8, <1>9, <1>10, <1>11, <1>12 DEF Next, ApplyStep

LEMMA StateBootableStep ==
    ASSUME ProgressInv, ~Meddling, Bootable, StateBootable, [Next]_vars
    PROVE  StateBootable'
<1>0. TypeOK /\ late = NoCall /\ (step = "new" => Creating)
  BY DEF ProgressInv, TypeInv
<1>1. ASSUME Refresh, step' = "plan", ~Creating'
      PROVE  StateBootable'
  <2>1. vm # NoVm /\ st' = ReadModel(vm, st.boot, st.desired, st.tainted)
    BY <1>1 DEF Refresh, Creating, Goto, End
  <2>2. st'.at = vm.at /\ st'.boot = Among(vm.boot, Entries(st.boot))
    BY <2>1 DEF ReadModel, Kept
  <2>3. vm.boot \in Seq(Places)
    BY <1>0, <2>1 DEF TypeOK, Machines
  <2>4. \A i \in DOMAIN st'.boot : st'.boot[i] \in Entries(vm.boot)
    BY <2>2, <2>3, AmongWithin
  <2> QED
    BY <2>1, <2>2, <2>4 DEF StateBootable, Bootable, Entries
<1>2. ASSUME step' \notin {"plan"} \cup UpdateSteps \/ Creating'
      PROVE  StateBootable'
  BY <1>2 DEF StateBootable
<1>3. ASSUME UNCHANGED st, step' = step \/ step \in {"plan"} \cup UpdateSteps
      PROVE  StateBootable'
  BY <1>3 DEF StateBootable, Creating
<1>4. ASSUME End("error")
      PROVE  StateBootable'
  BY <1>2, <1>4 DEF End, UpdateSteps
<1>5. ASSUME NEW c, Refused(c) \/ CallFails(c)
      PROVE  StateBootable'
  BY <1>4, <1>5 DEF Refused, CallFails
<1>6. CASE Refresh
  <2>1. step' \in {"plan", "idle"}
    BY <1>6 DEF Refresh, Goto, End
  <2> QED
    BY <1>1, <1>2, <1>6, <2>1 DEF UpdateSteps
<1>7. CASE Plan
  BY <1>2, <1>3, <1>7 DEF Plan, Goto, End, UpdateSteps
<1>8. CASE DeleteVM
  <2>1. CASE Succeeds(Remove) /\ (step' = "idle" \/ step' = "new")
    BY <1>2, <2>1 DEF UpdateSteps
  <2> QED
    BY <1>5, <1>8, <2>1 DEF DeleteVM, End, Goto
<1>9. CASE NewVM
  <2>1. CASE UNCHANGED st
    BY <1>0, <1>2, <1>9, <2>1 DEF NewVM, Creating
  <2> QED
    BY <1>5, <1>9, <2>1 DEF NewVM
<1>10. CASE MoveDevice
  BY <1>3, <1>5, <1>10 DEF MoveDevice
<1>11. CASE DevicesMoved
  BY <1>3, <1>11 DEF DevicesMoved, Goto, UpdateSteps
<1>12. CASE OrderBoot
  BY <1>3, <1>5, <1>12 DEF OrderBoot, UpdateSteps
<1>13. CASE ChangeSettings
  <2>1. CASE UNCHANGED st
    BY <1>3, <1>13, <2>1 DEF ChangeSettings, UpdateSteps
  <2>2. CASE Store(vm', Creating)
    BY <1>2, <2>2 DEF Store, End, UpdateSteps
  <2> QED
    BY <1>5, <1>13, <2>1, <2>2 DEF ChangeSettings
<1>14. CASE Finish
  <2>1. CASE step' \in {"idle", "wait"}
    BY <1>2, <2>1 DEF UpdateSteps
  <2> QED
    BY <1>5, <1>14, <2>1 DEF Finish, Store, End, Goto
<1>15. CASE RefreshFails \/ GuestAnswers \/ WaitFails \/ WaitRefused
  <2>1. step' = "idle"
    BY <1>15 DEF RefreshFails, CallFails, GuestAnswers, WaitFails, WaitRefused, Store, End
  <2> QED
    BY <1>2, <2>1 DEF UpdateSteps
<1>16. CASE Edit \/ Interfere \/ Land \/ UNCHANGED vars
  BY <1>3, <1>16 DEF Edit, Interfere, Land, apply, vars
<1> QED
  BY <1>6, <1>7, <1>8, <1>9, <1>10, <1>11, <1>12, <1>13, <1>14, <1>15, <1>16
     DEF Next, ApplyStep

\* A place of a lasting entry has no device call.
LEMMA LastingStays ==
    ASSUME StateBootable, step \in UpdateSteps, ~Creating, st.boot = cfg.boot,
           NEW p \in Places, Detach(p) \in Diff \/ Attach(p, cfg.at[p]) \in Diff
    PROVE  p \notin Lasting
<1> SUFFICES ASSUME p \in Lasting
             PROVE  FALSE
  OBVIOUS
<1>1. st.at[p] # Empty
  BY DEF Lasting, Entries, StateBootable
<1>2. st.at[p] = cfg.at[p]
  BY <1>1 DEF Lasting, Replaced
<1> QED
  BY <1>1, <1>2, InDiff DEF Had

\* A device call leaves the order of the lasting entries.
LEMMA LastingMoved ==
    ASSUME TypeOK, OrderInv, NEW c \in First, step = "devices", ~twin, Succeeds(c),
           ~Creating, st.boot = cfg.boot
    PROVE  Among(vm'.boot, Lasting) = Among(vm.boot, Lasting)
<1>1. c \in todo /\ c.do \in {"attach", "detach"}
  BY DEF First, TypeOK, DeviceCalls
<1>2. vm # NoVm /\ vm.boot \in Seq(Places)
  BY <1>1 DEF Succeeds, Happens, Accepts, TypeOK, Machines
<1>3. c \in Diff
  BY <1>1, <1>2 DEF OrderInv, SyncInv, ProgressInv, Progress, Matched
<1>4. PICK p \in Places : c = Detach(p) \/ c = Attach(p, cfg.at[p])
  BY <1>3, DiffMembers
<1>5. p \notin Lasting /\ c.at = p
  <2>1. Detach(p) \in Diff \/ Attach(p, cfg.at[p]) \in Diff
    BY <1>3, <1>4
  <2>2. StateBootable /\ step \in UpdateSteps
    BY DEF OrderInv, UpdateSteps
  <2>3. p \notin Lasting
    BY <2>1, <2>2, LastingStays
  <2> QED
    BY <1>4, <2>3 DEF Attach, Detach
<1>6. CASE c.do = "attach"
  <2>1. vm'.boot = Append(vm.boot, p)
    BY <1>5, <1>6 DEF Succeeds, Happens, Attached
  <2> QED
    BY <1>2, <1>5, <2>1, AmongAppend
<1>7. CASE c.do = "detach"
  <2>1. vm'.boot = Among(vm.boot, Places \ {p})
    BY <1>5, <1>7 DEF Succeeds, Happens, Detached, Without
  <2>2. Among(vm'.boot, Lasting) = Among(vm.boot, (Places \ {p}) \cap Lasting)
    BY <1>2, <2>1, AmongAmong
  <2>3. \A k \in DOMAIN vm.boot : vm.boot[k] \in (Places \ {p}) \cap Lasting <=> vm.boot[k] \in Lasting
    BY <1>2, <1>5
  <2> QED
    BY <1>2, <2>2, <2>3, AmongSame
<1> QED
  BY <1>1, <1>6, <1>7

\* An update that does not set the order again goes by the one it has read.
LEMMA LastingRead ==
    ASSUME TypeOK, SyncInv, step = "plan", ~Creating, cfg # NoConfig, st.boot = cfg.boot
    PROVE  Among(vm.boot, Lasting) = Among(cfg.boot, Lasting)
<1>1. vm # NoVm /\ cfg.boot = Kept(vm.boot, cfg.boot)
  BY DEF SyncInv, Synced
<1>2. vm.boot \in Seq(Places)
  BY <1>1 DEF TypeOK, Machines
<1>3. cfg.boot = Among(vm.boot, Entries(cfg.boot))
  BY <1>1 DEF Kept
<1> DEFINE E == Entries(cfg.boot)
           L == Lasting
<1>4. E \cap L = L
  BY DEF Lasting
<1> HIDE DEF E, L
<1>5. Among(Among(vm.boot, E), L) = Among(vm.boot, E \cap L)
  BY <1>2, AmongAmong
<1>6. Among(cfg.boot, L) = Among(vm.boot, L)
  BY <1>3, <1>4, <1>5 DEF E
<1> QED
  BY <1>6 DEF L

\* The order that was set is the one that is read.
LEMMA KeptAll ==
    ASSUME NEW order \in Seq(Places)
    PROVE  Kept(order, order) = order
  BY AmongAll DEF Kept, Entries

\* Once the order is set, no later step disturbs it.
LEMMA StaysOrdered ==
    ASSUME TypeOK, TypeOK', Ordered, cfg # NoConfig, UNCHANGED <<cfg, twin>>,
           step \in {"settings", "final"}, vm # NoVm, vm' # NoVm, vm'.boot = vm.boot,
           (step' = "final" /\ UNCHANGED st) \/ (step' = "wait" /\ Creating)
    PROVE  Ordered'
<1> SUFFICES ASSUME ~twin'
             PROVE  /\ step' = "final" => (Kept(vm.boot, cfg.boot) = cfg.boot)' \/ LastingOrdered'
                    /\ step' = "wait" => (Kept(vm.boot, cfg.boot) = cfg.boot)'
  BY DEF Ordered
<1>1. Kept(vm.boot, cfg.boot) = cfg.boot \/ LastingOrdered
  BY DEF Ordered
<1>2. Kept(vm.boot, cfg.boot)' = Kept(vm'.boot, cfg.boot)
  BY DEF Kept, Among, Entries
<1>3. CASE Kept(vm.boot, cfg.boot) = cfg.boot
  BY <1>2, <1>3
<1>4. CASE LastingOrdered
  <2>1. ~Creating /\ st.boot = cfg.boot /\ Among(vm.boot, Lasting) = Among(cfg.boot, Lasting)
    BY <1>4 DEF LastingOrdered
  <2>2. step' = "final" /\ UNCHANGED st
    BY <2>1
  <2>3. Among(vm.boot, Lasting)' = Among(vm'.boot, Lasting)
    BY <2>2 DEF Among, Lasting, Entries, Replaced
  <2>4. Among(cfg.boot, Lasting)' = Among(cfg.boot, Lasting)
    BY <2>2 DEF Among, Lasting, Entries, Replaced
  <2>5. LastingOrdered'
    BY <2>1, <2>2, <2>3, <2>4 DEF LastingOrdered, Creating
  <2> QED
    BY <2>2, <2>5
<1> QED
  BY <1>1, <1>3, <1>4

LEMMA OrderedStep ==
    ASSUME ~LateEffects, ~Meddling, OrderInv, TypeOK', [Next]_vars
    PROVE  Ordered'
<1>0. TypeOK /\ ProgressInv /\ SyncInv
  BY DEF OrderInv, SyncInv, ProgressInv, TypeInv
<1>1. CASE step' \notin {"devices", "boot", "settings", "final", "wait"}
  BY <1>1 DEF Ordered
<1>2. ASSUME UNCHANGED <<cfg, st, vm, twin, step>>
      PROVE  Ordered'
  BY <1>2 DEF OrderInv, Ordered, LastingOrdered, Lasting, Replaced, Creating, Kept, Entries, Among
<1>3. CASE Plan /\ step' = "devices"
  <2>1. step = "plan" /\ ~Creating /\ cfg # NoConfig /\ UNCHANGED <<cfg, st, vm, twin>>
    BY <1>3 DEF Plan, Goto, End, host
  <2>2. st.boot = cfg.boot => Among(vm.boot, Lasting) = Among(cfg.boot, Lasting)
    BY <1>0, <2>1, LastingRead
  <2>3. Among(vm.boot, Lasting)' = Among(vm.boot, Lasting) /\ Among(cfg.boot, Lasting)' = Among(cfg.boot, Lasting)
    BY <2>1 DEF Among, Lasting, Entries, Replaced
  <2> QED
    BY <1>3, <2>1, <2>2, <2>3 DEF Ordered, LastingOrdered, Creating
<1>4. CASE NewVM /\ step' = "devices"
  <2>1. Creating'
    BY <1>0, <1>4 DEF NewVM, Refused, CallFails, End, ProgressInv, Creating
  <2> QED
    BY <1>4, <2>1 DEF Ordered
<1>5. CASE MoveDevice /\ step' = "devices"
  <2>1. PICK c \in First :
            /\ Succeeds(c) \/ Tolerated(c)
            /\ UNCHANGED <<cfg, st, step>>
    BY <1>5 DEF MoveDevice, Refused, CallFails, End
  <2>2. step = "devices" /\ c.do \in {"attach", "detach"} /\ ~twin
    BY <1>0, <1>5, <2>1 DEF MoveDevice, First, TypeOK, DeviceCalls, Succeeds, Tolerated
  <2>3. CASE Tolerated(c)
    BY <1>2, <2>1, <2>3 DEF Tolerated, host
  <2>4. CASE Succeeds(c)
    <3>1. vm # NoVm
      BY <2>2, <2>4 DEF Succeeds, Happens, Accepts
    <3> SUFFICES ASSUME ~Creating, st.boot = cfg.boot
                 PROVE  Among(vm.boot, Lasting)' = Among(cfg.boot, Lasting)'
      BY <2>1, <2>2 DEF Ordered, LastingOrdered, Creating
    <3>2. Among(vm'.boot, Lasting) = Among(vm.boot, Lasting)
      BY <1>0, <2>2, <2>4, LastingMoved
    <3>3. Among(vm.boot, Lasting) = Among(cfg.boot, Lasting)
      BY <2>2, <3>1 DEF OrderInv, Ordered, LastingOrdered
    <3>4. Among(vm.boot, Lasting)' = Among(vm'.boot, Lasting) /\ Among(cfg.boot, Lasting)' = Among(cfg.boot, Lasting)
      BY <2>1 DEF Among, Lasting, Entries, Replaced
    <3> QED
      BY <3>2, <3>3, <3>4
  <2> QED
    BY <2>1, <2>3, <2>4
<1>6. CASE DevicesMoved
  <2>1. step = "devices" /\ step' = "boot" /\ UNCHANGED <<cfg, st, vm, twin>>
    BY <1>6 DEF DevicesMoved, Goto, host
  <2> QED
    BY <2>1 DEF OrderInv, Ordered, LastingOrdered, Lasting, Replaced, Creating, Entries, Among
<1>7. CASE OrderBoot /\ step' = "settings"
  <2>0. step = "boot" /\ cfg # NoConfig /\ UNCHANGED <<cfg, st>> /\ cfg.boot \in Seq(Places)
    BY <1>0, <1>7, ConfigType
       DEF OrderBoot, TypeOK, UpdateSteps, Goto, Refused, CallFails, End
  <2>1. CASE BootChanged
    <3>1. Succeeds(SetBootOrder(cfg.boot))
      BY <1>7, <2>1 DEF OrderBoot, Refused, CallFails, End
    <3>2. vm' = Booting(vm, cfg.boot)
      BY <3>1 DEF Succeeds, Happens, SetBootOrder
    <3>3. vm'.boot = cfg.boot
      BY <3>2 DEF Booting
    <3>4. Kept(vm'.boot, cfg.boot) = cfg.boot
      BY <2>0, <3>3, KeptAll
    <3>5. Kept(vm.boot, cfg.boot)' = Kept(vm'.boot, cfg.boot)
      BY <2>0 DEF Kept, Among, Entries
    <3> QED
      BY <1>7, <2>0, <3>4, <3>5 DEF Ordered
  <2>2. CASE ~BootChanged
    <3>1. UNCHANGED <<vm, twin>>
      BY <1>7, <2>2 DEF OrderBoot, host
    <3>2. Kept(vm.boot, cfg.boot)' = Kept(vm.boot, cfg.boot) /\ (LastingOrdered' <=> LastingOrdered)
      BY <2>0, <3>1 DEF Kept, Among, Entries, LastingOrdered, Lasting, Replaced, Creating
    <3>3. CASE cfg.boot = <<>>
      <4>1. vm # NoVm => vm.boot \in Seq(Places)
        BY <1>0 DEF TypeOK, Machines
      <4>2. vm # NoVm => Kept(vm.boot, cfg.boot) = cfg.boot
        BY <3>3, <4>1, KeptNothing
      <4> QED
        BY <1>7, <2>0, <3>1, <3>2, <4>2 DEF Ordered
    <3>4. CASE ~Creating /\ cfg.boot = st.boot
      BY <1>7, <2>0, <3>1, <3>2, <3>4 DEF OrderInv, Ordered
    <3> QED
      BY <2>2, <3>3, <3>4 DEF BootChanged
  <2> QED
    BY <2>1, <2>2
<1>9. CASE ChangeSettings /\ step' = "final"
  <2>1. /\ step = "settings" /\ cfg # NoConfig /\ UNCHANGED <<cfg, st>>
        /\ UNCHANGED host \/ Succeeds(SetVM(Changed, cfg.settings))
    BY <1>0, <1>9 DEF ChangeSettings, Refused, CallFails, End, Goto, Store, TypeOK, UpdateSteps
  <2> SUFFICES ASSUME ~twin', vm' # NoVm
               PROVE  Ordered'
    BY DEF Ordered
  <2>2. UNCHANGED twin /\ vm # NoVm /\ vm'.boot = vm.boot
    <3>1. CASE UNCHANGED host
      BY <3>1 DEF host
    <3>2. CASE Succeeds(SetVM(Changed, cfg.settings))
      <4>1. vm' = Having(vm, Changed, cfg.settings) /\ vm # NoVm /\ twin' = twin
        BY <1>0, <3>2 DEF Succeeds, Happens, Accepts, SetVM, TypeOK
      <4> QED
        BY <4>1 DEF Having
    <3> QED
      BY <2>1, <3>1, <3>2
  <2> QED
    BY <1>0, <1>9, <2>1, <2>2, StaysOrdered DEF OrderInv
<1>10. CASE Finish /\ step' = "wait"
  <2>1. /\ step = "final" /\ cfg # NoConfig /\ Creating /\ UNCHANGED cfg
        /\ Succeeds(FinalCall)
    BY <1>0, <1>10 DEF Finish, Refused, CallFails, End, Store, TypeOK, UpdateSteps
  <2>2. FinalCall.do \in {"power", "get"}
    BY DEF FinalCall, SetVMState, GetVM
  <2>3. /\ twin' = twin /\ vm # NoVm
        /\ vm' = vm \/ vm' = Powered(vm, FinalCall.with)
    BY <1>0, <2>1, <2>2 DEF Succeeds, Happens, Accepts, TypeOK
  <2>4. vm'.boot = vm.boot
    BY <2>3 DEF Powered
  <2> SUFFICES ASSUME vm' # NoVm
               PROVE  Ordered'
    BY DEF Ordered
  <2> QED
    BY <1>0, <1>10, <2>1, <2>3, <2>4, StaysOrdered DEF OrderInv
<1>11. CASE step = "idle" /\ UNCHANGED step
  BY <1>1, <1>11
<1> QED
  <2>1. CASE UNCHANGED vars
    BY <1>2, <2>1 DEF vars, host, apply
  <2>2. CASE Edit \/ Interfere \/ Land
    BY <1>0, <1>11, <2>2 DEF Edit, Interfere, Land, apply, ProgressInv
  <2>3. CASE Refresh \/ RefreshFails \/ Plan \/ DeleteVM
    BY <1>1, <1>3, <2>3 DEF Refresh, RefreshFails, Plan, DeleteVM, Goto, End, Refused, CallFails
  <2>4. CASE NewVM \/ MoveDevice \/ DevicesMoved \/ OrderBoot
    BY <1>1, <1>4, <1>5, <1>6, <1>7, <2>4
       DEF NewVM, MoveDevice, DevicesMoved, OrderBoot, Goto, End, Refused, CallFails
  <2>5. CASE ChangeSettings \/ Finish
    BY <1>1, <1>9, <1>10, <2>5 DEF ChangeSettings, Finish, Goto, End, Store, Refused, CallFails
  <2>6. CASE GuestAnswers \/ WaitFails \/ WaitRefused
    BY <1>1, <2>6 DEF GuestAnswers, WaitFails, WaitRefused, Store, End
  <2> QED
    BY <2>1, <2>2, <2>3, <2>4, <2>5, <2>6 DEF Next, ApplyStep

LEMMA OrderInvariant ==
    ASSUME ~LateEffects, ~Meddling
    PROVE  Spec => []OrderInv
<1>1. Init => Bootable /\ StateBootable /\ Ordered
  BY DEF Init, Bootable, StateBootable, Ordered, Creating
<1>2. SyncInv /\ SyncInv' /\ Bootable /\ StateBootable /\ Ordered /\ [Next]_vars
          => Bootable' /\ StateBootable' /\ Ordered'
  <2> SUFFICES ASSUME SyncInv, SyncInv', Bootable, StateBootable, Ordered, [Next]_vars
               PROVE  Bootable' /\ StateBootable' /\ Ordered'
    OBVIOUS
  <2>1. TypeInv /\ late = NoCall /\ ProgressInv /\ TypeOK'
    BY DEF SyncInv, ProgressInv, TypeInv
  <2>2. OrderInv
    BY DEF OrderInv
  <2> QED
    BY <2>1, <2>2, BootableStep, StateBootableStep, OrderedStep DEF SyncInv
<1>3. SyncInv /\ Bootable /\ StateBootable /\ Ordered => OrderInv
  BY DEF OrderInv
<1> QED
  BY <1>1, <1>2, <1>3, SyncInvariant, PTL DEF Spec

\* Where an apply ends with what was not planned, it is a replaced device's
\* place in the boot order that was lost.
LEMMA OnlyPlaceLost ==
    ASSUME ~LateEffects, OrderInv, ApplyStep, TypeOK', step # "idle", step' = "idle",
           result' = "inconsistent"
    PROVE  PlaceLost
<1>0. TypeOK /\ SyncInv
  BY DEF OrderInv, SyncInv, ProgressInv, TypeInv
<1>1. Unplanned
  BY <1>0, AnswerTrue
<1>2. /\ step \in {"settings", "final", "wait"} /\ cfg # NoConfig /\ UNCHANGED cfg
      /\ vm # NoVm /\ ~twin /\ vm'.boot = vm.boot
  <2>1. CASE ChangeSettings
    <3>1. step = "settings" /\ UNCHANGED cfg /\ Succeeds(SetVM(Changed, cfg.settings))
      BY <2>1 DEF ChangeSettings, Refused, CallFails, End, Goto
    <3>2. ~twin /\ vm # NoVm /\ vm' = Having(vm, Changed, cfg.settings)
      BY <1>0, <3>1 DEF Succeeds, Happens, Accepts, SetVM, TypeOK
    <3> QED
      BY <1>0, <3>1, <3>2 DEF Having, TypeOK, UpdateSteps
  <2>2. CASE Finish
    <3>1. step = "final" /\ UNCHANGED cfg /\ Succeeds(FinalCall)
      BY <2>2 DEF Finish, Refused, CallFails, End, Goto
    <3>2. FinalCall.do \in {"power", "get"}
      BY DEF FinalCall, SetVMState, GetVM
    <3>3. ~twin /\ vm # NoVm /\ (vm' = vm \/ \E power : vm' = Powered(vm, power))
      BY <1>0, <3>1, <3>2 DEF Succeeds, Happens, Accepts, TypeOK
    <3> QED
      BY <1>0, <3>1, <3>3 DEF Powered, TypeOK, UpdateSteps
  <2>3. CASE GuestAnswers
    BY <1>0, <2>3 DEF GuestAnswers, host, TypeOK
  <2>4. CASE Refresh \/ RefreshFails \/ Plan \/ DeleteVM \/ WaitFails \/ WaitRefused
    BY <2>4 DEF Refresh, RefreshFails, Plan, DeleteVM, WaitFails, WaitRefused, End, Goto,
                Refused, CallFails
  <2>5. CASE NewVM \/ MoveDevice \/ DevicesMoved \/ OrderBoot
    BY <2>5 DEF NewVM, MoveDevice, DevicesMoved, OrderBoot, Refused, CallFails, End, Goto
  <2> QED
    BY <2>1, <2>2, <2>3, <2>4, <2>5 DEF ApplyStep
<1>3. st'.boot = Kept(vm.boot, cfg.boot) /\ Kept(vm.boot, cfg.boot) # cfg.boot
  BY <1>1, <1>2 DEF Unplanned
<1>4. ~Creating /\ st.boot = cfg.boot /\ Among(vm.boot, Lasting) = Among(cfg.boot, Lasting)
  BY <1>2, <1>3 DEF OrderInv, Ordered, LastingOrdered
<1>5. cfg.boot \in Seq(Places) /\ vm.boot \in Seq(Places)
  BY <1>0, <1>2, ConfigType DEF TypeOK, Machines
<1> DEFINE E == Entries(cfg.boot)
           L == Lasting
           rest == Places \ Replaced
<1>6. /\ E \cap rest = L
      /\ \A k \in DOMAIN cfg.boot : cfg.boot[k] \in L <=> cfg.boot[k] \in rest
      /\ \A k \in DOMAIN cfg.boot : cfg.boot[k] \in E
      /\ E \cap Replaced = {} => L = E
  BY <1>5 DEF Lasting, Entries
<1>7. st'.boot = Among(vm.boot, E)
  BY <1>3 DEF Kept
<1> HIDE DEF E, L, rest
<1>8. Among(st'.boot, rest) = Among(vm.boot, L)
  BY <1>5, <1>6, <1>7, AmongAmong
<1>9. Among(cfg.boot, L) = Among(cfg.boot, rest)
  BY <1>5, <1>6, AmongSame
<1>10. E \cap Replaced # {}
  <2> SUFFICES ASSUME L = E
               PROVE  FALSE
    BY <1>6
  <2>1. Among(cfg.boot, E) = cfg.boot
    BY <1>5, <1>6, AmongAll
  <2> QED
    BY <1>3, <1>4, <1>7, <2>1 DEF L
<1>11. Among(st'.boot, rest) = Among(cfg.boot, rest)
  BY <1>4, <1>8, <1>9 DEF L
<1> QED
  BY <1>1, <1>4, <1>10, <1>11 DEF PlaceLost, Unplanned, E, rest

\* What an apply returns is what was planned, but for one case: an update that
\* replaced a device named in an unchanged boot order has moved its entry; the
\* devices and settings, and the order of the other entries, are the
\* configuration's even then (Create, Update).
THEOREM PlansReturned ==
    ASSUME ~LateEffects, ~Meddling
    PROVE  Spec => NeverInconsistent
<1>1. ASSUME OrderInv, TypeOK', [Next]_vars
      PROVE  [step # "idle" /\ step' = "idle" /\ result' = "inconsistent" => PlaceLost]_vars
  BY <1>1, OnlyPlaceLost DEF Next, Edit, Interfere, Land, apply
<1> QED
  BY <1>1, OrderInvariant, SyncInvariant, PTL DEF Spec, NeverInconsistent

=============================================================================
