--------------------------- MODULE ProductProofs ---------------------------
(***************************************************************************)
(* Proofs about Products, for documents of any size: validation accepts    *)
(* exactly the complete products, and two products have one hash exactly   *)
(* when their contents are the same.                                       *)
(***************************************************************************)
EXTENDS Products, FiniteSetTheorems, TLAPS

(* Induction on the naturals, for a set instead of a predicate. *)
LEMMA SetInduction ==
    ASSUME NEW T, 0 \in T, \A n \in Nat : n \in T => n + 1 \in T
    PROVE  \A n \in Nat : n \in T
<1> SUFFICES ASSUME Nat \ T # {} PROVE FALSE
  OBVIOUS
<1> DEFINE less == OpToRel(<, Nat)
<1>1. IsWellFoundedOn(less, Nat)
  BY NatLessThanWellFounded
<1>2. \A a, b \in Nat : <<a, b>> \in less <=> a < b
  BY DEF OpToRel
<1> HIDE DEF less
<1>3. PICK m \in Nat \ T : \A y \in Nat \ T : ~(<<y, m>> \in less)
  BY <1>1, WFMin
<1>4. \A y \in Nat \ T : ~(y < m)
  BY <1>2, <1>3
<1>5. m # 0 /\ m - 1 \in Nat /\ (m - 1) + 1 = m
  OBVIOUS
<1>6. m - 1 \in T
  BY <1>4, <1>5
<1> QED
  BY <1>5, <1>6

(* A set of naturals has a least element. *)
LEMMA Least ==
    ASSUME NEW T, T \subseteq Nat, T # {}
    PROVE  \E m \in T : \A n \in T : m <= n
<1> DEFINE less == OpToRel(<, Nat)
<1>1. IsWellFoundedOn(less, Nat)
  BY NatLessThanWellFounded
<1>2. \A a, b \in Nat : <<a, b>> \in less <=> a < b
  BY DEF OpToRel
<1> HIDE DEF less
<1>3. PICK m \in T : \A n \in T : ~(<<n, m>> \in less)
  BY <1>1, WFMin
<1>4. ASSUME NEW n \in T PROVE m <= n
  <2>1. m \in Nat /\ n \in Nat /\ ~(n < m)
    BY <1>2, <1>3
  <2> QED
    BY <2>1
<1> QED
  BY <1>4
-----------------------------------------------------------------------------
(* g is what the scan of the first n characters goes through. *)
Scans(s, n, g) ==
    g = [i \in 0 .. n |-> IF i = 0 THEN ScanStart ELSE ScanCharacter(g[i - 1], s[i])]

LEMMA ScanExists ==
    ASSUME NEW s
    PROVE  \A n \in Nat : \E g : Scans(s, n, g)
<1> DEFINE T == {n \in Nat : \E g : Scans(s, n, g)}
<1>1. 0 \in T
  <2>1. Scans(s, 0, [i \in 0 .. 0 |-> ScanStart])
    BY DEF Scans
  <2> QED
    BY <2>1
<1>2. ASSUME NEW n \in Nat, n \in T PROVE n + 1 \in T
  <2>1. PICK g : Scans(s, n, g)
    BY <1>2
  <2> DEFINE h == [i \in 0 .. n + 1 |-> IF i = n + 1 THEN ScanCharacter(g[n], s[n + 1]) ELSE g[i]]
  <2>2. \A i \in 0 .. n : g[i] = IF i = 0 THEN ScanStart ELSE ScanCharacter(g[i - 1], s[i])
    BY <2>1 DEF Scans
  <2>3. \A i \in 0 .. n + 1 : h[i] = IF i = 0 THEN ScanStart ELSE ScanCharacter(h[i - 1], s[i])
    <3>1. \A i \in 0 .. n + 1 : h[i] = IF i = n + 1 THEN ScanCharacter(g[n], s[n + 1]) ELSE g[i]
      OBVIOUS
    <3> HIDE DEF h
    <3> QED
      BY <2>2, <3>1
  <2>4. Scans(s, n + 1, h)
    BY <2>3 DEF Scans
  <2> QED
    BY <2>4
<1> HIDE DEF T
<1>3. \A n \in Nat : n \in T
  BY <1>1, <1>2, SetInduction
<1> QED
  BY <1>3 DEF T

LEMMA ScanUnfolds ==
    ASSUME NEW s, Len(s) \in Nat
    PROVE  \E g : Scans(s, Len(s), g) /\ Scan(s) = g[Len(s)]
<1>1. \E g : Scans(s, Len(s), g)
  BY ScanExists
<1> DEFINE c == CHOOSE g : g = [n \in 0 .. Len(s) |->
                              IF n = 0 THEN ScanStart ELSE ScanCharacter(g[n - 1], s[n])]
<1>2. Scan(s) = c[Len(s)]
  BY DEF Scan
<1>3. Scans(s, Len(s), c)
  BY <1>1 DEF Scans
<1> HIDE DEF c
<1> QED
  BY <1>2, <1>3

(* The first n characters are digits with at most one point. *)
Numeric(s, n) ==
    /\ \A i \in 1 .. n : s[i] \in Digits \cup {Dot}
    /\ \A i, j \in 1 .. n : s[i] = Dot /\ s[j] = Dot => i = j

(* What the scan knows after n characters. *)
ScanKnows(s, n, scan) ==
    /\ scan.ok \in BOOLEAN /\ scan.dot \in Nat /\ scan.digit \in Nat
    /\ scan = [ok |-> scan.ok, dot |-> scan.dot, digit |-> scan.digit]
    /\ scan.ok <=> Numeric(s, n)
    /\ scan.ok => /\ scan.dot = 0 <=> \A i \in 1 .. n : s[i] # Dot
                  /\ scan.digit = 0 <=> \A i \in 1 .. n : s[i] \notin Digits

LEMMA ScanInvariant ==
    ASSUME NEW s, NEW N \in Nat, NEW g, Scans(s, N, g)
    PROVE  \A n \in 0 .. N : ScanKnows(s, n, g[n])
<1> DEFINE T == {n \in Nat : n <= N => ScanKnows(s, n, g[n])}
<1>0. \A i \in 0 .. N : g[i] = IF i = 0 THEN ScanStart ELSE ScanCharacter(g[i - 1], s[i])
  BY DEF Scans
<1>1. 0 \in T
  <2>1. g[0] = ScanStart
    BY <1>0
  <2>2. /\ ScanStart.ok = TRUE /\ ScanStart.dot = 0 /\ ScanStart.digit = 0
        /\ ScanStart = [ok |-> TRUE, dot |-> 0, digit |-> 0]
    BY DEF ScanStart
  <2>3. Numeric(s, 0)
    BY DEF Numeric
  <2>4. ScanKnows(s, 0, ScanStart)
    BY <2>2, <2>3 DEF ScanKnows
  <2> QED
    BY <2>1, <2>4
<1>2. ASSUME NEW n \in Nat, n \in T PROVE n + 1 \in T
  <2> SUFFICES ASSUME n + 1 <= N PROVE ScanKnows(s, n + 1, g[n + 1])
    OBVIOUS
  <2>1. ScanKnows(s, n, g[n])
    BY <1>2
  <2>2. g[n + 1] = ScanCharacter(g[n], s[n + 1])
    BY <1>0
  <2> HIDE DEF T
  <2> DEFINE old == g[n]
             ch == s[n + 1]
  <2>3. /\ old.ok \in BOOLEAN /\ old.dot \in Nat /\ old.digit \in Nat
        /\ old = [ok |-> old.ok, dot |-> old.dot, digit |-> old.digit]
    BY <2>1 DEF ScanKnows
  <2>a. \A i \in 1 .. n + 1 : i \in 1 .. n \/ i = n + 1
    OBVIOUS
  <2>4. CASE ~old.ok
    <3>1. ~Numeric(s, n + 1)
      BY <2>1, <2>4 DEF ScanKnows, Numeric
    <3> QED
      BY <2>1, <2>2, <2>4, <3>1 DEF ScanKnows, ScanCharacter
  <2>5. CASE old.ok /\ ch = Dot
    <3>1. g[n + 1] = [ok |-> old.dot = 0, dot |-> old.dot + 1, digit |-> old.digit]
      BY <2>2, <2>3, <2>5 DEF ScanCharacter
    <3>2. Dot \notin Digits
      BY DEF Dot, Digits
    <3>3. Numeric(s, n) /\ (old.dot = 0 <=> \A i \in 1 .. n : s[i] # Dot)
          /\ (old.digit = 0 <=> \A i \in 1 .. n : s[i] \notin Digits)
      BY <2>1, <2>5 DEF ScanKnows
    <3>4. Numeric(s, n + 1) <=> old.dot = 0
      BY <2>a, <2>5, <3>3 DEF Numeric
    <3>5. (\A i \in 1 .. n + 1 : s[i] \notin Digits) <=> old.digit = 0
      BY <2>5, <2>a, <3>2, <3>3
    <3>6. ~(\A i \in 1 .. n + 1 : s[i] # Dot) /\ old.dot + 1 # 0
      BY <2>3, <2>5
    <3>7. CASE old.dot = 0
      <4>1. g[n + 1] = [ok |-> TRUE, dot |-> old.dot + 1, digit |-> old.digit]
        BY <3>1, <3>7
      <4> HIDE DEF old, ch
      <4> QED
        BY <2>3, <3>4, <3>5, <3>6, <3>7, <4>1 DEF ScanKnows
    <3>8. CASE old.dot # 0
      <4>1. g[n + 1] = [ok |-> FALSE, dot |-> old.dot + 1, digit |-> old.digit]
        BY <3>1, <3>8
      <4> HIDE DEF old, ch
      <4> QED
        BY <2>3, <3>4, <3>8, <4>1 DEF ScanKnows
    <3> QED
      BY <3>7, <3>8
  <2>6. CASE old.ok /\ ch # Dot /\ ch \in Digits
    <3>1. g[n + 1] = [ok |-> TRUE, dot |-> old.dot, digit |-> old.digit + 1]
      BY <2>2, <2>3, <2>6 DEF ScanCharacter
    <3>3. Numeric(s, n) /\ (old.dot = 0 <=> \A i \in 1 .. n : s[i] # Dot)
      BY <2>1, <2>6 DEF ScanKnows
    <3>4. Numeric(s, n + 1)
      BY <2>a, <2>6, <3>3 DEF Numeric
    <3> QED
      BY <2>3, <2>6, <2>a, <3>1, <3>3, <3>4 DEF ScanKnows
  <2>7. CASE old.ok /\ ch # Dot /\ ch \notin Digits
    <3>1. g[n + 1] = [ok |-> FALSE, dot |-> old.dot, digit |-> old.digit]
      BY <2>2, <2>3, <2>7 DEF ScanCharacter
    <3>2. ~Numeric(s, n + 1)
      BY <2>7 DEF Numeric
    <3> QED
      BY <2>3, <3>1, <3>2 DEF ScanKnows
  <2> QED
    BY <2>4, <2>5, <2>6, <2>7
<1> HIDE DEF T
<1>3. \A n \in Nat : n \in T
  BY <1>1, <1>2, SetInduction
<1> QED
  BY <1>3 DEF T

(* looksLikeDecimal accepts exactly the decimals, however long they are:   *)
(* its loop is compared with a definition that does not scan.              *)
THEOREM DecimalExact ==
    ASSUME NEW s \in Text
    PROVE  LooksLikeDecimal(s) <=> IsDecimal(s)
<1>0. Len(s) \in Nat /\ DOMAIN s = 1 .. Len(s) /\ (s = <<>> <=> Len(s) = 0)
  BY DEF Text
<1>1. PICK g : Scans(s, Len(s), g) /\ Scan(s) = g[Len(s)]
  BY <1>0, ScanUnfolds
<1>2. ScanKnows(s, Len(s), Scan(s))
  BY <1>0, <1>1, ScanInvariant
<1>3. IsDecimal(s) <=> s # <<>> /\ s # <<Dot>> /\ Numeric(s, Len(s))
  BY <1>0 DEF IsDecimal, Numeric
<1>4. LooksLikeDecimal(s) <=> Numeric(s, Len(s)) /\ \E i \in 1 .. Len(s) : s[i] \in Digits
  BY <1>2 DEF LooksLikeDecimal, ScanKnows
<1>5. Dot \notin Digits
  BY DEF Dot, Digits
<1>6. ASSUME Numeric(s, Len(s)), s # <<>>, s # <<Dot>>
      PROVE  \E i \in 1 .. Len(s) : s[i] \in Digits
  <2>1. CASE s[1] # Dot
    BY <1>0, <1>6, <2>1 DEF Numeric
  <2>2. CASE s[1] = Dot
    <3>1. Len(s) # 1
      BY <1>0, <1>6, <2>2 DEF Text
    <3>2. 1 \in 1 .. Len(s) /\ 2 \in 1 .. Len(s)
      BY <1>0, <1>6, <3>1
    <3> QED
      BY <1>6, <2>2, <3>2 DEF Numeric
  <2> QED
    BY <2>1, <2>2
<1>7. ASSUME \E i \in 1 .. Len(s) : s[i] \in Digits
      PROVE  s # <<>> /\ s # <<Dot>>
  <2>1. Len(<<Dot>>) = 1 /\ <<Dot>>[1] = Dot
    OBVIOUS
  <2> QED
    BY <1>0, <1>5, <1>7, <2>1
<1> QED
  BY <1>3, <1>4, <1>6, <1>7
-----------------------------------------------------------------------------
(* What the members of a struct leave in one of its fields, member by      *)
(* member.                                                                 *)
FieldStep(v, field, before, g, n) ==
    IF n = 0 THEN before
    ELSE LET m == Members(v)[n]
         IN  IF IsFor(m, field) /\ m[2].t = "string" THEN m[2].s ELSE g[n - 1]

Fills(v, field, before, n, g) == g = [i \in 0 .. n |-> FieldStep(v, field, before, g, i)]

LEMMA FieldExists ==
    ASSUME NEW v, NEW field, NEW before
    PROVE  \A n \in Nat : \E g : Fills(v, field, before, n, g)
<1> DEFINE T == {n \in Nat : \E g : Fills(v, field, before, n, g)}
           S(g, i) == FieldStep(v, field, before, g, i)
<1>0. /\ \A g : S(g, 0) = before
      /\ \A g, h : \A i \in Nat \ {0} : g[i - 1] = h[i - 1] => S(g, i) = S(h, i)
  BY DEF FieldStep
<1>1. 0 \in T
  <2> DEFINE g == [i \in 0 .. 0 |-> before]
  <2>1. g = [i \in 0 .. 0 |-> S(g, i)]
    <3>1. \A i \in 0 .. 0 : S(g, i) = before
      BY <1>0
    <3> QED
      BY <3>1
  <2>2. Fills(v, field, before, 0, g)
    BY <2>1 DEF Fills
  <2> QED
    BY <2>2
<1>2. ASSUME NEW n \in Nat, n \in T PROVE n + 1 \in T
  <2>1. PICK g : Fills(v, field, before, n, g)
    BY <1>2
  <2> DEFINE h == [i \in 0 .. n + 1 |-> IF i = n + 1 THEN S(g, n + 1) ELSE g[i]]
  <2>2. \A i \in 0 .. n : g[i] = S(g, i)
    BY <2>1 DEF Fills
  <2>3. \A i \in 0 .. n + 1 : h[i] = S(h, i)
    <3>1. \A i \in 0 .. n + 1 : h[i] = IF i = n + 1 THEN S(g, n + 1) ELSE g[i]
      OBVIOUS
    <3> HIDE DEF h, S
    <3>2. \A i \in 0 .. n : h[i] = g[i]
      BY <3>1
    <3>3. \A i \in 1 .. n + 1 : i \in Nat \ {0} /\ i - 1 \in 0 .. n
      OBVIOUS
    <3>4. \A i \in 1 .. n + 1 : S(h, i) = S(g, i)
      BY <1>0, <3>2, <3>3
    <3>5. \A i \in 0 .. n + 1 : i = 0 \/ i \in 1 .. n + 1
      OBVIOUS
    <3> QED
      BY <1>0, <2>2, <3>1, <3>4, <3>5
  <2>4. h = [i \in 0 .. n + 1 |-> h[i]]
    OBVIOUS
  <2>5. Fills(v, field, before, n + 1, h)
    <3> HIDE DEF h
    <3> QED
      BY <2>3, <2>4 DEF Fills
  <2> QED
    BY <2>5
<1> HIDE DEF T
<1>3. \A n \in Nat : n \in T
  BY <1>1, <1>2, SetInduction
<1> QED
  BY <1>3 DEF T

(* The loop over the members ends with the last string given for the       *)
(* field, and without one with what was there before.                      *)
LEMMA FieldExact ==
    ASSUME NEW v, NEW field, NEW before, IsList(Members(v))
    PROVE  /\ ~Given(v, field) => DecodeField(v, field, before) = before
           /\ Given(v, field) => \E i \in DOMAIN Members(v) :
                 IsGiven(v, field, i) /\ DecodeField(v, field, before) = Members(v)[i][2].s
<1> DEFINE o == Members(v)
           N == Len(o)
           At(i) == IsStringFor(o[i], field)
<1>1. N \in Nat /\ DOMAIN o = 1 .. N
  BY DEF IsList
<1>2. PICK g : Fills(v, field, before, N, g) /\ DecodeField(v, field, before) = g[N]
  <2> DEFINE c == CHOOSE g : g = [n \in 0 .. N |->
                      IF n = 0 THEN before
                      ELSE LET m == Members(v)[n]
                           IN  IF IsFor(m, field) /\ m[2].t = "string" THEN m[2].s ELSE g[n - 1]]
  <2>1. DecodeField(v, field, before) = c[N]
    BY DEF DecodeField
  <2>2. \E g : Fills(v, field, before, N, g)
    BY <1>1, FieldExists
  <2>3. Fills(v, field, before, N, c)
    BY <2>2 DEF Fills, FieldStep
  <2> HIDE DEF c
  <2> QED
    BY <2>1, <2>3
<1>3. \A i \in 0 .. N : g[i] = FieldStep(v, field, before, g, i)
  BY <1>2 DEF Fills
<1>4. /\ g[0] = before
      /\ \A i \in 1 .. N : g[i] = IF At(i) THEN o[i][2].s ELSE g[i - 1]
  BY <1>1, <1>3 DEF FieldStep, IsStringFor
<1> DEFINE Knows(n) ==
               \/ g[n] = before /\ \A i \in 1 .. n : ~At(i)
               \/ \E i \in 1 .. n : At(i) /\ g[n] = o[i][2].s /\ \A j \in i + 1 .. n : ~At(j)
           T == {n \in Nat : n <= N => Knows(n)}
<1> HIDE DEF o, N, At
<1>5. 0 \in T
  BY <1>4
<1>6. ASSUME NEW n \in Nat, n \in T PROVE n + 1 \in T
  <2> SUFFICES ASSUME n + 1 <= N PROVE Knows(n + 1)
    OBVIOUS
  <2>1. Knows(n) /\ n + 1 \in 1 .. N /\ (n + 1) - 1 = n
    BY <1>1, <1>6
  <2>2. CASE At(n + 1)
    <3>1. g[n + 1] = o[n + 1][2].s
      BY <1>4, <2>1, <2>2
    <3>2. \A j \in (n + 1) + 1 .. n + 1 : FALSE
      OBVIOUS
    <3> QED
      BY <2>2, <3>1, <3>2
  <2>3. CASE ~At(n + 1)
    <3>1. g[n + 1] = g[n]
      BY <1>4, <2>1, <2>3
    <3>2. \A i \in 1 .. n + 1 : i \in 1 .. n \/ i = n + 1
      OBVIOUS
    <3>3. \A i \in 1 .. n : i \in 1 .. n + 1 /\ \A j \in i + 1 .. n + 1 : j \in i + 1 .. n \/ j = n + 1
      OBVIOUS
    <3> QED
      BY <2>1, <2>3, <3>1, <3>2, <3>3
  <2> QED
    BY <2>2, <2>3
<1>7. N \in T
  <2> HIDE DEF T
  <2>1. \A n \in Nat : n \in T
    BY <1>5, <1>6, SetInduction
  <2> QED
    BY <1>1, <2>1
<1>8. Knows(N)
  BY <1>1, <1>7
<1>9. Given(v, field) <=> \E i \in 1 .. N : At(i)
  BY <1>1 DEF Given, o, At
<1>10. \A i \in 1 .. N : At(i) /\ (\A j \in i + 1 .. N : ~At(j)) => IsGiven(v, field, i)
  <2>1. \A i, j \in 1 .. N : j > i => j \in i + 1 .. N
    BY <1>1
  <2> QED
    BY <1>1, <2>1 DEF IsGiven, o, At
<1>11. CASE ~Given(v, field)
  BY <1>2, <1>8, <1>9, <1>11
<1>12. CASE Given(v, field)
  <2>1. PICK i \in 1 .. N : At(i) /\ g[N] = o[i][2].s /\ \A j \in i + 1 .. N : ~At(j)
    BY <1>8, <1>9, <1>12
  <2> QED
    BY <1>1, <1>2, <1>10, <1>12, <2>1 DEF o
<1> QED
  BY <1>11, <1>12

LEMMA ProductFields ==
    ASSUME NEW item
    PROVE  LET p == ParseSingleProduct(item)
           IN  /\ p.text = [f \in RequiredText \cup OptionalText |-> DecodeString(Member(item, f))]
               /\ p.images = DecodeStrings(Member(item, "additional_image_links"))
               /\ p.price = DecodeMoney(Member(item, "price"))
               /\ p.sale = DecodeMoneyPointer(Member(item, "sale_price"))
               /\ p.options = DecodeStringMap(Member(item, "options"))
               /\ p.attributes = DecodeAnyMap(Member(item, "attributes"))
               /\ p.channel = ParseChannel(Member(item, "channel"))
               /\ p = [text |-> p.text, images |-> p.images, price |-> p.price, sale |-> p.sale,
                       options |-> p.options, attributes |-> p.attributes, channel |-> p.channel]
BY DEF ParseSingleProduct

(* The same for the controls of a channel block, each of which goes on     *)
(* with the state the ones before it have left.                            *)
ControlStep(v, g, n) ==
    IF n = 0 THEN <<>>
    ELSE LET m == Members(v)[n]
         IN  IF IsFor(m, "control") THEN DecodeField(m[2], "state", g[n - 1]) ELSE g[n - 1]

Controls(v, n, g) == g = [i \in 0 .. n |-> ControlStep(v, g, i)]

LEMMA ControlExists ==
    ASSUME NEW v
    PROVE  \A n \in Nat : \E g : Controls(v, n, g)
<1> DEFINE T == {n \in Nat : \E g : Controls(v, n, g)}
           S(g, i) == ControlStep(v, g, i)
<1>0. /\ \A g : S(g, 0) = <<>>
      /\ \A g, h : \A i \in Nat \ {0} : g[i - 1] = h[i - 1] => S(g, i) = S(h, i)
  BY DEF ControlStep
<1>1. 0 \in T
  <2> DEFINE g == [i \in 0 .. 0 |-> <<>>]
  <2>1. g = [i \in 0 .. 0 |-> S(g, i)]
    <3>1. \A i \in 0 .. 0 : S(g, i) = <<>>
      BY <1>0
    <3> QED
      BY <3>1
  <2>2. Controls(v, 0, g)
    BY <2>1 DEF Controls
  <2> QED
    BY <2>2
<1>2. ASSUME NEW n \in Nat, n \in T PROVE n + 1 \in T
  <2>1. PICK g : Controls(v, n, g)
    BY <1>2
  <2> DEFINE h == [i \in 0 .. n + 1 |-> IF i = n + 1 THEN S(g, n + 1) ELSE g[i]]
  <2>2. \A i \in 0 .. n : g[i] = S(g, i)
    BY <2>1 DEF Controls
  <2>3. \A i \in 0 .. n + 1 : h[i] = S(h, i)
    <3>1. \A i \in 0 .. n + 1 : h[i] = IF i = n + 1 THEN S(g, n + 1) ELSE g[i]
      OBVIOUS
    <3> HIDE DEF h, S
    <3>2. \A i \in 0 .. n : h[i] = g[i]
      BY <3>1
    <3>3. \A i \in 1 .. n + 1 : i \in Nat \ {0} /\ i - 1 \in 0 .. n
      OBVIOUS
    <3>4. \A i \in 1 .. n + 1 : S(h, i) = S(g, i)
      BY <1>0, <3>2, <3>3
    <3>5. \A i \in 0 .. n + 1 : i = 0 \/ i \in 1 .. n + 1
      OBVIOUS
    <3> QED
      BY <1>0, <2>2, <3>1, <3>4, <3>5
  <2>4. h = [i \in 0 .. n + 1 |-> h[i]]
    OBVIOUS
  <2>5. Controls(v, n + 1, h)
    <3> HIDE DEF h
    <3> QED
      BY <2>3, <2>4 DEF Controls
  <2> QED
    BY <2>5
<1> HIDE DEF T
<1>3. \A n \in Nat : n \in T
  BY <1>1, <1>2, SetInduction
<1> QED
  BY <1>3 DEF T

(* The control c gives the state s, or none. *)
GivesState(c, s) ==
    \E j \in DOMAIN Members(c) : IsGiven(c, "state", j) /\ s = Members(c)[j][2].s

HasControl(m) == IsFor(m, "control") /\ Given(m[2], "state")

LEMMA ControlExact ==
    ASSUME NEW v, IsBlock(v)
    PROVE  LET o == Members(v)
           IN  \/ DecodeControl(v) = <<>> /\ \A i \in DOMAIN o : ~HasControl(o[i])
               \/ \E i \in DOMAIN o :
                     /\ HasControl(o[i]) /\ GivesState(o[i][2], DecodeControl(v))
                     /\ \A k \in DOMAIN o : k > i => ~HasControl(o[k])
<1> DEFINE o == Members(v)
           N == Len(o)
           At(i) == HasControl(o[i])
<1>1. N \in Nat /\ DOMAIN o = 1 .. N
  BY DEF IsBlock, IsList
<1>2. PICK g : Controls(v, N, g) /\ DecodeControl(v) = g[N]
  <2> DEFINE c == CHOOSE g : g = [n \in 0 .. N |->
                      IF n = 0 THEN <<>>
                      ELSE LET m == Members(v)[n]
                           IN  IF IsFor(m, "control") THEN DecodeField(m[2], "state", g[n - 1])
                               ELSE g[n - 1]]
  <2>1. DecodeControl(v) = c[N]
    BY DEF DecodeControl
  <2>2. \E g : Controls(v, N, g)
    BY <1>1, ControlExists
  <2>3. Controls(v, N, c)
    BY <2>2 DEF Controls, ControlStep
  <2> HIDE DEF c
  <2> QED
    BY <2>1, <2>3
<1>3. \A i \in 0 .. N : g[i] = ControlStep(v, g, i)
  BY <1>2 DEF Controls
<1>4. /\ g[0] = <<>>
      /\ \A i \in 1 .. N :
            g[i] = IF IsFor(o[i], "control") THEN DecodeField(o[i][2], "state", g[i - 1]) ELSE g[i - 1]
  BY <1>1, <1>3 DEF ControlStep
<1>5. \A i \in 1 .. N : IF At(i) THEN GivesState(o[i][2], g[i]) ELSE g[i] = g[i - 1]
  <2> TAKE i \in 1 .. N
  <2>1. IsList(Members(o[i][2]))
    BY <1>1 DEF IsBlock, IsStruct
  <2>2. CASE At(i)
    <3>1. Given(o[i][2], "state") /\ g[i] = DecodeField(o[i][2], "state", g[i - 1])
      BY <1>4, <2>2 DEF HasControl
    <3> QED
      BY <2>1, <2>2, <3>1, FieldExact DEF GivesState
  <2>3. CASE ~At(i) /\ IsFor(o[i], "control")
    <3>1. ~Given(o[i][2], "state") /\ g[i] = DecodeField(o[i][2], "state", g[i - 1])
      BY <1>4, <2>3 DEF HasControl
    <3> QED
      BY <2>1, <2>3, <3>1, FieldExact
  <2>4. CASE ~At(i) /\ ~IsFor(o[i], "control")
    BY <1>4, <2>4
  <2> QED
    BY <2>2, <2>3, <2>4
<1> DEFINE Knows(n) ==
               \/ g[n] = <<>> /\ \A i \in 1 .. n : ~At(i)
               \/ \E i \in 1 .. n : At(i) /\ GivesState(o[i][2], g[n]) /\ \A j \in i + 1 .. n : ~At(j)
           T == {n \in Nat : n <= N => Knows(n)}
<1> HIDE DEF o, N, At
<1>6. 0 \in T
  BY <1>4
<1>7. ASSUME NEW n \in Nat, n \in T PROVE n + 1 \in T
  <2> SUFFICES ASSUME n + 1 <= N PROVE Knows(n + 1)
    OBVIOUS
  <2>1. Knows(n) /\ n + 1 \in 1 .. N /\ (n + 1) - 1 = n
    BY <1>1, <1>7
  <2>2. CASE At(n + 1)
    <3>1. GivesState(o[n + 1][2], g[n + 1])
      BY <1>5, <2>1, <2>2
    <3>2. \A j \in (n + 1) + 1 .. n + 1 : FALSE
      OBVIOUS
    <3> QED
      BY <2>2, <3>1, <3>2
  <2>3. CASE ~At(n + 1)
    <3>1. g[n + 1] = g[n]
      BY <1>5, <2>1, <2>3
    <3>2. \A i \in 1 .. n + 1 : i \in 1 .. n \/ i = n + 1
      OBVIOUS
    <3>3. \A i \in 1 .. n : i \in 1 .. n + 1 /\ \A j \in i + 1 .. n + 1 : j \in i + 1 .. n \/ j = n + 1
      OBVIOUS
    <3> QED
      BY <2>1, <2>3, <3>1, <3>2, <3>3
  <2> QED
    BY <2>2, <2>3
<1>8. N \in T
  <2> HIDE DEF T
  <2>1. \A n \in Nat : n \in T
    BY <1>6, <1>7, SetInduction
  <2> QED
    BY <1>1, <2>1
<1>9. Knows(N)
  BY <1>1, <1>8
<1>10. \A i, j \in 1 .. N : j > i => j \in i + 1 .. N
  BY <1>1
<1>11. CASE g[N] = <<>> /\ \A i \in 1 .. N : ~At(i)
  BY <1>1, <1>2, <1>11 DEF o, At
<1>12. CASE \E i \in 1 .. N : At(i) /\ GivesState(o[i][2], g[N]) /\ \A j \in i + 1 .. N : ~At(j)
  <2>1. PICK i \in 1 .. N : At(i) /\ GivesState(o[i][2], g[N]) /\ \A j \in i + 1 .. N : ~At(j)
    BY <1>12
  <2>2. \A k \in 1 .. N : k > i => ~At(k)
    BY <1>10, <2>1
  <2> QED
    BY <1>1, <1>2, <2>1, <2>2 DEF o, At
<1> QED
  BY <1>9, <1>11, <1>12

(* One channel is valid exactly when the client gave it a lifecycle state. *)
LEMMA ChannelExact ==
    ASSUME NEW v, NEW c \in KnownChannels, IsBlock(Member(v, c))
    PROVE  ParseChannel(v)[c] \in {Active, Inactive, Delete} <=> HasState(Member(v, c))
<1> DEFINE block == Member(v, c)
           o == Members(block)
           States == {Active, Inactive, Delete}
           d == DecodeControl(block)
<1>1. <<>> \notin States
  BY DEF Active, Inactive, Delete
<1>2. Len(o) \in Nat /\ DOMAIN o = 1 .. Len(o)
  BY DEF IsBlock, IsList
<1>3. CASE c \notin Names(v)
  <2>1. o = <<>>
    <3>1. {i \in DOMAIN Members(v) : Members(v)[i][1] = c} = {}
      BY <1>3 DEF Names, ToSet
    <3>2. block = Absent
      BY <3>1 DEF Member
    <3>3. Absent.t # "object"
      BY DEF Absent
    <3> QED
      BY <3>2, <3>3 DEF Members
  <2>2. DOMAIN o = {}
    BY <2>1
  <2>3. ~HasState(block)
    BY <2>2 DEF HasState
  <2>4. ParseChannel(v)[c] = NoState
    BY <1>3 DEF ParseChannel
  <2> QED
    BY <2>3, <2>4, StateAssumption
<1>4. CASE c \in Names(v)
  <2>1. ParseChannel(v)[c] = d
    BY <1>4 DEF ParseChannel
  <2>2. \/ d = <<>> /\ \A i \in DOMAIN o : ~HasControl(o[i])
        \/ \E i \in DOMAIN o : /\ HasControl(o[i]) /\ GivesState(o[i][2], d)
                               /\ \A k \in DOMAIN o : k > i => ~HasControl(o[k])
    BY ControlExact
  <2>3. HasState(block) <=>
           \E i \in DOMAIN o :
              /\ IsFor(o[i], "control")
              /\ \E s \in States : GivesState(o[i][2], s)
              /\ \A k \in DOMAIN o : k > i => ~HasControl(o[k])
    BY DEF HasState, GivesState, HasControl
  <2>4. \A x, s : GivesState(x, s) => Given(x, "state")
    BY DEF GivesState, IsGiven, Given
  <2>5. ASSUME NEW i \in DOMAIN o, NEW s, NEW u, GivesState(o[i][2], s), GivesState(o[i][2], u)
        PROVE  s = u
    <3> DEFINE x == Members(o[i][2])
    <3>1. Len(x) \in Nat /\ DOMAIN x = 1 .. Len(x)
      BY DEF IsBlock, IsStruct, IsList
    <3>2. PICK j \in DOMAIN x : IsGiven(o[i][2], "state", j) /\ s = x[j][2].s
      BY <2>5 DEF GivesState
    <3>3. PICK k \in DOMAIN x : IsGiven(o[i][2], "state", k) /\ u = x[k][2].s
      BY <2>5 DEF GivesState
    <3>4. ~(j > k) /\ ~(k > j)
      BY <3>2, <3>3 DEF IsGiven
    <3> HIDE DEF x
    <3>5. j = k
      BY <3>1, <3>4
    <3> QED
      BY <3>2, <3>3, <3>5
  <2> HIDE DEF block, o, d, States
  <2>6. ASSUME d \in States PROVE HasState(block)
    BY <1>1, <2>2, <2>3, <2>6 DEF HasControl
  <2>7. ASSUME HasState(block) PROVE d \in States
    <3>1. PICK i \in DOMAIN o : /\ IsFor(o[i], "control")
                              /\ \E s \in States : GivesState(o[i][2], s)
                              /\ \A k \in DOMAIN o : k > i => ~HasControl(o[k])
      BY <2>3, <2>7
    <3>2. HasControl(o[i])
      BY <2>4, <3>1 DEF HasControl
    <3>3. PICK j \in DOMAIN o : /\ HasControl(o[j]) /\ GivesState(o[j][2], d)
                              /\ \A k \in DOMAIN o : k > j => ~HasControl(o[k])
      BY <2>2, <3>2
    <3>4. i = j
      BY <1>2, <3>1, <3>2, <3>3
    <3> QED
      BY <2>5, <3>1, <3>3, <3>4
  <2> QED
    BY <2>1, <2>6, <2>7 DEF block, States
<1> QED
  BY <1>3, <1>4

(* One field of a struct: what is decoded is the last string given. *)
LEMMA StringExact ==
    ASSUME NEW v, IsStruct(v), NEW field
    PROVE  LET s == DecodeField(v, field, <<>>)
           IN  /\ s \in Text
               /\ \A i \in DOMAIN Members(v) : IsGiven(v, field, i) => Members(v)[i][2].s = s
               /\ s # <<>> => \E i \in DOMAIN Members(v) : IsGiven(v, field, i)
<1> DEFINE o == Members(v)
           s == DecodeField(v, field, <<>>)
<1>1. Len(o) \in Nat /\ DOMAIN o = 1 .. Len(o) /\ IsList(o)
  BY DEF IsStruct, IsList
<1>2. \A i \in DOMAIN o : IsGiven(v, field, i) => o[i][2].s \in Text
  BY DEF IsStruct, IsGiven, IsStringFor, IsText
<1>3. <<>> \in Text
  BY DEF Text
<1>4. CASE ~Given(v, field)
  <2>1. s = <<>>
    BY <1>1, <1>4, FieldExact
  <2> QED
    BY <1>3, <1>4, <2>1 DEF Given, IsGiven
<1>5. CASE Given(v, field)
  <2>1. PICK i \in DOMAIN o : IsGiven(v, field, i) /\ s = o[i][2].s
    BY <1>1, <1>5, FieldExact
  <2>2. \A k \in DOMAIN o : IsGiven(v, field, k) => ~(k > i) /\ ~(i > k)
    BY <2>1 DEF IsGiven
  <2> HIDE DEF o, s
  <2>3. \A k \in DOMAIN o : IsGiven(v, field, k) => k = i
    BY <1>1, <2>2
  <2> QED
    BY <1>2, <2>1, <2>3 DEF o, s
<1> QED
  BY <1>4, <1>5

(* The price that was decoded is a price exactly when it was sent as one. *)
LEMMA PriceExact ==
    ASSUME NEW v, IsStruct(v)
    PROVE  LET m == DecodeMoney(v)
           IN  /\ ~IsBlank(m.amount) /\ ~IsBlank(m.currency)
               /\ LooksLikeDecimal(m.amount) /\ ByteLen(m.currency) = 3
               <=> IsPrice(v)
<1> DEFINE a == DecodeField(v, "amount_decimal", <<>>)
           c == DecodeField(v, "currency", <<>>)
           o == Members(v)
<1>1. DecodeMoney(v).amount = a /\ DecodeMoney(v).currency = c
  BY DEF DecodeMoney
<1>2. /\ a \in Text /\ c \in Text
      /\ \A i \in DOMAIN o : IsGiven(v, "amount_decimal", i) => o[i][2].s = a
      /\ \A i \in DOMAIN o : IsGiven(v, "currency", i) => o[i][2].s = c
      /\ a # <<>> => \E i \in DOMAIN o : IsGiven(v, "amount_decimal", i)
      /\ c # <<>> => \E i \in DOMAIN o : IsGiven(v, "currency", i)
  BY StringExact
<1> HIDE DEF a, c
<1>3. LooksLikeDecimal(a) <=> IsDecimal(a)
  BY <1>2, DecimalExact
<1>4. ~IsBlank(c) <=> Says(c)
  BY DEF IsBlank, Says
<1>5. IsDecimal(a) => ~IsBlank(a) /\ a # <<>>
  <2> SUFFICES ASSUME IsDecimal(a) PROVE ~IsBlank(a) /\ a # <<>>
    OBVIOUS
  <2>1. a # <<>> /\ \A i \in DOMAIN a : a[i] \in Digits \cup {Dot}
    BY DEF IsDecimal
  <2>2. 1 \in DOMAIN a
    BY <1>2, <2>1 DEF Text
  <2>3. \A x \in Digits \cup {Dot} : x \notin White
    BY SMT DEF Digits, Dot, White
  <2> QED
    BY <2>1, <2>2, <2>3 DEF IsBlank
<1>6. Says(c) => c # <<>>
  BY DEF Says
<1>7. IsPrice(v) <=> /\ IsDecimal(a) /\ Says(c) /\ ByteLen(c) = 3
                     /\ \E i \in DOMAIN o : IsGiven(v, "amount_decimal", i)
                     /\ \E i \in DOMAIN o : IsGiven(v, "currency", i)
  BY <1>2 DEF IsPrice
<1> QED
  BY <1>1, <1>2, <1>3, <1>4, <1>5, <1>6, <1>7

(* ValidateProductBase and ValidateChannelControls, applied to what was    *)
(* decoded with its errors dropped, accept exactly what was sent complete, *)
(* for every document a JSON decoder yields, however its members are       *)
(* spelled, repeated and ordered, and whatever channels are enabled.       *)
THEOREM ValidExact ==
    ASSUME NEW item, IsDocument(item)
    PROVE  IsValid(ParseSingleProduct(item)) <=> Complete(item)
<1> DEFINE p == ParseSingleProduct(item)
           price == Member(item, "price")
           channel == Member(item, "channel")
<1>1. /\ \A f \in RequiredText : p.text[f] = DecodeString(Member(item, f))
      /\ p.price = DecodeMoney(price)
      /\ p.channel = ParseChannel(channel)
  BY ProductFields
<1>2. \A f \in RequiredText :
         ~IsBlank(p.text[f]) <=> Member(item, f).t = "string" /\ Says(Member(item, f).s)
  <2>1. \A v : ~IsBlank(DecodeString(v)) <=> v.t = "string" /\ Says(v.s)
    BY DEF IsBlank, Says, DecodeString
  <2> QED
    BY <1>1, <2>1
<1>3. /\ ~IsBlank(p.price.amount) /\ ~IsBlank(p.price.currency)
      /\ LooksLikeDecimal(p.price.amount) /\ ByteLen(p.price.currency) = 3
      <=> IsPrice(price)
  <2>1. IsStruct(price)
    BY DEF IsDocument
  <2> QED
    BY <1>1, <2>1, PriceExact
<1>4. \A c \in KnownChannels :
         p.channel[c] \in {Active, Inactive, Delete} <=> HasState(Member(channel, c))
  BY <1>1, ChannelExact DEF IsDocument
<1> HIDE DEF p, price, channel
<1>5. ValidateChannelControls(p)
      <=> \A c \in EnabledChannels : c \in KnownChannels /\ HasState(Member(channel, c))
  BY <1>4 DEF ValidateChannelControls
<1>6. ValidateProductBase(p)
      <=> /\ \A f \in RequiredText : Member(item, f).t = "string" /\ Says(Member(item, f).s)
          /\ IsPrice(price)
  BY <1>2, <1>3 DEF ValidateProductBase
<1>7. Complete(item)
      <=> /\ \A f \in RequiredText : Member(item, f).t = "string" /\ Says(Member(item, f).s)
          /\ IsPrice(price)
          /\ \A c \in EnabledChannels : c \in KnownChannels /\ HasState(Member(channel, c))
  BY DEF Complete, price, channel
<1>8. IsValid(p) <=> Complete(item)
  BY <1>5, <1>6, <1>7 DEF IsValid
<1> QED
  BY <1>8 DEF p
-----------------------------------------------------------------------------
(* The order of strings, position by position. *)
Precedes(s, u) ==
    \/ \E i \in 1 .. Len(s) : i <= Len(u) /\ s[i] < u[i] /\ \A j \in 1 .. i - 1 : s[j] = u[j]
    \/ Len(s) < Len(u) /\ \A j \in 1 .. Len(s) : s[j] = u[j]

LEMMA TextFacts ==
    ASSUME NEW s \in Text
    PROVE  /\ Len(s) \in Nat /\ DOMAIN s = 1 .. Len(s)
           /\ \A i \in 1 .. Len(s) : s[i] \in Nat
<1>1. /\ Len(s) \in Nat /\ DOMAIN s = 1 .. Len(s)
      /\ \A i \in 1 .. Len(s) : s[i] \in CodePoint
  BY DEF Text
<1>2. \A b \in CodePoint : b \in Nat
  BY SMT DEF CodePoint
<1> QED
  BY <1>1, <1>2

LEMMA TextEqual ==
    ASSUME NEW s \in Text, NEW u \in Text, Len(s) = Len(u), \A i \in 1 .. Len(s) : s[i] = u[i]
    PROVE  s = u
<1>1. /\ DOMAIN s = 1 .. Len(s) /\ DOMAIN u = 1 .. Len(u)
      /\ s = [i \in DOMAIN s |-> s[i]] /\ u = [i \in DOMAIN u |-> u[i]]
  BY DEF Text
<1> QED
  BY <1>1

(* Two strings have the same first n characters. *)
LEMMA PrefixEqual ==
    ASSUME NEW s \in Text, NEW u \in Text, NEW n \in Nat, n <= Len(s), n <= Len(u)
    PROVE  SubSeq(s, 1, n) = SubSeq(u, 1, n) <=> \A j \in 1 .. n : s[j] = u[j]
<1>1. ASSUME NEW w \in Text, n <= Len(w)
      PROVE  /\ SubSeq(w, 1, n) \in Text /\ Len(SubSeq(w, 1, n)) = n
             /\ \A j \in 1 .. n : SubSeq(w, 1, n)[j] = w[j]
  BY <1>1 DEF Text
<1>2. ASSUME \A j \in 1 .. n : s[j] = u[j]
      PROVE  SubSeq(s, 1, n) = SubSeq(u, 1, n)
  BY <1>1, <1>2, TextEqual
<1>3. ASSUME SubSeq(s, 1, n) = SubSeq(u, 1, n)
      PROVE  \A j \in 1 .. n : s[j] = u[j]
  BY <1>1, <1>3
<1> QED
  BY <1>2, <1>3

LEMMA BeforeExact ==
    ASSUME NEW s \in Text, NEW u \in Text
    PROVE  Before(s, u) <=> Precedes(s, u)
<1>0. /\ Len(s) \in Nat /\ DOMAIN s = 1 .. Len(s)
      /\ Len(u) \in Nat /\ DOMAIN u = 1 .. Len(u)
  BY TextFacts
<1>1. \A i \in 1 .. Len(s) : i <= Len(u) =>
         (SubSeq(s, 1, i - 1) = SubSeq(u, 1, i - 1) <=> \A j \in 1 .. i - 1 : s[j] = u[j])
  <2> TAKE i \in 1 .. Len(s)
  <2> HAVE i <= Len(u)
  <2>1. i - 1 \in Nat /\ i - 1 <= Len(s) /\ i - 1 <= Len(u)
    BY <1>0
  <2> QED
    BY <2>1, PrefixEqual
<1>2. ASSUME Len(s) < Len(u)
      PROVE  s = SubSeq(u, 1, Len(s)) <=> \A j \in 1 .. Len(s) : s[j] = u[j]
  <2>1. SubSeq(s, 1, Len(s)) = s
    BY <1>0 DEF Text
  <2> QED
    BY <1>0, <1>2, <2>1, PrefixEqual
<1>3. \A i : i \in DOMAIN s \cap DOMAIN u <=> i \in 1 .. Len(s) /\ i <= Len(u)
  BY <1>0
<1> QED
  BY <1>1, <1>2, <1>3 DEF Before, Precedes

LEMMA PrecedesAsymmetric ==
    ASSUME NEW s \in Text, NEW u \in Text, Precedes(s, u)
    PROVE  ~Precedes(u, s)
<1>0. /\ Len(s) \in Nat /\ Len(u) \in Nat
      /\ \A i \in 1 .. Len(s) : s[i] \in Nat
      /\ \A i \in 1 .. Len(u) : u[i] \in Nat
  BY TextFacts
<1>1. CASE Len(s) < Len(u) /\ \A j \in 1 .. Len(s) : s[j] = u[j]
  BY <1>0, <1>1 DEF Precedes
<1>2. ASSUME NEW i \in 1 .. Len(s), i <= Len(u), s[i] < u[i], \A j \in 1 .. i - 1 : s[j] = u[j]
      PROVE  ~Precedes(u, s)
  <2>1. ASSUME NEW k \in 1 .. Len(u), k <= Len(s), u[k] < s[k], \A j \in 1 .. k - 1 : u[j] = s[j]
        PROVE  FALSE
    <3>1. CASE k < i
      BY <1>0, <1>2, <2>1, <3>1
    <3>2. CASE i < k
      BY <1>0, <1>2, <2>1, <3>2
    <3>3. CASE i = k
      BY <1>0, <1>2, <2>1, <3>3
    <3> QED
      BY <1>0, <3>1, <3>2, <3>3
  <2>2. ~(Len(u) < Len(s) /\ \A j \in 1 .. Len(u) : u[j] = s[j])
    BY <1>0, <1>2
  <2> QED
    BY <2>1, <2>2 DEF Precedes
<1> QED
  BY <1>1, <1>2 DEF Precedes

LEMMA PrecedesTotal ==
    ASSUME NEW s \in Text, NEW u \in Text
    PROVE  s = u \/ Precedes(s, u) \/ Precedes(u, s)
<1>0. /\ Len(s) \in Nat /\ Len(u) \in Nat
      /\ \A i \in 1 .. Len(s) : s[i] \in Nat
      /\ \A i \in 1 .. Len(u) : u[i] \in Nat
  BY TextFacts
<1> DEFINE D == {i \in Nat : i \in 1 .. Len(s) /\ i <= Len(u) /\ s[i] # u[i]}
<1>1. CASE D = {}
  <2>1. \A i \in 1 .. Len(s) : i <= Len(u) => s[i] = u[i]
    BY <1>0, <1>1
  <2>2. CASE Len(s) = Len(u)
    BY <1>0, <2>1, <2>2, TextEqual
  <2>3. CASE Len(s) < Len(u)
    BY <1>0, <2>1, <2>3 DEF Precedes
  <2>4. CASE Len(u) < Len(s)
    BY <1>0, <2>1, <2>4 DEF Precedes
  <2> QED
    BY <1>0, <2>2, <2>3, <2>4
<1>2. CASE D # {}
  <2>1. PICK m \in D : \A n \in D : m <= n
    BY <1>2, Least
  <2>2. \A j \in 1 .. m - 1 : s[j] = u[j]
    <3> TAKE j \in 1 .. m - 1
    <3>1. j \in Nat /\ j \in 1 .. Len(s) /\ j <= Len(u) /\ ~(m <= j)
      BY <1>0, <2>1
    <3> QED
      BY <2>1, <3>1
  <2>3. s[m] < u[m] \/ u[m] < s[m]
    BY <1>0, <2>1
  <2> QED
    BY <1>0, <2>1, <2>2, <2>3 DEF Precedes
<1> QED
  BY <1>1, <1>2

LEMMA PrecedesTransitive ==
    ASSUME NEW s \in Text, NEW u \in Text, NEW w \in Text, Precedes(s, u), Precedes(u, w)
    PROVE  Precedes(s, w)
<1>0. /\ Len(s) \in Nat /\ Len(u) \in Nat /\ Len(w) \in Nat
      /\ \A i \in 1 .. Len(s) : s[i] \in Nat
      /\ \A i \in 1 .. Len(u) : u[i] \in Nat
      /\ \A i \in 1 .. Len(w) : w[i] \in Nat
  BY TextFacts
<1>1. CASE Len(s) < Len(u) /\ \A j \in 1 .. Len(s) : s[j] = u[j]
  <2>1. CASE Len(u) < Len(w) /\ \A j \in 1 .. Len(u) : u[j] = w[j]
    BY <1>0, <1>1, <2>1 DEF Precedes
  <2>2. ASSUME NEW k \in 1 .. Len(u), k <= Len(w), u[k] < w[k], \A j \in 1 .. k - 1 : u[j] = w[j]
        PROVE  Precedes(s, w)
    <3>1. CASE k <= Len(s)
      <4>1. k \in 1 .. Len(s) /\ s[k] < w[k] /\ \A j \in 1 .. k - 1 : s[j] = w[j]
        BY <1>0, <1>1, <2>2, <3>1
      <4> QED
        BY <2>2, <4>1 DEF Precedes
    <3>2. CASE Len(s) < k
      <4>1. Len(s) < Len(w) /\ \A j \in 1 .. Len(s) : s[j] = w[j]
        BY <1>0, <1>1, <2>2, <3>2
      <4> QED
        BY <4>1 DEF Precedes
    <3> QED
      BY <1>0, <3>1, <3>2
  <2> QED
    BY <2>1, <2>2 DEF Precedes
<1>2. ASSUME NEW i \in 1 .. Len(s), i <= Len(u), s[i] < u[i], \A j \in 1 .. i - 1 : s[j] = u[j]
      PROVE  Precedes(s, w)
  <2>1. CASE Len(u) < Len(w) /\ \A j \in 1 .. Len(u) : u[j] = w[j]
    <3>1. i <= Len(w) /\ s[i] < w[i] /\ \A j \in 1 .. i - 1 : s[j] = w[j]
      BY <1>0, <1>2, <2>1
    <3> QED
      BY <3>1 DEF Precedes
  <2>2. ASSUME NEW k \in 1 .. Len(u), k <= Len(w), u[k] < w[k], \A j \in 1 .. k - 1 : u[j] = w[j]
        PROVE  Precedes(s, w)
    <3>1. CASE k < i
      <4>1. k \in 1 .. Len(s) /\ s[k] < w[k] /\ \A j \in 1 .. k - 1 : s[j] = w[j]
        BY <1>0, <1>2, <2>2, <3>1
      <4> QED
        BY <2>2, <4>1 DEF Precedes
    <3>2. CASE i <= k
      <4>1. i <= Len(w) /\ \A j \in 1 .. i - 1 : s[j] = w[j]
        BY <1>0, <1>2, <2>2, <3>2
      <4>2. CASE i = k
        <5>1. s[i] < w[i]
          BY <1>0, <1>2, <2>2, <4>2
        <5> QED
          BY <4>1, <5>1 DEF Precedes
      <4>3. CASE i < k
        <5>1. s[i] < w[i]
          BY <1>0, <1>2, <2>2, <4>3
        <5> QED
          BY <4>1, <5>1 DEF Precedes
      <4> QED
        BY <1>0, <2>2, <3>2, <4>2, <4>3
    <3> QED
      BY <1>0, <1>2, <2>2, <3>1, <3>2
  <2> QED
    BY <2>1, <2>2 DEF Precedes
<1> QED
  BY <1>1, <1>2 DEF Precedes

(* The order of Go strings is total. *)
LEMMA OrderFacts ==
    ASSUME NEW s \in Text, NEW u \in Text, NEW w \in Text
    PROVE  /\ ~Before(s, u) \/ ~Before(u, s)
           /\ ~Before(s, u) /\ ~Before(u, s) => s = u
           /\ ~Before(u, s) /\ ~Before(w, u) => ~Before(w, s)
<1>1. \A a, b \in Text : Before(a, b) <=> Precedes(a, b)
  BY BeforeExact
<1>2. ASSUME ~Precedes(u, s), ~Precedes(w, u), Precedes(w, s)
      PROVE  FALSE
  <2>1. CASE s = u
    BY <1>2, <2>1
  <2>2. CASE Precedes(s, u)
    BY <1>2, <2>2, PrecedesTransitive
  <2> QED
    BY <1>2, <2>1, <2>2, PrecedesTotal
<1> QED
  BY <1>1, <1>2, PrecedesAsymmetric, PrecedesTotal
-----------------------------------------------------------------------------
(* p is an order to take n things in. *)
Order(p, n) ==
    /\ p \in [1 .. n -> 1 .. n]
    /\ \A i, j \in 1 .. n : i # j => p[i] # p[j]

Sorts(p, n, l) ==
    Order(p, n) /\ \A i, j \in 1 .. n : i < j => ~Before(l[p[j]], l[p[i]])

(* One more thing is put where it belongs. *)
LEMMA SortStep ==
    ASSUME NEW n \in Nat, NEW l \in [1 .. n + 1 -> Text], NEW q, Sorts(q, n, l)
    PROVE  \E p : Sorts(p, n + 1, l)
<1> DEFINE x == l[n + 1]
           K == {i \in Nat : i = n + 1 \/ (i \in 1 .. n /\ Before(x, l[q[i]]))}
<1>0. /\ q \in [1 .. n -> 1 .. n]
      /\ \A i, j \in 1 .. n : i # j => q[i] # q[j]
      /\ \A i, j \in 1 .. n : i < j => ~Before(l[q[j]], l[q[i]])
  BY DEF Sorts, Order
<1>1. x \in Text /\ \A i \in 1 .. n : q[i] \in 1 .. n /\ l[q[i]] \in Text
  <2>1. \A i \in 1 .. n : q[i] \in 1 .. n /\ q[i] \in 1 .. n + 1
    BY <1>0
  <2> QED
    BY <2>1
<1>2. PICK k \in K : \A i \in K : k <= i
  <2>1. n + 1 \in K
    OBVIOUS
  <2> QED
    BY <2>1, Least
<1>3. /\ k \in 1 .. n + 1
      /\ k <= n => Before(x, l[q[k]])
      /\ \A i \in 1 .. n : i < k => ~Before(x, l[q[i]])
  <2>1. n + 1 \in K
    OBVIOUS
  <2>2. \A i \in 1 .. n : Before(x, l[q[i]]) => i \in K
    OBVIOUS
  <2>3. k \in Nat /\ k <= n + 1 /\ (k = n + 1 \/ (k \in 1 .. n /\ Before(x, l[q[k]])))
    BY <1>2, <2>1
  <2> HIDE DEF K, x
  <2>4. ASSUME NEW i \in 1 .. n, i < k PROVE ~Before(x, l[q[i]])
    <3>1. SUFFICES ASSUME Before(x, l[q[i]]) PROVE FALSE
      OBVIOUS
    <3>2. k <= i
      BY <1>2, <2>2, <3>1
    <3> QED
      BY <2>3, <2>4, <3>2
  <2> QED
    BY <2>3, <2>4
<1> DEFINE p == [i \in 1 .. n + 1 |-> IF i < k THEN q[i] ELSE IF i = k THEN n + 1 ELSE q[i - 1]]
<1>4. \A i \in 1 .. n + 1 :
         /\ i < k => i \in 1 .. n /\ p[i] = q[i]
         /\ i = k => p[i] = n + 1
         /\ i > k => i - 1 \in 1 .. n /\ p[i] = q[i - 1]
  BY <1>3
<1> HIDE DEF K
<1>5. p \in [1 .. n + 1 -> 1 .. n + 1]
  <2>1. ASSUME NEW i \in 1 .. n + 1 PROVE p[i] \in 1 .. n + 1
    <3> HIDE DEF p
    <3>1. \A j \in 1 .. n : q[j] \in 1 .. n + 1
      BY <1>1
    <3>2. i < k \/ i = k \/ i > k
      BY <1>3
    <3> QED
      BY <1>4, <3>1, <3>2
  <2> QED
    BY <2>1
<1> HIDE DEF p
<1>6. ASSUME NEW i \in 1 .. n + 1, NEW j \in 1 .. n + 1, i < j
      PROVE  p[i] # p[j] /\ ~Before(l[p[j]], l[p[i]])
  <2>1. CASE j < k
    <3>1. i \in 1 .. n /\ j \in 1 .. n /\ p[i] = q[i] /\ p[j] = q[j]
      BY <1>3, <1>4, <1>6, <2>1
    <3> QED
      BY <1>0, <1>6, <3>1
  <2>2. CASE j = k
    <3>1. i \in 1 .. n /\ p[i] = q[i] /\ p[j] = n + 1 /\ i < k
      BY <1>3, <1>4, <1>6, <2>2
    <3> QED
      BY <1>1, <1>3, <3>1
  <2>3. CASE i < k /\ k < j
    <3>1. i \in 1 .. n /\ j - 1 \in 1 .. n /\ p[i] = q[i] /\ p[j] = q[j - 1] /\ i < j - 1
      BY <1>3, <1>4, <1>6, <2>3
    <3> QED
      BY <1>0, <3>1
  <2>4. CASE i = k
    <3>1. j - 1 \in 1 .. n /\ p[i] = n + 1 /\ p[j] = q[j - 1] /\ k <= j - 1 /\ k \in 1 .. n
      BY <1>3, <1>4, <1>6, <2>4
    <3>2. Before(x, l[q[k]]) /\ ~Before(l[q[k]], x)
      BY <1>1, <1>3, <3>1, OrderFacts
    <3>3. k < j - 1 => ~Before(l[q[j - 1]], l[q[k]])
      BY <1>0, <3>1
    <3>4. ~Before(l[q[j - 1]], x)
      <4>1. CASE k = j - 1
        BY <3>2, <4>1
      <4>2. CASE k < j - 1
        BY <1>1, <3>1, <3>2, <3>3, <4>2, OrderFacts
      <4> QED
        BY <1>3, <3>1, <4>1, <4>2
    <3> QED
      BY <1>1, <3>1, <3>4
  <2>5. CASE k < i
    <3>1. /\ i - 1 \in 1 .. n /\ j - 1 \in 1 .. n /\ i - 1 < j - 1
          /\ p[i] = q[i - 1] /\ p[j] = q[j - 1]
      BY <1>3, <1>4, <1>6, <2>5
    <3> QED
      BY <1>0, <3>1
  <2> QED
    BY <1>3, <1>6, <2>1, <2>2, <2>3, <2>4, <2>5
<1>7. \A i, j \in 1 .. n + 1 : i # j => p[i] # p[j]
  BY <1>6
<1> QED
  BY <1>5, <1>6, <1>7 DEF Sorts, Order

(* Every list of strings can be sorted. *)
LEMMA SortExists ==
    \A n \in Nat : \A l \in [1 .. n -> Text] : \E p : Sorts(p, n, l)
<1> DEFINE T == {n \in Nat : \A l \in [1 .. n -> Text] : \E p : Sorts(p, n, l)}
<1>1. 0 \in T
  <2>1. ASSUME NEW l \in [1 .. 0 -> Text]
        PROVE  Sorts([i \in 1 .. 0 |-> i], 0, l)
    BY DEF Sorts, Order
  <2> QED
    BY <2>1
<1>2. ASSUME NEW n \in Nat, n \in T PROVE n + 1 \in T
  <2> SUFFICES ASSUME NEW l \in [1 .. n + 1 -> Text] PROVE \E p : Sorts(p, n + 1, l)
    OBVIOUS
  <2> DEFINE head == [i \in 1 .. n |-> l[i]]
  <2>1. head \in [1 .. n -> Text] /\ \A i \in 1 .. n : head[i] = l[i]
    OBVIOUS
  <2>2. PICK q : Sorts(q, n, head)
    BY <1>2, <2>1
  <2> HIDE DEF head, T
  <2>3. \A i \in 1 .. n : q[i] \in 1 .. n
    BY <2>2 DEF Sorts, Order
  <2>4. Sorts(q, n, l)
    BY <2>1, <2>2, <2>3 DEF Sorts
  <2> QED
    BY <2>4, SortStep
<1> HIDE DEF T
<1>3. \A n \in Nat : n \in T
  BY <1>1, <1>2, SetInduction
<1> QED
  BY <1>3 DEF T
-----------------------------------------------------------------------------
(* An order of n things takes all of them. *)
LEMMA OrderFull ==
    ASSUME NEW n \in Nat, NEW p, Order(p, n)
    PROVE  /\ \A x \in 1 .. n : \E i \in 1 .. n : p[i] = x
           /\ IsFiniteSet(1 .. n) /\ Cardinality(1 .. n) = n
<1>1. IsFiniteSet(1 .. n) /\ Cardinality(1 .. n) = n
  BY FS_Interval
<1>2. p \in Injection(1 .. n, 1 .. n)
  BY DEF Order, Injection, IsInjective
<1>3. p \in Surjection(1 .. n, 1 .. n)
  BY <1>1, <1>2, FS_Injection
<1> QED
  BY <1>1, <1>3 DEF Surjection

LEMMA OrdersAre ==
    ASSUME NEW n \in Nat, NEW p
    PROVE  p \in SetToSeqs(1 .. n) <=> Order(p, n)
<1>1. Cardinality(1 .. n) = n
  BY FS_Interval
<1> QED
  BY <1>1 DEF SetToSeqs, Order

(* How often a list holds x. *)
Occurrences(l, x) == Cardinality({i \in DOMAIN l : l[i] = x})

LEMMA OccurrencesFinite ==
    ASSUME NEW n \in Nat, NEW P, P \subseteq 1 .. n
    PROVE  IsFiniteSet(P) /\ Cardinality(P) \in Nat /\ (Cardinality(P) = 0 <=> P = {})
<1>1. IsFiniteSet(1 .. n)
  BY FS_Interval
<1>2. IsFiniteSet(P)
  BY <1>1, FS_Subset
<1> QED
  BY <1>2, FS_CardinalityType, FS_EmptySet

LEMMA OccurrencesNone ==
    ASSUME NEW n \in Nat, NEW s, DOMAIN s = 1 .. n, NEW x
    PROVE  Occurrences(s, x) = 0 <=> \A i \in 1 .. n : s[i] # x
<1> DEFINE P == {i \in 1 .. n : s[i] = x}
<1>1. P \subseteq 1 .. n /\ (P = {} <=> \A i \in 1 .. n : s[i] # x)
  OBVIOUS
<1>2. Occurrences(s, x) = Cardinality(P)
  BY DEF Occurrences
<1> HIDE DEF P
<1> QED
  BY <1>1, <1>2, OccurrencesFinite

(* Another order changes no count. *)
LEMMA OrderCounts ==
    ASSUME NEW n \in Nat, NEW l, DOMAIN l = 1 .. n, NEW p, Order(p, n), NEW x
    PROVE  Occurrences([i \in 1 .. n |-> l[p[i]]], x) = Occurrences(l, x)
<1> DEFINE A == {i \in 1 .. n : l[p[i]] = x}
           B == {i \in 1 .. n : l[i] = x}
           f == [i \in A |-> p[i]]
<1>1. A \subseteq 1 .. n /\ IsFiniteSet(A)
  BY OccurrencesFinite
<1>2. p \in [1 .. n -> 1 .. n] /\ \A i, j \in 1 .. n : i # j => p[i] # p[j]
  BY DEF Order
<1>3. f \in [A -> B]
  BY <1>2
<1>4. \A i, j \in A : f[i] = f[j] => i = j
  BY <1>2
<1>5. \A y \in B : \E i \in A : f[i] = y
  <2> TAKE y \in B
  <2>1. PICK i \in 1 .. n : p[i] = y
    BY OrderFull
  <2>2. i \in A /\ f[i] = y
    BY <2>1
  <2> QED
    BY <2>2
<1> HIDE DEF A, B, f
<1>6. f \in Bijection(A, B)
  BY <1>3, <1>4, <1>5 DEF Bijection, Injection, Surjection, IsInjective
<1>7. Cardinality(A) = Cardinality(B)
  BY <1>1, <1>6, FS_Bijection DEF ExistsBijection
<1>8. Occurrences(l, x) = Cardinality(B)
  BY DEF Occurrences, B
<1>9. Occurrences([i \in 1 .. n |-> l[p[i]]], x) = Cardinality(A)
  <2>1. {i \in DOMAIN [k \in 1 .. n |-> l[p[k]]] : [k \in 1 .. n |-> l[p[k]]][i] = x} = A
    BY DEF A
  <2> QED
    BY <2>1 DEF Occurrences
<1> QED
  BY <1>7, <1>8, <1>9

(* The links are all there, in ascending order. *)
LEMMA SortedLinksFacts ==
    ASSUME NEW l \in Seq(Text)
    PROVE  LET s == SortedLinks(l)
           IN  /\ s \in [1 .. Len(l) -> Text]
               /\ Ascending(s)
               /\ \A x : Occurrences(s, x) = Occurrences(l, x)
<1> DEFINE n == Len(l)
           Picked(p) == [i \in DOMAIN l |-> l[p[i]]]
           R == {Picked(p) : p \in SetToSeqs(DOMAIN l)}
<1>1. n \in Nat /\ DOMAIN l = 1 .. n /\ l \in [1 .. n -> Text]
  OBVIOUS
<1>2. PICK p : Sorts(p, n, l)
  BY <1>1, SortExists
<1>3. Order(p, n) /\ p \in SetToSeqs(DOMAIN l)
  BY <1>1, <1>2, OrdersAre DEF Sorts
<1>4. Picked(p) \in R
  BY <1>3
<1>5. Ascending(Picked(p))
  <2>1. \A i \in 1 .. n : Picked(p)[i] = l[p[i]]
    BY <1>1
  <2>2. DOMAIN Picked(p) = 1 .. n
    BY <1>1
  <2> HIDE DEF Picked
  <2> QED
    BY <1>2, <2>1, <2>2 DEF Sorts, Ascending
<1>6. SortedLinks(l) \in R /\ Ascending(SortedLinks(l))
  <2>1. SortedLinks(l) = CHOOSE s \in R : Ascending(s)
    BY DEF SortedLinks
  <2> HIDE DEF R
  <2> QED
    BY <1>4, <1>5, <2>1
<1>7. PICK q \in SetToSeqs(DOMAIN l) : SortedLinks(l) = Picked(q)
  BY <1>6
<1>8. Order(q, n)
  BY <1>1, <1>7, OrdersAre
<1>9. SortedLinks(l) = [i \in 1 .. n |-> l[q[i]]]
  BY <1>1, <1>7
<1>10. SortedLinks(l) \in [1 .. n -> Text]
  <2>1. \A i \in 1 .. n : q[i] \in 1 .. n
    BY <1>8 DEF Order
  <2> QED
    BY <1>1, <1>9, <2>1
<1>11. \A x : Occurrences(SortedLinks(l), x) = Occurrences(l, x)
  BY <1>1, <1>8, <1>9, OrderCounts
<1> QED
  BY <1>6, <1>10, <1>11

(* Without its last element a list holds that one once less. *)
LEMMA DropLast ==
    ASSUME NEW n \in Nat, NEW s, DOMAIN s = 1 .. n + 1, NEW z
    PROVE  Occurrences([i \in 1 .. n |-> s[i]], z)
             = IF s[n + 1] = z THEN Occurrences(s, z) - 1 ELSE Occurrences(s, z)
<1> DEFINE A == {i \in 1 .. n + 1 : s[i] = z}
           d == [i \in 1 .. n |-> s[i]]
<1>1. IsFiniteSet(A)
  <2>1. n + 1 \in Nat /\ A \subseteq 1 .. n + 1
    OBVIOUS
  <2> QED
    BY <2>1, OccurrencesFinite
<1>2. {i \in DOMAIN d : d[i] = z} = A \ {n + 1}
  OBVIOUS
<1>3. n + 1 \in A <=> s[n + 1] = z
  OBVIOUS
<1>4. Occurrences(s, z) = Cardinality(A) /\ Occurrences(d, z) = Cardinality(A \ {n + 1})
  BY <1>2 DEF Occurrences
<1> HIDE DEF A, d
<1>5. Occurrences(d, z) = IF s[n + 1] = z THEN Occurrences(s, z) - 1 ELSE Occurrences(s, z)
  BY <1>1, <1>3, <1>4, FS_RemoveElement
<1> QED
  BY <1>5 DEF d

(* A list is as long as its domain. *)
LEMMA SameLength ==
    ASSUME NEW n \in Nat, NEW m \in Nat, 1 .. n = 1 .. m
    PROVE  n = m
<1>1. Cardinality(1 .. n) = n /\ Cardinality(1 .. m) = m
  BY FS_Interval
<1> QED
  BY <1>1

(* The last element of an ascending list is not before any other. *)
LEMMA LastIsGreatest ==
    ASSUME NEW n \in Nat, NEW s \in [1 .. n + 1 -> Text], Ascending(s), NEW k \in 1 .. n + 1
    PROVE  s[k] = s[n + 1] \/ ~Before(s[n + 1], s[k])
BY DEF Ascending

(* Two ascending lists that hold the same are the same. *)
SameSorted(n, m) ==
    \A s \in [1 .. n -> Text], u \in [1 .. m -> Text] :
        Ascending(s) /\ Ascending(u) /\ (\A x : Occurrences(s, x) = Occurrences(u, x)) => s = u

LEMMA SortedUnique == \A n \in Nat : \A m \in Nat : SameSorted(n, m)
<1> DEFINE T == {n \in Nat : \A m \in Nat : SameSorted(n, m)}
<1>1. 0 \in T
  <2> SUFFICES ASSUME NEW m \in Nat PROVE SameSorted(0, m)
    OBVIOUS
  <2> SUFFICES ASSUME NEW s \in [1 .. 0 -> Text], NEW u \in [1 .. m -> Text],
                      \A x : Occurrences(s, x) = Occurrences(u, x)
               PROVE  s = u
    BY DEF SameSorted
  <2>1. \A x : Occurrences(u, x) = 0
    <3> TAKE x
    <3>1. Occurrences(s, x) = 0
      <4>1. DOMAIN s = 1 .. 0 /\ \A i \in 1 .. 0 : s[i] # x
        OBVIOUS
      <4> QED
        BY <4>1, OccurrencesNone
    <3> QED
      BY <3>1
  <2>2. \A i \in 1 .. m : FALSE
    <3>1. DOMAIN u = 1 .. m
      OBVIOUS
    <3> QED
      BY <2>1, <3>1, OccurrencesNone
  <2>3. m = 0
    BY <2>2
  <2> QED
    BY <2>3
<1>2. ASSUME NEW n \in Nat, n \in T PROVE n + 1 \in T
  <2> SUFFICES ASSUME NEW m \in Nat PROVE SameSorted(n + 1, m)
    OBVIOUS
  <2>a. \A k \in Nat : SameSorted(n, k)
    BY <1>2
  <2> HIDE DEF T
  <2> SUFFICES ASSUME NEW s \in [1 .. n + 1 -> Text], NEW u \in [1 .. m -> Text],
                      Ascending(s), Ascending(u),
                      \A x : Occurrences(s, x) = Occurrences(u, x)
               PROVE  s = u
    BY DEF SameSorted
  <2>0. n + 1 \in Nat /\ n + 1 \in 1 .. n + 1
    OBVIOUS
  <2>1. \A x : (\E i \in 1 .. n + 1 : s[i] = x) <=> (\E i \in 1 .. m : u[i] = x)
    <3> TAKE x
    <3>1. Occurrences(s, x) = 0 <=> \A i \in 1 .. n + 1 : s[i] # x
      <4>1. DOMAIN s = 1 .. n + 1
        OBVIOUS
      <4> QED
        BY <2>0, <4>1, OccurrencesNone
    <3>2. Occurrences(u, x) = 0 <=> \A i \in 1 .. m : u[i] # x
      <4>1. DOMAIN u = 1 .. m
        OBVIOUS
      <4> QED
        BY <4>1, OccurrencesNone
    <3> QED
      BY <3>1, <3>2
  <2>2. PICK j \in 1 .. m : u[j] = s[n + 1]
    BY <2>0, <2>1
  <2>3. m - 1 \in Nat /\ (m - 1) + 1 = m /\ m \in 1 .. m
    BY <2>2
  <2>4. PICK k \in 1 .. n + 1 : s[k] = u[m]
    BY <2>1, <2>3
  <2>5. s[n + 1] = u[m]
    <3>1. s[k] = s[n + 1] \/ ~Before(s[n + 1], s[k])
      BY LastIsGreatest
    <3>2. u[j] = u[m] \/ ~Before(u[m], u[j])
      BY <2>2, <2>3, LastIsGreatest
    <3>3. s[n + 1] \in Text /\ u[m] \in Text
      BY <2>0, <2>3
    <3> QED
      BY <2>2, <2>4, <3>1, <3>2, <3>3, OrderFacts
  <2> DEFINE s1 == [i \in 1 .. n |-> s[i]]
             u1 == [i \in 1 .. m - 1 |-> u[i]]
  <2>6. s1 \in [1 .. n -> Text] /\ u1 \in [1 .. m - 1 -> Text]
    BY <2>3
  <2>7. Ascending(s1) /\ Ascending(u1)
    <3>1. /\ DOMAIN s1 = 1 .. n /\ DOMAIN u1 = 1 .. m - 1
          /\ \A i \in 1 .. n : s1[i] = s[i] /\ i \in 1 .. n + 1
          /\ \A i \in 1 .. m - 1 : u1[i] = u[i] /\ i \in 1 .. m
      BY <2>3
    <3>2. DOMAIN s = 1 .. n + 1 /\ DOMAIN u = 1 .. m
      OBVIOUS
    <3> HIDE DEF s1, u1
    <3> QED
      BY <3>1, <3>2 DEF Ascending
  <2>8. \A z : Occurrences(s1, z) = Occurrences(u1, z)
    <3> TAKE z
    <3>1. Occurrences(s1, z) = IF s[n + 1] = z THEN Occurrences(s, z) - 1 ELSE Occurrences(s, z)
      <4>1. DOMAIN s = 1 .. n + 1
        OBVIOUS
      <4> QED
        BY <4>1, DropLast
    <3>2. Occurrences(u1, z) = IF u[m] = z THEN Occurrences(u, z) - 1 ELSE Occurrences(u, z)
      <4>1. \A a \in Nat : DOMAIN u = 1 .. a + 1 =>
               Occurrences([i \in 1 .. a |-> u[i]], z)
                 = IF u[a + 1] = z THEN Occurrences(u, z) - 1 ELSE Occurrences(u, z)
        BY DropLast
      <4>2. DOMAIN u = 1 .. (m - 1) + 1
        BY <2>3
      <4> QED
        BY <2>3, <4>1, <4>2
    <3> HIDE DEF s1, u1
    <3> QED
      BY <2>5, <3>1, <3>2
  <2> HIDE DEF s1, u1
  <2>9. s1 = u1
    BY <2>3, <2>6, <2>7, <2>8, <2>a DEF SameSorted
  <2>10. n = m - 1
    <3>1. 1 .. n = 1 .. m - 1
      BY <2>6, <2>9
    <3> QED
      BY <2>3, <3>1, SameLength
  <2>11. \A i \in 1 .. n : s[i] = u[i]
    BY <2>9, <2>10 DEF s1, u1
  <2>12. m = n + 1 /\ \A i \in 1 .. n + 1 : s[i] = u[i]
    BY <2>3, <2>5, <2>10, <2>11
  <2> QED
    BY <2>12
<1> HIDE DEF T
<1>3. \A n \in Nat : n \in T
  BY <1>1, <1>2, SetInduction
<1> QED
  BY <1>3 DEF T

(* Sorted, two lists of links are the same exactly when they hold the same *)
(* links equally often.                                                    *)
LEMMA LinksExact ==
    ASSUME NEW l \in Seq(Text), NEW u \in Seq(Text)
    PROVE  SortedLinks(l) = SortedLinks(u) <=> \A x : Occurrences(l, x) = Occurrences(u, x)
<1>1. Len(l) \in Nat /\ Len(u) \in Nat
  OBVIOUS
<1> DEFINE a == SortedLinks(l)
           b == SortedLinks(u)
<1>2. /\ a \in [1 .. Len(l) -> Text] /\ Ascending(a) /\ \A x : Occurrences(a, x) = Occurrences(l, x)
      /\ b \in [1 .. Len(u) -> Text] /\ Ascending(b) /\ \A x : Occurrences(b, x) = Occurrences(u, x)
  BY SortedLinksFacts
<1>3. ASSUME \A x : Occurrences(l, x) = Occurrences(u, x) PROVE a = b
  <2>1. SameSorted(Len(l), Len(u))
    BY <1>1, SortedUnique
  <2> HIDE DEF a, b
  <2> QED
    BY <1>2, <1>3, <2>1 DEF SameSorted
<1>4. ASSUME a = b PROVE \A x : Occurrences(l, x) = Occurrences(u, x)
  BY <1>2, <1>4
<1> QED
  BY <1>3, <1>4
-----------------------------------------------------------------------------
(* A finite set of strings can be listed in ascending order. *)
LEMMA KeysExist ==
    ASSUME NEW S, S \subseteq Text, IsFiniteSet(S)
    PROVE  \E s \in SetToSeqs(S) : Ascending(s)
<1> DEFINE n == Cardinality(S)
<1>1. n \in Nat /\ ExistsBijection(1 .. n, S)
  BY FS_CardinalityType
<1> HIDE DEF n
<1>2. PICK f \in Bijection(1 .. n, S) : TRUE
  BY <1>1 DEF ExistsBijection
<1>3. f \in [1 .. n -> S] /\ \A i, j \in 1 .. n : i # j => f[i] # f[j]
  BY <1>2 DEF Bijection, Injection, IsInjective
<1>4. f \in [1 .. n -> Text]
  BY <1>3
<1>5. PICK p : Sorts(p, n, f)
  BY <1>1, <1>4, SortExists
<1>6. /\ p \in [1 .. n -> 1 .. n]
      /\ \A i, j \in 1 .. n : i # j => p[i] # p[j]
      /\ \A i, j \in 1 .. n : i < j => ~Before(f[p[j]], f[p[i]])
  BY <1>5 DEF Sorts, Order
<1> DEFINE s == [i \in 1 .. n |-> f[p[i]]]
<1>7. s \in [1 .. n -> S] /\ \A i, j \in 1 .. n : i # j => s[i] # s[j]
  <2>1. \A i \in 1 .. n : p[i] \in 1 .. n /\ f[p[i]] \in S
    BY <1>3, <1>6
  <2> QED
    BY <1>3, <1>6, <2>1
<1>8. DOMAIN s = 1 .. n /\ \A i, j \in 1 .. n : i < j => ~Before(s[j], s[i])
  BY <1>6
<1> HIDE DEF s
<1>9. s \in SetToSeqs(S)
  BY <1>7 DEF SetToSeqs, n
<1>10. Ascending(s)
  BY <1>8 DEF Ascending
<1> QED
  BY <1>9, <1>10

(* The pairs of a sorted map are the map. *)
LEMMA SortedMapFacts ==
    ASSUME NEW m, DOMAIN m \subseteq Text, IsFiniteSet(DOMAIN m)
    PROVE  LET pairs == SortedMap(m)
           IN  /\ \A i \in DOMAIN pairs : pairs[i][1] \in DOMAIN m /\ pairs[i][2] = m[pairs[i][1]]
               /\ \A k \in DOMAIN m : \E i \in DOMAIN pairs : pairs[i][1] = k
<1> DEFINE S == DOMAIN m
           n == Cardinality(S)
           keys == CHOOSE s \in SetToSeqs(S) : Ascending(s)
<1>1. keys \in SetToSeqs(S)
  BY KeysExist
<1>2. SortedMap(m) = [i \in DOMAIN keys |-> <<keys[i], m[keys[i]]>>]
  BY DEF SortedMap
<1> HIDE DEF keys
<1>3. /\ keys \in [1 .. n -> S]
      /\ \A i, j \in 1 .. n : i # j => keys[i] # keys[j]
  BY <1>1 DEF SetToSeqs
<1>4. n \in Nat /\ Cardinality(1 .. n) = n
  BY FS_CardinalityType, FS_Interval
<1> HIDE DEF n
<1>5. keys \in Injection(1 .. n, S)
  BY <1>3 DEF Injection, IsInjective
<1>6. keys \in Surjection(1 .. n, S)
  BY <1>4, <1>5, FS_Injection DEF n
<1>7. \A k \in S : \E i \in 1 .. n : keys[i] = k
  BY <1>6 DEF Surjection
<1> HIDE DEF S
<1>8. DOMAIN SortedMap(m) = 1 .. n /\ \A i \in 1 .. n : SortedMap(m)[i] = <<keys[i], m[keys[i]]>>
  BY <1>2, <1>3
<1> QED
  BY <1>3, <1>7, <1>8 DEF S

(* Maps are told apart by their sorted pairs. *)
LEMMA MapExact ==
    ASSUME NEW m, m = [k \in DOMAIN m |-> m[k]], DOMAIN m \subseteq Text, IsFiniteSet(DOMAIN m),
           NEW w, w = [k \in DOMAIN w |-> w[k]], DOMAIN w \subseteq Text, IsFiniteSet(DOMAIN w)
    PROVE  SortedMap(m) = SortedMap(w) <=> m = w
<1> SUFFICES ASSUME SortedMap(m) = SortedMap(w) PROVE m = w
  OBVIOUS
<1> DEFINE pairs == SortedMap(m)
<1>1. /\ \A i \in DOMAIN pairs : pairs[i][1] \in DOMAIN m /\ pairs[i][2] = m[pairs[i][1]]
      /\ \A k \in DOMAIN m : \E i \in DOMAIN pairs : pairs[i][1] = k
  BY SortedMapFacts
<1>2. /\ \A i \in DOMAIN pairs : pairs[i][1] \in DOMAIN w /\ pairs[i][2] = w[pairs[i][1]]
      /\ \A k \in DOMAIN w : \E i \in DOMAIN pairs : pairs[i][1] = k
  BY SortedMapFacts
<1> HIDE DEF pairs
<1>3. DOMAIN m = DOMAIN w /\ \A k \in DOMAIN m : m[k] = w[k]
  BY <1>1, <1>2
<1> QED
  BY <1>3
-----------------------------------------------------------------------------
(* What is decoded of a document: a list of strings and two finite maps. *)
IsFiniteMap(m) == m = [k \in DOMAIN m |-> m[k]] /\ DOMAIN m \subseteq Text /\ IsFiniteSet(DOMAIN m)

LEMMA ImagesDecoded ==
    ASSUME NEW v, IsTextList(v)
    PROVE  DecodeStrings(v) \in Seq(Text)
<1>1. CASE v.t # "array"
  BY <1>1 DEF DecodeStrings
<1>2. CASE v.t = "array"
  <2>1. v.a \in Seq(ToSet(v.a)) /\ \A i \in DOMAIN v.a : IsText(v.a[i])
    BY <1>2 DEF IsTextList, IsList
  <2>2. Len(v.a) \in Nat /\ DOMAIN v.a = 1 .. Len(v.a)
    BY <2>1
  <2>3. \A i \in DOMAIN v.a : DecodeString(v.a[i]) \in Text
    <3> TAKE i \in DOMAIN v.a
    <3>1. IsText(v.a[i])
      BY <2>1
    <3>2. <<>> \in Text
      BY DEF Text
    <3> QED
      BY <3>1, <3>2 DEF IsText, DecodeString, Text
  <2>4. DecodeStrings(v) = [i \in 1 .. Len(v.a) |-> DecodeString(v.a[i])]
    BY <1>2, <2>2 DEF DecodeStrings
  <2> QED
    BY <2>2, <2>3, <2>4
<1> QED
  BY <1>1, <1>2

LEMMA MapsDecoded ==
    ASSUME NEW v, IsMap(v)
    PROVE  IsFiniteMap(DecodeAnyMap(v)) /\ IsFiniteMap(DecodeStringMap(v))
<1> DEFINE o == Members(v)
           N == Names(v)
<1>1. Len(o) \in Nat /\ DOMAIN o = 1 .. Len(o)
  BY DEF IsMap, IsList
<1> HIDE DEF o
<1>2. N = {m[1] : m \in {o[i] : i \in DOMAIN o}}
  BY DEF Names, ToSet, o
<1>3. IsFiniteSet(DOMAIN o)
  BY <1>1, FS_Interval
<1>4. [i \in DOMAIN o |-> o[i][1]] \in Surjection(DOMAIN o, N)
  BY <1>2 DEF Surjection
<1>5. IsFiniteSet(N) /\ N \subseteq Text
  BY <1>3, <1>4, FS_Surjection DEF IsMap
<1>6. DecodeAnyMap(v) = [k \in N |-> AnyValue(Member(v, k))]
      /\ DecodeStringMap(v) = [k \in N |-> DecodeString(Member(v, k))]
  BY DEF DecodeAnyMap, DecodeStringMap
<1> HIDE DEF N
<1> QED
  BY <1>5, <1>6 DEF IsFiniteMap

(* The comparison of SameContent only asks for the links there are. *)
LEMMA LinksThere ==
    ASSUME NEW l \in Seq(Text), NEW u \in Seq(Text)
    PROVE  (\A x \in ToSet(l) \cup ToSet(u) : Occurrences(l, x) = Occurrences(u, x))
           <=> \A x : Occurrences(l, x) = Occurrences(u, x)
<1>1. ASSUME NEW s \in Seq(Text), NEW x, x \notin ToSet(s)
      PROVE  Occurrences(s, x) = 0
  <2>1. Len(s) \in Nat /\ DOMAIN s = 1 .. Len(s)
    OBVIOUS
  <2>2. \A i \in 1 .. Len(s) : s[i] # x
    BY <1>1, <2>1 DEF ToSet
  <2> QED
    BY <2>1, <2>2, OccurrencesNone
<1>2. ASSUME NEW x, x \notin ToSet(l) \cup ToSet(u)
      PROVE  Occurrences(l, x) = Occurrences(u, x)
  <2>1. Occurrences(l, x) = 0 /\ Occurrences(u, x) = 0
    BY <1>1, <1>2
  <2> QED
    BY <2>1
<1> QED
  BY <1>2

(* A product, field by field. *)
Made(text, images, price, sale, options, attributes, channel) ==
    [text |-> text, images |-> images, price |-> price, sale |-> sale,
     options |-> options, attributes |-> attributes, channel |-> channel]

WithImages(p, i) == [p EXCEPT !.images = i]

Changed(p, i, o, t) == [p EXCEPT !.images = i, !.options = o, !.attributes = t]

LEMMA MadeExcept ==
    ASSUME NEW x, NEW i, NEW r, NEW s, NEW o, NEW t, NEW c, NEW i1, NEW o1, NEW t1
    PROVE  /\ WithImages(Made(x, i, r, s, o, t, c), i1) = Made(x, i1, r, s, o, t, c)
           /\ Changed(Made(x, i, r, s, o, t, c), i1, o1, t1) = Made(x, i1, r, s, o1, t1, c)
<1>1. \A y : [y EXCEPT !.images = i1, !.options = o1, !.attributes = t1]
               = [[[y EXCEPT !.images = i1] EXCEPT !.options = o1] EXCEPT !.attributes = t1]
  OBVIOUS
<1>2. [Made(x, i, r, s, o, t, c) EXCEPT !.images = i1] = Made(x, i1, r, s, o, t, c)
  BY DEF Made
<1>3. [Made(x, i1, r, s, o, t, c) EXCEPT !.options = o1] = Made(x, i1, r, s, o1, t, c)
  BY DEF Made
<1>4. [Made(x, i1, r, s, o1, t, c) EXCEPT !.attributes = t1] = Made(x, i1, r, s, o1, t1, c)
  BY DEF Made
<1> QED
  BY <1>1, <1>2, <1>3, <1>4 DEF WithImages, Changed

(* Two documents have one hash exactly when their contents are the same:   *)
(* the sorting in normalizeForHash forgets the order of the links, and     *)
(* nothing else.                                                           *)
THEOREM HashExact ==
    ASSUME NEW a, IsDocument(a), NEW b, IsDocument(b)
    PROVE  HashNormalized(ParseSingleProduct(a)) = HashNormalized(ParseSingleProduct(b))
           <=> SameContent(ParseSingleProduct(a), ParseSingleProduct(b))
<1> DEFINE p == ParseSingleProduct(a)
           q == ParseSingleProduct(b)
           With(w, images, options, attributes) ==
               Made(w.text, images, w.price, w.sale, options, attributes, w.channel)
<1>1. p = With(p, p.images, p.options, p.attributes) /\ q = With(q, q.images, q.options, q.attributes)
  BY ProductFields DEF Made
<1>2. ASSUME NEW item, IsDocument(item)
      PROVE  LET w == ParseSingleProduct(item)
             IN  w.images \in Seq(Text) /\ IsFiniteMap(w.options) /\ IsFiniteMap(w.attributes)
  <2>1. /\ IsTextList(Member(item, "additional_image_links"))
        /\ IsMap(Member(item, "options")) /\ IsMap(Member(item, "attributes"))
    BY <1>2 DEF IsDocument
  <2>2. /\ DecodeStrings(Member(item, "additional_image_links")) \in Seq(Text)
        /\ IsFiniteMap(DecodeStringMap(Member(item, "options")))
        /\ IsFiniteMap(DecodeAnyMap(Member(item, "attributes")))
    BY <2>1, ImagesDecoded, MapsDecoded
  <2> QED
    BY <2>2, ProductFields
<1>3. /\ p.images \in Seq(Text) /\ IsFiniteMap(p.options) /\ IsFiniteMap(p.attributes)
      /\ q.images \in Seq(Text) /\ IsFiniteMap(q.options) /\ IsFiniteMap(q.attributes)
  BY <1>2
<1> HIDE DEF p, q
<1>4. ASSUME NEW w, w = With(w, w.images, w.options, w.attributes), NEW i1, NEW o1, NEW t1
      PROVE  /\ Changed(w, i1, o1, t1) = With(w, i1, o1, t1)
             /\ WithImages(w, i1) = With(w, i1, w.options, w.attributes)
  <2>1. PICK x, i, r, s, o, t, c : w = Made(x, i, r, s, o, t, c)
    BY <1>4
  <2>2. /\ w.text = x /\ w.images = i /\ w.price = r /\ w.sale = s /\ w.options = o
        /\ w.attributes = t /\ w.channel = c
    BY <2>1 DEF Made
  <2>3. /\ Changed(Made(x, i, r, s, o, t, c), i1, o1, t1) = Made(x, i1, r, s, o1, t1, c)
        /\ WithImages(Made(x, i, r, s, o, t, c), i1) = Made(x, i1, r, s, o, t, c)
    BY MadeExcept
  <2>4. /\ With(w, i1, o1, t1) = Made(x, i1, r, s, o1, t1, c)
        /\ With(w, i1, w.options, w.attributes) = Made(x, i1, r, s, o, t, c)
    BY <2>2
  <2> HIDE DEF With
  <2> QED
    BY <2>1, <2>3, <2>4
<1> DEFINE same == p.text = q.text /\ p.price = q.price /\ p.sale = q.sale /\ p.channel = q.channel
<1>a. ASSUME NEW i1, NEW o1, NEW t1, NEW i2, NEW o2, NEW t2
      PROVE  With(p, i1, o1, t1) = With(q, i2, o2, t2) <=> same /\ i1 = i2 /\ o1 = o2 /\ t1 = t2
  <2>1. ASSUME NEW w, NEW i, NEW o, NEW t
        PROVE  LET rec == With(w, i, o, t)
               IN  /\ rec.text = w.text /\ rec.price = w.price /\ rec.sale = w.sale /\ rec.channel = w.channel
                   /\ rec.images = i /\ rec.options = o /\ rec.attributes = t
    BY DEF Made
  <2>2. ASSUME With(p, i1, o1, t1) = With(q, i2, o2, t2) PROVE same /\ i1 = i2 /\ o1 = o2 /\ t1 = t2
    <3> HIDE DEF With
    <3> QED
      BY <2>1, <2>2
  <2>3. ASSUME same, i1 = i2, o1 = o2, t1 = t2 PROVE With(p, i1, o1, t1) = With(q, i2, o2, t2)
    BY <2>3
  <2> QED
    BY <2>2, <2>3
<1>b. /\ HashNormalized(p) = With(p, SortedLinks(p.images), SortedMap(p.options), SortedMap(p.attributes))
      /\ HashNormalized(q) = With(q, SortedLinks(q.images), SortedMap(q.options), SortedMap(q.attributes))
      /\ WithImages(p, <<>>) = With(p, <<>>, p.options, p.attributes)
      /\ WithImages(q, <<>>) = With(q, <<>>, q.options, q.attributes)
  <2>1. \A w : HashNormalized(w) = Changed(w, SortedLinks(w.images), SortedMap(w.options), SortedMap(w.attributes))
    BY DEF HashNormalized, Changed
  <2> HIDE DEF With
  <2> QED
    BY <1>1, <1>4, <2>1
<1> HIDE DEF With, same
<1>5. HashNormalized(p) = HashNormalized(q)
      <=> /\ same /\ SortedLinks(p.images) = SortedLinks(q.images)
          /\ SortedMap(p.options) = SortedMap(q.options)
          /\ SortedMap(p.attributes) = SortedMap(q.attributes)
  BY <1>a, <1>b
<1>6. WithImages(p, <<>>) = WithImages(q, <<>>)
      <=> same /\ p.options = q.options /\ p.attributes = q.attributes
  BY <1>a, <1>b
<1>7. /\ SortedMap(p.options) = SortedMap(q.options) <=> p.options = q.options
      /\ SortedMap(p.attributes) = SortedMap(q.attributes) <=> p.attributes = q.attributes
  BY <1>3, MapExact DEF IsFiniteMap
<1>8. SortedLinks(p.images) = SortedLinks(q.images)
      <=> \A x \in ToSet(p.images) \cup ToSet(q.images) : Occurrences(p.images, x) = Occurrences(q.images, x)
  BY <1>3, LinksExact, LinksThere
<1>9. SameContent(p, q)
      <=> /\ WithImages(p, <<>>) = WithImages(q, <<>>)
          /\ \A x \in ToSet(p.images) \cup ToSet(q.images) : Occurrences(p.images, x) = Occurrences(q.images, x)
  BY DEF SameContent, Occurrences, WithImages
<1>10. HashNormalized(p) = HashNormalized(q) <=> SameContent(p, q)
  BY <1>5, <1>6, <1>7, <1>8, <1>9
<1> QED
  BY <1>10 DEF p, q
=============================================================================
