------------------------ MODULE DeployMirror_proofs -------------------------
(* What a task does to the objects of other templates, to relay policies   *)
(* and to what earlier tasks left, and what an undeploy takes back of the  *)
(* deploy before it, for any templates, sites and stores.                  *)
(* The arguments are about places: every DN that the mirror writes or cuts *)
(* has an object of the template as its first two RNs, or a relay policy.  *)
EXTENDS DeployMirror, SequenceTheorems, WellFoundedInduction, TLAPS

-----------------------------------------------------------------------------
(* Sequences *)

LEMMA ByElements ==
  ASSUME NEW S, NEW s \in Seq(S)
  PROVE  /\ Len(s) = 2 => s = <<s[1], s[2]>>
         /\ Len(s) = 3 => s = <<s[1], s[2], s[3]>>
<1>1. ASSUME Len(s) = 2 PROVE s = <<s[1], s[2]>>
  <2>. DEFINE t == <<s[1], s[2]>>
  <2>1. t \in Seq(S) /\ Len(s) = Len(t)
    <3>1. s[1] \in S /\ s[2] \in S
      BY <1>1, ElementOfSeq
    <3>2. QED
      BY <1>1, <3>1
  <2>2. \A i \in 1..Len(s) : s[i] = t[i]
    <3>1. t[1] = s[1] /\ t[2] = s[2] /\ \A i \in 1..Len(s) : i = 1 \/ i = 2
      BY <1>1
    <3>. HIDE DEF t
    <3>2. QED
      BY <3>1
  <2>. HIDE DEF t
  <2>3. s = t
    BY <2>1, <2>2, SeqEqual
  <2>4. QED
    BY <2>3 DEF t
<1>2. ASSUME Len(s) = 3 PROVE s = <<s[1], s[2], s[3]>>
  <2>. DEFINE t == <<s[1], s[2], s[3]>>
  <2>1. t \in Seq(S) /\ Len(s) = Len(t)
    <3>1. 1 \in 1..Len(s) /\ 2 \in 1..Len(s) /\ 3 \in 1..Len(s)
      BY <1>2
    <3>2. s[1] \in S /\ s[2] \in S /\ s[3] \in S
      BY <3>1, ElementOfSeq
    <3>3. QED
      BY <1>2, <3>2
  <2>2. \A i \in 1..Len(s) : s[i] = t[i]
    <3>1. t[1] = s[1] /\ t[2] = s[2] /\ t[3] = s[3]
          /\ \A i \in 1..Len(s) : i = 1 \/ i = 2 \/ i = 3
      BY <1>2
    <3>. HIDE DEF t
    <3>2. QED
      BY <3>1
  <2>. HIDE DEF t
  <2>3. s = t
    BY <2>1, <2>2, SeqEqual
  <2>4. QED
    BY <2>3 DEF t
<1>3. QED
  BY <1>1, <1>2

LEMMA PairAppend ==
  ASSUME NEW a, NEW b
  PROVE  Append(<<a>>, b) = <<a, b>>
<1>. DEFINE S == {a, b}
            s == Append(<<a>>, b)
<1>1. s \in Seq(S) /\ Len(s) = 2 /\ s[1] = a /\ s[2] = b
  <2>1. <<a>> \in Seq(S) /\ b \in S /\ Len(<<a>>) = 1 /\ <<a>>[1] = a
    OBVIOUS
  <2>2. QED
    BY <2>1
<1>. HIDE DEF s
<1>2. s = <<s[1], s[2]>>
  BY <1>1, ByElements
<1>3. QED
  BY <1>1, <1>2 DEF s

LEMMA TripleAppend ==
  ASSUME NEW a, NEW b, NEW c
  PROVE  Append(<<a, b>>, c) = <<a, b, c>>
<1>. DEFINE S == {a, b, c}
            s == Append(<<a, b>>, c)
<1>1. s \in Seq(S) /\ Len(s) = 3 /\ s[1] = a /\ s[2] = b /\ s[3] = c
  <2>1. /\ <<a, b>> \in Seq(S) /\ c \in S /\ Len(<<a, b>>) = 2
        /\ <<a, b>>[1] = a /\ <<a, b>>[2] = b
    OBVIOUS
  <2>2. QED
    BY <2>1
<1>. HIDE DEF s
<1>2. s = <<s[1], s[2], s[3]>>
  BY <1>1, ByElements
<1>3. QED
  BY <1>1, <1>2 DEF s

LEMMA Tuples ==
  ASSUME NEW a, NEW b, NEW c
  PROVE  /\ Append(<<a>>, b) = <<a, b>> /\ Append(<<a, b>>, c) = <<a, b, c>>
         /\ Last(<<a>>) = a /\ Last(<<a, b>>) = b /\ Last(<<a, b, c>>) = c
         /\ Front(<<a, b, c>>) = <<a, b>>
<1>. DEFINE S == {a, b, c}
<1>1. Append(<<a>>, b) = <<a, b>>
  BY PairAppend
<1>2. Append(<<a, b>>, c) = <<a, b, c>>
  BY TripleAppend
<1>3. Last(<<a>>) = a /\ Last(<<a, b>>) = b /\ Last(<<a, b, c>>) = c
  BY DEF Last
<1>4. Front(<<a, b, c>>) = <<a, b>>
  <2>. DEFINE s == SubSeq(<<a, b, c>>, 1, 2)
  <2>1. s \in Seq(S) /\ Len(s) = 2 /\ s[1] = a /\ s[2] = b
    <3>1. /\ <<a, b, c>> \in Seq(S) /\ Len(<<a, b, c>>) = 3
          /\ <<a, b, c>>[1] = a /\ <<a, b, c>>[2] = b
      OBVIOUS
    <3>2. QED
      BY <3>1
  <2>. HIDE DEF s
  <2>2. s = <<s[1], s[2]>>
    BY <2>1, ByElements
  <2>3. QED
    BY <2>1, <2>2 DEF s, Front
<1>5. QED
  BY <1>1, <1>2, <1>3, <1>4

LEMMA TupleSeqs ==
  ASSUME NEW a, NEW b, NEW c
  PROVE  /\ <<a>> \in Seq(Range(<<a>>)) /\ <<a, b>> \in Seq(Range(<<a, b>>))
         /\ <<a, b, c>> \in Seq(Range(<<a, b, c>>))
<1>1. a \in Range(<<a>>)
  BY DEF Range
<1>2. a \in Range(<<a, b>>) /\ b \in Range(<<a, b>>)
  BY DEF Range
<1>3. a \in Range(<<a, b, c>>) /\ b \in Range(<<a, b, c>>) /\ c \in Range(<<a, b, c>>)
  BY DEF Range
<1>4. QED
  BY <1>1, <1>2, <1>3

LEMMA PrefixFacts ==
  ASSUME NEW R, NEW r \in Seq(R), NEW S, NEW x \in Seq(S)
  PROVE  /\ IsPrefix(r, x) => Len(r) <= Len(x) /\ \A i \in 1..Len(r) : r[i] = x[i]
         /\ IsPrefix(x, x)
<1>1. IsPrefix(x, x)
  BY DEF IsPrefix
<1>2. ASSUME IsPrefix(r, x), NEW i \in 1..Len(r)
      PROVE  Len(r) <= Len(x) /\ r[i] = x[i]
  <2>1. Len(r) <= Len(x) /\ SubSeq(r, 1, Len(r)) = SubSeq(x, 1, Len(r))
    BY <1>2 DEF IsPrefix
  <2>2. SubSeq(r, 1, Len(r))[i] = r[i]
    OBVIOUS
  <2>3. SubSeq(x, 1, Len(r))[i] = x[i]
    BY <2>1
  <2>4. QED
    BY <2>1, <2>2, <2>3
<1>3. QED
  BY <1>1, <1>2 DEF IsPrefix

LEMMA ShapedPrefix ==
  ASSUME NEW r, NEW x, Shaped(r), Shaped(x), IsPrefix(r, x)
  PROVE  Len(r) \in Nat /\ Len(x) \in Nat /\ Len(r) <= Len(x) /\ \A i \in 1..Len(r) : r[i] = x[i]
BY PrefixFacts DEF Shaped

-----------------------------------------------------------------------------
(* The places of what a template stands for *)

Tops(d) == BdDns(d) \cup {AnpDn(d.tenant, p) : p \in d.anps}
             \cup {Append(Tn(d.tenant), r) : r \in DOMAIN d.plain}

(* x is below the tenant a, at or below the object t.                      *)
At(x, a, t) == /\ Shaped(x) /\ Len(x) \in 2..4 /\ t = <<x[1], x[2]>>
               /\ x[1] = <<"tn", a>> /\ x[2][1] # "relayp"

LEMMA PairAt ==
  ASSUME NEW a, NEW r, r[1] \notin {"relayp", "dhcplbl"}
  PROVE  LET x == <<<<"tn", a>>, r>> IN At(x, a, x) /\ ~ IsLabel(x) /\ ~ IsRelay(x)
<1>. DEFINE x == <<<<"tn", a>>, r>>
<1>1. Last(x) = r /\ x \in Seq(Range(x))
  BY Tuples, TupleSeqs
<1>2. Len(x) = 2 /\ x[1] = <<"tn", a>> /\ x[2] = r /\ x # <<>>
  OBVIOUS
<1>. HIDE DEF x
<1>3. QED
  BY <1>1, <1>2 DEF At, Shaped, IsLabel, IsRelay, x

LEMMA TripleAt ==
  ASSUME NEW a, NEW r, NEW c, r[1] # "relayp", c[1] # "relayp", c[1] = "dhcplbl" => r[1] = "BD"
  PROVE  LET x == <<<<"tn", a>>, r, c>>
         IN  At(x, a, <<<<"tn", a>>, r>>) /\ (IsLabel(x) <=> c[1] = "dhcplbl") /\ ~ IsRelay(x)
<1>1. PICK p : p = <<"tn", a>>
  OBVIOUS
<1>. DEFINE x == <<p, r, c>>
<1>2. Last(x) = c /\ x \in Seq(Range(x))
  <2>1. Last(x) = c
    BY DEF Last
  <2>2. x \in Seq(Range(x))
    BY TupleSeqs
  <2>3. QED
    BY <2>1, <2>2
<1>3. Len(x) = 3 /\ x[1] = p /\ x[2] = r /\ x # <<>> /\ <<p, r>> = <<x[1], x[2]>>
  OBVIOUS
<1>. HIDE DEF x
<1>4. ~ IsRelay(x) /\ (IsLabel(x) <=> c[1] = "dhcplbl")
  BY <1>2 DEF IsLabel, IsRelay
<1>5. Shaped(x)
  <2>1. IsLabel(x) => Len(x) = 3 /\ x[2][1] = "BD"
    BY <1>3, <1>4
  <2>2. QED
    BY <1>2, <1>3, <1>4, <2>1, Zenon DEF Shaped
<1>6. At(x, a, <<p, r>>)
  <2>1. Len(x) \in 2..4 /\ x[2][1] # "relayp"
    BY <1>3
  <2>2. QED
    BY <1>1, <1>3, <1>5, <2>1, Zenon DEF At
<1>7. /\ At(<<p, r, c>>, a, <<p, r>>) /\ ~ IsRelay(<<p, r, c>>)
      /\ IsLabel(<<p, r, c>>) <=> c[1] = "dhcplbl"
  BY <1>4, <1>6 DEF x
<1>8. QED
  BY <1>1, <1>7, Zenon

LEMMA TopFacts ==
  ASSUME NEW d, DesignOk(d)
  PROVE  /\ \A t \in Tops(d) : At(t, d.tenant, t) /\ ~ IsLabel(t) /\ ~ IsRelay(t)
         /\ Tops(d) \subseteq ObjectDns(d)
<1>1. ASSUME NEW t \in BdDns(d) PROVE At(t, d.tenant, t) /\ ~ IsLabel(t) /\ ~ IsRelay(t)
  <2>1. PICK b : t = <<<<"tn", d.tenant>>, <<"BD", b>>>>
    BY <1>1 DEF BdDns, BdDn
  <2>2. <<"BD", b>>[1] \notin {"relayp", "dhcplbl"}
    OBVIOUS
  <2>3. QED
    BY <2>1, <2>2, PairAt
<1>2. ASSUME NEW p \in d.anps
      PROVE  LET t == AnpDn(d.tenant, p) IN At(t, d.tenant, t) /\ ~ IsLabel(t) /\ ~ IsRelay(t)
  BY PairAt DEF AnpDn
<1>3. ASSUME NEW r \in DOMAIN d.plain
      PROVE  LET t == Append(Tn(d.tenant), r) IN At(t, d.tenant, t) /\ ~ IsLabel(t) /\ ~ IsRelay(t)
  <2>1. r[1] \notin {"relayp", "dhcplbl"}
    BY DEF DesignOk
  <2>2. Append(Tn(d.tenant), r) = <<<<"tn", d.tenant>>, r>>
    BY Tuples DEF Tn
  <2>3. QED
    BY <2>1, <2>2, PairAt
<1>4. QED
  BY <1>1, <1>2, <1>3 DEF Tops, ObjectDns

LEMMA LabelFacts ==
  ASSUME NEW d, DesignOk(d), NEW x \in LabelDns(d)
  PROVE  /\ IsLabel(x) /\ Of(x, d.tenant) /\ ~ IsRelay(x)
         /\ \E t \in BdDns(d) : At(x, d.tenant, t) /\ Front(x) = t
<1>1. PICK b \in DOMAIN d.bds : \E l \in d.bds[b].labels : x = LabelDn(d.tenant, b, l)
  BY DEF LabelDns
<1>2. PICK l : x = <<<<"tn", d.tenant>>, <<"BD", b>>, <<"dhcplbl", l>>>>
  BY <1>1 DEF LabelDn
<1>3. At(x, d.tenant, BdDn(d.tenant, b)) /\ IsLabel(x) /\ ~ IsRelay(x)
  BY <1>2, TripleAt DEF BdDn
<1>4. Front(x) = BdDn(d.tenant, b)
  BY <1>2, Tuples DEF BdDn
<1>5. QED
  BY <1>2, <1>3, <1>4 DEF BdDns, Of

LEMMA ObjectFacts ==
  ASSUME NEW d, DesignOk(d), NEW x \in ObjectDns(d)
  PROVE  /\ \E t \in Tops(d) : At(x, d.tenant, t)
         /\ ~ IsLabel(x) /\ ~ IsRelay(x)
         /\ x \in EpgDns(d) => Len(x) = 3 /\ x[2][1] = "ap"
<1>1. CASE x \in Tops(d) \ EpgDns(d)
  BY <1>1, TopFacts
<1>2. CASE x \in EpgDns(d)
  <2>1. PICK e \in DOMAIN d.epgs : x = <<<<"tn", d.tenant>>, <<"ap", e[1]>>, <<"epg", e[2]>>>>
    BY <1>2 DEF EpgDns, EpgDn
  <2>2. At(x, d.tenant, AnpDn(d.tenant, e[1])) /\ ~ IsLabel(x) /\ ~ IsRelay(x)
    BY <2>1, TripleAt DEF AnpDn
  <2>3. e[1] \in d.anps
    BY DEF DesignOk
  <2>4. QED
    BY <2>1, <2>2, <2>3 DEF Tops
<1>3. QED
  BY <1>1, <1>2 DEF ObjectDns, Tops

LEMMA SeqRange ==
  ASSUME NEW S, NEW x \in Seq(S)
  PROVE  x \in Seq(Range(x))
<1>1. \A i \in 1..Len(x) : x[i] \in Range(x)
  BY DEF Range
<1>2. x \in [1..Len(x) -> Range(x)] /\ Len(x) \in Nat
  BY <1>1
<1>3. QED
  BY <1>2, SeqDef

(* What is one RN below such an x, and is neither a label nor a relay.     *)
LEMMA BelowFacts ==
  ASSUME NEW y, Shaped(y), Len(y) \in {2, 3}, NEW c, c[1] \notin {"relayp", "dhcplbl"}
  PROVE  LET x == Append(y, c)
         IN  /\ Shaped(x) /\ ~ IsLabel(x) /\ ~ IsRelay(x)
             /\ Len(x) = Len(y) + 1 /\ x[1] = y[1] /\ x[2] = y[2]
<1>. DEFINE S == Range(y) \cup {c}
            x == Append(y, c)
<1>1. y \in Seq(S)
  BY DEF Shaped
<1>2. x \in Seq(S) /\ Len(x) = Len(y) + 1 /\ x[1] = y[1] /\ x[2] = y[2] /\ x[Len(x)] = c
  BY <1>1
<1>. HIDE DEF x, S
<1>3. ~ IsLabel(x) /\ ~ IsRelay(x)
  BY <1>2 DEF IsLabel, IsRelay, Last
<1>4. Shaped(x)
  <2>1. x \in Seq(Range(x)) /\ x # <<>>
    BY <1>2, SeqRange
  <2>2. QED
    BY <1>3, <2>1 DEF Shaped
<1>5. QED
  BY <1>2, <1>3, <1>4 DEF x

LEMMA BelowAt ==
  ASSUME NEW a, NEW t, NEW y, At(y, a, t), Len(y) \in {2, 3}, NEW c, c[1] \notin {"relayp", "dhcplbl"}
  PROVE  LET x == Append(y, c) IN At(x, a, t) /\ ~ IsLabel(x) /\ ~ IsRelay(x)
<1>. DEFINE x == Append(y, c)
<1>1. /\ Shaped(x) /\ ~ IsLabel(x) /\ ~ IsRelay(x)
      /\ Len(x) = Len(y) + 1 /\ x[1] = y[1] /\ x[2] = y[2]
  BY BelowFacts DEF At
<1>. HIDE DEF x
<1>2. t = <<y[1], y[2]>> /\ y[1] = <<"tn", a>> /\ y[2][1] # "relayp"
  BY DEF At
<1>3. Len(x) \in 2..4
  <2>1. CASE Len(y) = 2
    BY <1>1, <2>1
  <2>2. CASE Len(y) = 3
    BY <1>1, <2>2
  <2>3. QED
    BY <2>1, <2>2
<1>4. t = <<x[1], x[2]>> /\ x[1] = <<"tn", a>> /\ x[2][1] # "relayp"
  BY <1>1, <1>2
<1>5. At(x, a, t)
  BY <1>1, <1>3, <1>4, Zenon DEF At
<1>6. QED
  BY <1>1, <1>5 DEF x

LEMMA TenantFacts ==
  ASSUME NEW a
  PROVE  Shaped(Tn(a)) /\ Len(Tn(a)) = 1 /\ ~ IsRelay(Tn(a)) /\ ~ IsLabel(Tn(a))
<1>1. Last(Tn(a)) = <<"tn", a>> /\ Len(Tn(a)) = 1 /\ Tn(a) # <<>>
  BY DEF Tn, Last
<1>2. Tn(a) \in Seq(Range(Tn(a)))
  BY TupleSeqs DEF Tn
<1>3. ~ IsLabel(Tn(a)) /\ ~ IsRelay(Tn(a))
  BY <1>1 DEF IsLabel, IsRelay
<1>4. QED
  BY <1>1, <1>2, <1>3 DEF Shaped

LEMMA KidFacts ==
  ASSUME NEW d, DesignOk(d), NEW c,
         \/ \E r \in DOMAIN d.plain : c \in d.plain[r]
         \/ \E b \in DOMAIN d.bds : c \in d.bds[b].kids
         \/ \E s \in DOMAIN d.sites, e \in DOMAIN d.epgs : c \in EpgKids(d, s, e)
  PROVE  c[1] \notin {"dhcplbl", "relayp"}
<1>. DEFINE All == (UNION {d.plain[r] : r \in DOMAIN d.plain})
                     \cup (UNION {d.bds[b].kids : b \in DOMAIN d.bds})
                     \cup (UNION {d.epgs[e] : e \in DOMAIN d.epgs})
                     \cup (UNION {UNION {d.sites[s][e] : e \in DOMAIN d.sites[s]} : s \in DOMAIN d.sites})
<1>1. c \in All
  <2>1. CASE \E r \in DOMAIN d.plain : c \in d.plain[r]
    BY <2>1
  <2>2. CASE \E b \in DOMAIN d.bds : c \in d.bds[b].kids
    BY <2>2
  <2>3. ASSUME NEW s \in DOMAIN d.sites, NEW e \in DOMAIN d.epgs, c \in EpgKids(d, s, e)
        PROVE  c \in All
    <3>1. CASE c \in d.epgs[e]
      BY <3>1
    <3>2. CASE e \in DOMAIN d.sites[s] /\ c \in d.sites[s][e]
      BY <3>2
    <3>3. QED
      BY <2>3, <3>1, <3>2 DEF EpgKids
  <2>4. QED
    BY <2>1, <2>2, <2>3
<1>. HIDE DEF All
<1>2. \A k \in All : k[1] \notin {"dhcplbl", "relayp"}
  BY DEF DesignOk, All
<1>3. QED
  BY <1>1, <1>2

LEMMA DeclaredFacts ==
  ASSUME NEW d, DesignOk(d), NEW s \in DOMAIN d.sites, NEW x \in Declared(d, s)
  PROVE  /\ x = Tn(d.tenant) \/ \E t \in Tops(d) : At(x, d.tenant, t)
         /\ Shaped(x) /\ ~ IsRelay(x)
         /\ IsLabel(x) => x \in LabelDns(d)
<1>. DEFINE a == d.tenant
            Fine(y) == (\E t \in Tops(d) : At(y, a, t)) /\ ~ IsRelay(y)
            Kid(c) == c[1] \notin {"dhcplbl", "relayp"}
<1>1. ASSUME NEW r \in DOMAIN d.plain, NEW c \in d.plain[r]
      PROVE  LET y == <<<<"tn", a>>, r, c>> IN Fine(y) /\ ~ IsLabel(y)
  <2>1. PICK p : p = <<"tn", a>>
    OBVIOUS
  <2>2. Append(Tn(a), r) = <<p, r>> /\ Append(<<p, r>>, c) = <<p, r, c>>
    <3>1. Append(<<p>>, r) = <<p, r>> /\ Append(<<p, r>>, c) = <<p, r, c>>
      BY PairAppend, TripleAppend, Zenon
    <3>2. Tn(a) = <<p>>
      BY <2>1 DEF Tn
    <3>3. QED
      BY <3>1, <3>2, Zenon
  <2>3. <<p, r>> \in Tops(d) /\ Len(<<p, r>>) = 2
    BY <2>2 DEF Tops
  <2>4. At(<<p, r>>, a, <<p, r>>)
    BY <2>3, TopFacts
  <2>5. Kid(c)
    BY KidFacts
  <2>6. Fine(<<p, r, c>>) /\ ~ IsLabel(<<p, r, c>>)
    BY <2>2, <2>3, <2>4, <2>5, BelowAt
  <2>7. QED
    BY <2>1, <2>6
<1>2. ASSUME NEW b \in DOMAIN d.bds, NEW c \in d.bds[b].kids
      PROVE  LET y == Append(BdDn(a, b), c) IN Fine(y) /\ ~ IsLabel(y)
  <2>1. BdDn(a, b) \in Tops(d) /\ Len(BdDn(a, b)) = 2
    BY DEF Tops, BdDns, BdDn
  <2>2. At(BdDn(a, b), a, BdDn(a, b))
    BY <2>1, TopFacts
  <2>3. Kid(c)
    BY KidFacts
  <2>4. QED
    BY <2>1, <2>2, <2>3, BelowAt
<1>3. ASSUME NEW e \in DOMAIN d.epgs, NEW c \in EpgKids(d, s, e)
      PROVE  LET y == Append(EpgDn(a, e), c) IN Fine(y) /\ ~ IsLabel(y)
  <2>1. EpgDn(a, e) \in ObjectDns(d) /\ EpgDn(a, e) \in EpgDns(d)
    BY DEF ObjectDns, EpgDns
  <2>2. PICK t \in Tops(d) : At(EpgDn(a, e), a, t)
    BY <2>1, ObjectFacts
  <2>3. Len(EpgDn(a, e)) = 3
    BY DEF EpgDn
  <2>4. Kid(c)
    BY KidFacts
  <2>5. QED
    BY <2>2, <2>3, <2>4, BelowAt
<1>4. ASSUME x \in LabelDns(d) PROVE Fine(x)
  BY <1>4, LabelFacts DEF Tops
<1>5. ASSUME x \in ObjectDns(d) PROVE Fine(x) /\ ~ IsLabel(x)
  BY <1>5, ObjectFacts
<1>6. x = Tn(a) \/ x \in LabelDns(d) \/ (Fine(x) /\ ~ IsLabel(x))
  <2>. HIDE DEF Fine
  <2>1. CASE x = Tn(a) \/ x \in LabelDns(d)
    BY <2>1
  <2>2. CASE x \in ObjectDns(d)
    BY <2>2, <1>5
  <2>3. CASE \E r \in DOMAIN d.plain : \E c \in d.plain[r] : x = <<<<"tn", a>>, r, c>>
    BY <2>3, <1>1
  <2>4. CASE \E b \in DOMAIN d.bds : \E c \in d.bds[b].kids : x = Append(BdDn(a, b), c)
    BY <2>4, <1>2
  <2>5. CASE \E e \in DOMAIN d.epgs : \E c \in EpgKids(d, s, e) : x = Append(EpgDn(a, e), c)
    BY <2>5, <1>3
  <2>6. QED
    BY <2>1, <2>2, <2>3, <2>4, <2>5 DEF Declared
<1>7. Fine(x) => Shaped(x)
  BY DEF At
<1>8. QED
  BY <1>4, <1>6, <1>7, TenantFacts

LEMMA RelayDnFacts ==
  ASSUME NEW a, NEW l
  PROVE  LET x == RelayDn(a, l)
         IN  /\ Shaped(x) /\ Len(x) = 2 /\ IsRelay(x) /\ ~ IsLabel(x)
             /\ x[1] = <<"tn", a>> /\ x[2] = <<"relayp", l>> /\ Last(x) = <<"relayp", l>>
<1>. DEFINE x == RelayDn(a, l)
<1>1. Last(x) = <<"relayp", l>> /\ x \in Seq(Range(x))
  BY Tuples, TupleSeqs DEF RelayDn
<1>2. Len(x) = 2 /\ x[1] = <<"tn", a>> /\ x[2] = <<"relayp", l>> /\ x # <<>>
  BY DEF RelayDn
<1>. HIDE DEF x
<1>3. IsRelay(x) /\ ~ IsLabel(x)
  BY <1>1 DEF IsRelay, IsLabel
<1>4. Shaped(x)
  BY <1>1, <1>2, <1>3 DEF Shaped
<1>5. QED
  BY <1>1, <1>2, <1>3, <1>4 DEF x

LEMMA RelayFacts ==
  ASSUME NEW sch, NEW d, NEW x \in RelayDns(sch, d)
  PROVE  /\ Shaped(x) /\ ~ IsLabel(x) /\ Len(x) >= 2
         /\ \E y \in LabelDns(d) : x[1] = <<"tn", d.tenant>> /\ x[2] = <<"relayp", Last(y)[2]>>
<1>. DEFINE named == {Last(y)[2] : y \in LabelDns(d)} \cap DOMAIN policies[d.tenant]
<1>1. PICK l \in named : x = RelayDn(d.tenant, l)
                         \/ \E v : x = Append(RelayDn(d.tenant, l), <<"rsprov", v>>)
  BY DEF RelayDns
<1>2. \E y \in LabelDns(d) : Last(y)[2] = l
  OBVIOUS
<1>. HIDE DEF named
<1>. DEFINE r == RelayDn(d.tenant, l)
<1>3. /\ Shaped(r) /\ Len(r) = 2 /\ ~ IsLabel(r)
      /\ r[1] = <<"tn", d.tenant>> /\ r[2] = <<"relayp", l>>
  BY RelayDnFacts
<1>4. CASE x = r
  BY <1>2, <1>3, <1>4
<1>5. ASSUME NEW v, x = Append(r, <<"rsprov", v>>)
      PROVE  /\ Shaped(x) /\ ~ IsLabel(x) /\ Len(x) >= 2
             /\ x[1] = <<"tn", d.tenant>> /\ x[2] = <<"relayp", l>>
  <2>1. PICK p : p = <<"rsprov", v>>
    OBVIOUS
  <2>. DEFINE z == Append(r, p)
  <2>2. /\ Shaped(z) /\ ~ IsLabel(z) /\ Len(z) = Len(r) + 1
        /\ z[1] = r[1] /\ z[2] = r[2]
    BY <1>3, <2>1, BelowFacts
  <2>3. x = z
    BY <1>5, <2>1
  <2>. HIDE DEF z
  <2>4. QED
    BY <1>3, <2>2, <2>3
<1>6. QED
  BY <1>1, <1>2, <1>4, <1>5

LEMMA NamedRelay ==
  ASSUME NEW sch, NEW d, NEW y \in LabelDns(d), Last(y)[2] \in DOMAIN policies[d.tenant]
  PROVE  RelayDn(d.tenant, Last(y)[2]) \in RelayDns(sch, d)
BY DEF RelayDns

-----------------------------------------------------------------------------
(* What is cut *)

ShapedStore(st) == \A x \in DOMAIN st : Shaped(x)

Orphans(st, a) == {x \in DOMAIN st : IsRelay(x) /\ Of(x, a) /\ Last(x)[2] \notin Labelled(st, a)}

LEMMA CutFacts ==
  ASSUME NEW st, NEW ds
  PROVE  /\ DOMAIN Cut(st, ds) = {x \in DOMAIN st : ~ Under(x, ds)}
         /\ \A x \in DOMAIN Cut(st, ds) : Cut(st, ds)[x] = st[x]
BY DEF Cut, Restrict

LEMMA MergedFacts ==
  ASSUME NEW st, NEW ds
  PROVE  /\ DOMAIN Merged(st, ds) = DOMAIN st \cup ds
         /\ \A x \in DOMAIN st : Merged(st, ds)[x] = st[x]
BY DEF Merged

(* A relay policy is the second RN of everything below it. *)
LEMMA OrphanFacts ==
  ASSUME NEW st, ShapedStore(st), NEW a, NEW x, Shaped(x), NEW o \in Orphans(st, a), IsPrefix(o, x)
  PROVE  /\ Len(x) \in Nat /\ Len(x) >= 2 /\ x[1] = <<"tn", a>> /\ x[2] = Last(o) /\ x[2][1] = "relayp"
         /\ x[2][2] \notin Labelled(st, a)
<1>1. Shaped(o) /\ IsRelay(o) /\ Of(o, a) /\ Last(o)[2] \notin Labelled(st, a)
  BY DEF Orphans, ShapedStore
<1>2. Len(o) = 2 /\ Last(o) = o[2] /\ o[1] = <<"tn", a>> /\ o[2][1] = "relayp"
  BY <1>1 DEF Shaped, IsRelay, Of, Last
<1>3. Len(o) <= Len(x) /\ Len(x) \in Nat /\ o[1] = x[1] /\ o[2] = x[2]
  BY <1>1, <1>2, ShapedPrefix
<1>4. QED
  BY <1>1, <1>2, <1>3

LEMMA PrunedFacts ==
  ASSUME NEW st, ShapedStore(st), NEW a
  PROVE  /\ DOMAIN Pruned(st, a) = {x \in DOMAIN st : ~ Under(x, Orphans(st, a))}
         /\ \A x \in DOMAIN Pruned(st, a) : Pruned(st, a)[x] = st[x]
         /\ \A x \in DOMAIN st : Len(x) = 1 \/ x[2][1] # "relayp" => x \in DOMAIN Pruned(st, a)
         /\ \A x \in DOMAIN st : x[2][2] \in Labelled(st, a) => x \in DOMAIN Pruned(st, a)
         /\ \A x \in DOMAIN st : x[1] # <<"tn", a>> => x \in DOMAIN Pruned(st, a)
<1>1. Pruned(st, a) = Cut(st, Orphans(st, a))
  BY DEF Pruned, Orphans
<1>2. ASSUME NEW x \in DOMAIN st, Under(x, Orphans(st, a))
      PROVE  Len(x) # 1 /\ x[2][1] = "relayp" /\ x[2][2] \notin Labelled(st, a) /\ x[1] = <<"tn", a>>
  <2>1. PICK o \in Orphans(st, a) : IsPrefix(o, x)
    BY <1>2 DEF Under
  <2>2. Shaped(x)
    BY DEF ShapedStore
  <2>3. Len(x) \in Nat /\ Len(x) >= 2 /\ x[1] = <<"tn", a>> /\ x[2][1] = "relayp"
        /\ x[2][2] \notin Labelled(st, a)
    BY <2>1, <2>2, OrphanFacts
  <2>4. QED
    BY <2>3
<1>. DEFINE P == Pruned(st, a)
            O == Orphans(st, a)
<1>3. DOMAIN P = {x \in DOMAIN st : ~ Under(x, O)} /\ \A x \in DOMAIN P : P[x] = st[x]
  <2>1. \A ds : /\ DOMAIN Cut(st, ds) = {x \in DOMAIN st : ~ Under(x, ds)}
                /\ \A x \in DOMAIN Cut(st, ds) : Cut(st, ds)[x] = st[x]
    BY CutFacts
  <2>. HIDE DEF O
  <2>2. P = Cut(st, O)
    BY <1>1 DEF O
  <2>. HIDE DEF P
  <2>3. QED
    BY <2>1, <2>2, Zenon
<1>. HIDE DEF P, O
<1>4. \A x \in DOMAIN st : x \notin DOMAIN P =>
        Len(x) # 1 /\ x[2][1] = "relayp" /\ x[2][2] \notin Labelled(st, a) /\ x[1] = <<"tn", a>>
  BY <1>2, <1>3 DEF O
<1>5. /\ \A x \in DOMAIN st : Len(x) = 1 \/ x[2][1] # "relayp" => x \in DOMAIN P
      /\ \A x \in DOMAIN st : x[2][2] \in Labelled(st, a) => x \in DOMAIN P
      /\ \A x \in DOMAIN st : x[1] # <<"tn", a>> => x \in DOMAIN P
  BY <1>4
<1>6. QED
  BY <1>3, <1>5, Zenon DEF P, O

LEMMA PrunedWithin ==
  ASSUME NEW st, ShapedStore(st), NEW a
  PROVE  /\ DOMAIN Pruned(st, a) \subseteq DOMAIN st /\ ShapedStore(Pruned(st, a))
         /\ \A x \in DOMAIN Pruned(st, a) : Pruned(st, a)[x] = st[x]
<1>. DEFINE P == Pruned(st, a)
<1>1. DOMAIN P \subseteq DOMAIN st /\ \A x \in DOMAIN P : P[x] = st[x]
  BY PrunedFacts
<1>. HIDE DEF P
<1>2. QED
  BY <1>1 DEF ShapedStore, P

(* Pruning takes no label, and the relays that are left are named. *)
LEMMA PrunedFit ==
  ASSUME NEW st, ShapedStore(st), NEW a
  PROVE  /\ Labelled(Pruned(st, a), a) = Labelled(st, a)
         /\ Relays(Pruned(st, a), a) = Relays(st, a) \cap Labelled(st, a)
<1>. DEFINE P == Pruned(st, a)
<1>1. DOMAIN P \subseteq DOMAIN st
  BY PrunedFacts
<1>. HIDE DEF P
<1>2. ASSUME NEW y \in DOMAIN st, IsLabel(y) PROVE y \in DOMAIN P
  <2>1. y[2][1] = "BD"
    BY <1>2 DEF ShapedStore, Shaped
  <2>2. QED
    BY <2>1, PrunedFacts DEF P
<1>3. ASSUME NEW x \in DOMAIN st, IsRelay(x), Of(x, a)
      PROVE  x \in DOMAIN P <=> Last(x)[2] \in Labelled(st, a)
  <2>1. Shaped(x) /\ Len(x) = 2 /\ Last(x) = x[2]
    BY <1>3 DEF ShapedStore, Shaped, Last
  <2>2. CASE Last(x)[2] \in Labelled(st, a)
    BY <2>1, <2>2, PrunedFacts DEF P
  <2>3. CASE Last(x)[2] \notin Labelled(st, a)
    <3>1. x \in Orphans(st, a) /\ IsPrefix(x, x)
      BY <1>3, <2>1, <2>3, PrefixFacts DEF Orphans, Shaped
    <3>2. QED
      BY <2>3, <3>1, PrunedFacts DEF P, Under
  <2>4. QED
    BY <2>2, <2>3
<1>4. Labelled(P, a) = Labelled(st, a)
  BY <1>1, <1>2 DEF Labelled
<1>5. Relays(P, a) = Relays(st, a) \cap Labelled(st, a)
  BY <1>1, <1>3 DEF Relays
<1>6. QED
  BY <1>4, <1>5 DEF P

LEMMA PairPrefix ==
  ASSUME NEW x, Shaped(x), Len(x) >= 2
  PROVE  IsPrefix(<<x[1], x[2]>>, x)
<1>. DEFINE S == Range(x)
            p == <<x[1], x[2]>>
<1>1. x \in Seq(S) /\ Len(x) \in Nat
  BY DEF Shaped
<1>2. x[1] \in S /\ x[2] \in S
  BY <1>1
<1>. HIDE DEF S
<1>3. p \in Seq(S) /\ Len(p) = 2 /\ p[1] = x[1] /\ p[2] = x[2]
  BY <1>2
<1>. HIDE DEF p
<1>4. SubSeq(p, 1, 2) = SubSeq(x, 1, 2)
  BY <1>1, <1>3
<1>5. IsPrefix(p, x)
  BY <1>1, <1>3, <1>4 DEF IsPrefix
<1>6. QED
  BY <1>5 DEF p

(* What a deploy or an undeploy cuts before it prunes is an object of the  *)
(* template or a label below one of its BDs.                               *)
LEMMA TakenFacts ==
  ASSUME NEW d, DesignOk(d), NEW st, ShapedStore(st), NEW x, Shaped(x),
         NEW c \in StaleLabels(st, d) \cup ObjectDns(d), IsPrefix(c, x)
  PROVE  /\ Len(x) \in Nat /\ Len(x) >= 2 /\ x[2][1] # "relayp" /\ <<x[1], x[2]>> \in ObjectDns(d)
         /\ c \in StaleLabels(st, d) => Len(x) >= 3 /\ x[3][1] = "dhcplbl"
<1>1. CASE c \in ObjectDns(d)
  <2>1. PICK t \in Tops(d) : At(c, d.tenant, t)
    BY <1>1, ObjectFacts
  <2>2. t \in ObjectDns(d)
    BY TopFacts
  <2>3. Shaped(c) /\ Len(c) \in Nat /\ Len(c) >= 2 /\ t = <<c[1], c[2]>> /\ c[2][1] # "relayp"
    BY <2>1 DEF At
  <2>4. Len(c) <= Len(x) /\ Len(x) \in Nat /\ c[1] = x[1] /\ c[2] = x[2]
    BY <2>3, ShapedPrefix
  <2>5. Len(x) >= 2 /\ x[2][1] # "relayp" /\ <<x[1], x[2]>> \in ObjectDns(d)
    BY <2>2, <2>3, <2>4
  <2>6. c \notin StaleLabels(st, d)
    BY <1>1, ObjectFacts DEF StaleLabels
  <2>7. QED
    BY <2>4, <2>5, <2>6
<1>2. CASE c \in StaleLabels(st, d)
  <2>1. Shaped(c) /\ IsLabel(c) /\ Front(c) \in BdDns(d)
    BY <1>2 DEF StaleLabels, ShapedStore
  <2>2. Len(c) = 3 /\ c[3][1] = "dhcplbl" /\ c[2][1] = "BD"
    BY <2>1 DEF Shaped, IsLabel, Last
  <2>3. Front(c) = <<c[1], c[2]>>
    <3>1. c = <<c[1], c[2], c[3]>>
      BY <2>1, <2>2, ByElements DEF Shaped
    <3>2. Front(<<c[1], c[2], c[3]>>) = <<c[1], c[2]>>
      BY Tuples
    <3>3. QED
      BY <3>1, <3>2, Zenon
  <2>4. Len(c) <= Len(x) /\ Len(x) \in Nat /\ c[1] = x[1] /\ c[2] = x[2] /\ c[3] = x[3]
    BY <2>1, <2>2, ShapedPrefix
  <2>5. <<x[1], x[2]>> \in ObjectDns(d)
    BY <2>1, <2>3, <2>4 DEF ObjectDns
  <2>6. QED
    BY <2>2, <2>4, <2>5
<1>3. QED
  BY <1>1, <1>2

(* The store between the cut and the pruning.                              *)
Cutting(st, d) == StaleLabels(st, d) \cup EpgDns(d)
Between(st, sch, d, s) == Merged(Cut(st, Cutting(st, d)), Declared(d, s) \cup RelayDns(sch, d))

LEMMA BetweenFacts ==
  ASSUME NEW d, DesignOk(d), NEW s \in DOMAIN d.sites, NEW sch, NEW st, ShapedStore(st)
  PROVE  LET M == Between(st, sch, d, s)
         IN  /\ Deployed(st, sch, d, s) = Pruned(M, d.tenant)
             /\ ShapedStore(M)
             /\ DOMAIN M = {x \in DOMAIN st : ~ Under(x, Cutting(st, d))}
                             \cup Declared(d, s) \cup RelayDns(sch, d)
<1>. DEFINE M == Between(st, sch, d, s)
            C == Cut(st, Cutting(st, d))
            W == Declared(d, s) \cup RelayDns(sch, d)
<1>1. Deployed(st, sch, d, s) = Pruned(M, d.tenant)
  BY DEF Deployed, Between, Cutting
<1>2. /\ DOMAIN C = {x \in DOMAIN st : ~ Under(x, Cutting(st, d))}
      /\ \A x \in DOMAIN C : C[x] = st[x]
  BY CutFacts
<1>3. M = Merged(C, W)
  BY DEF Between
<1>. HIDE DEF C, M
<1>4. DOMAIN M = DOMAIN C \cup W /\ \A x \in DOMAIN C : M[x] = C[x]
  BY <1>3, MergedFacts
<1>5. ShapedStore(M)
  BY <1>2, <1>4, DeclaredFacts, RelayFacts DEF ShapedStore
<1>6. QED
  BY <1>1, <1>2, <1>4, <1>5 DEF M

LEMMA BetweenKeeps ==
  ASSUME NEW d, NEW s, NEW sch, NEW st, NEW M, M = Between(st, sch, d, s)
  PROVE  \A x \in DOMAIN st : ~ Under(x, Cutting(st, d)) => M[x] = st[x]
<1>. DEFINE C == Cut(st, Cutting(st, d))
            W == Declared(d, s) \cup RelayDns(sch, d)
<1>1. /\ DOMAIN C = {x \in DOMAIN st : ~ Under(x, Cutting(st, d))}
      /\ \A x \in DOMAIN C : C[x] = st[x]
  BY CutFacts
<1>2. M = Merged(C, W)
  BY DEF Between
<1>. HIDE DEF C, W
<1>3. \A x \in DOMAIN C : M[x] = C[x]
  BY <1>2, MergedFacts
<1>4. QED
  BY <1>1, <1>3

LEMMA UndeployedFacts ==
  ASSUME NEW d, NEW st, ShapedStore(st)
  PROVE  LET M == Cut(st, ObjectDns(d))
         IN  /\ Undeployed(st, d) = Pruned(M, d.tenant)
             /\ ShapedStore(M)
             /\ DOMAIN M = {x \in DOMAIN st : ~ Under(x, ObjectDns(d))}
             /\ \A x \in DOMAIN M : M[x] = st[x]
<1>1. /\ DOMAIN Cut(st, ObjectDns(d)) = {x \in DOMAIN st : ~ Under(x, ObjectDns(d))}
      /\ \A x \in DOMAIN Cut(st, ObjectDns(d)) : Cut(st, ObjectDns(d))[x] = st[x]
  BY CutFacts
<1>2. QED
  BY <1>1 DEF Undeployed, ShapedStore

(* Relay policies are not among what is cut. *)
LEMMA RelaysUncut ==
  ASSUME NEW d, DesignOk(d), NEW st, ShapedStore(st), NEW x \in DOMAIN st,
         Len(x) = 1 \/ x[2][1] = "relayp" \/ <<x[1], x[2]>> \notin ObjectDns(d)
  PROVE  ~ Under(x, Cutting(st, d)) /\ ~ Under(x, ObjectDns(d))
<1>1. Shaped(x)
  BY DEF ShapedStore
<1>2. Cutting(st, d) \subseteq StaleLabels(st, d) \cup ObjectDns(d)
  BY DEF Cutting, ObjectDns
<1>3. ASSUME NEW c \in StaleLabels(st, d) \cup ObjectDns(d), IsPrefix(c, x)
      PROVE  FALSE
  BY <1>1, <1>3, TakenFacts
<1>4. QED
  BY <1>2, <1>3 DEF Under

(* The same, with the relay policy that is written or written below.       *)
LEMMA RelayOf ==
  ASSUME NEW sch, NEW d, NEW x \in RelayDns(sch, d)
  PROVE  \E l \in DOMAIN policies[d.tenant] :
           /\ RelayDn(d.tenant, l) \in RelayDns(sch, d) /\ IsPrefix(RelayDn(d.tenant, l), x)
           /\ IsRelay(x) => x = RelayDn(d.tenant, l)
<1>. DEFINE named == {Last(y)[2] : y \in LabelDns(d)} \cap DOMAIN policies[d.tenant]
<1>1. PICK l \in named : x = RelayDn(d.tenant, l)
                         \/ \E v : x = Append(RelayDn(d.tenant, l), <<"rsprov", v>>)
  BY DEF RelayDns
<1>2. l \in DOMAIN policies[d.tenant] /\ RelayDn(d.tenant, l) \in RelayDns(sch, d)
  BY DEF RelayDns
<1>. HIDE DEF named
<1>. DEFINE r == RelayDn(d.tenant, l)
<1>3. /\ Shaped(r) /\ Len(r) = 2 /\ r[1] = <<"tn", d.tenant>> /\ r[2] = <<"relayp", l>>
      /\ r = <<r[1], r[2]>>
  BY RelayDnFacts DEF RelayDn
<1>. HIDE DEF r
<1>4. CASE x = r
  <2>1. IsPrefix(r, r)
    BY <1>3, PrefixFacts DEF Shaped
  <2>2. QED
    BY <1>2, <1>4, <2>1 DEF r
<1>5. ASSUME NEW v, x = Append(r, <<"rsprov", v>>)
      PROVE  IsPrefix(r, x) /\ ~ IsRelay(x)
  <2>1. PICK p : p = <<"rsprov", v>>
    OBVIOUS
  <2>. DEFINE z == Append(r, p)
  <2>2. Shaped(z) /\ ~ IsRelay(z) /\ Len(z) = Len(r) + 1 /\ z[1] = r[1] /\ z[2] = r[2]
    BY <1>3, <2>1, BelowFacts
  <2>3. x = z
    BY <1>5, <2>1
  <2>. HIDE DEF z
  <2>4. IsPrefix(<<z[1], z[2]>>, z)
    BY <1>3, <2>2, PairPrefix
  <2>5. r = <<z[1], z[2]>>
    BY <1>3, <2>2
  <2>6. QED
    BY <2>2, <2>3, <2>4, <2>5
<1>6. QED
  BY <1>1, <1>2, <1>4, <1>5 DEF r

-----------------------------------------------------------------------------
(* An undeploy after a deploy *)

LEMMA Unpruned ==
  ASSUME NEW st, ShapedStore(st), NEW a, Orphans(st, a) = {}
  PROVE  DOMAIN Pruned(st, a) = DOMAIN st /\ \A x \in DOMAIN st : Pruned(st, a)[x] = st[x]
<1>. DEFINE P == Pruned(st, a)
<1>1. /\ DOMAIN P = {x \in DOMAIN st : ~ Under(x, Orphans(st, a))}
      /\ \A x \in DOMAIN P : P[x] = st[x]
  BY PrunedFacts
<1>. HIDE DEF P
<1>2. DOMAIN P = DOMAIN st
  BY <1>1 DEF Under
<1>3. QED
  BY <1>1, <1>2 DEF P

LEMMA PrunedHasNone ==
  ASSUME NEW st, ShapedStore(st), NEW a, Pruned(st, a) = st
  PROVE  Orphans(st, a) = {}
<1>1. SUFFICES ASSUME NEW o \in Orphans(st, a) PROVE FALSE
  OBVIOUS
<1>2. o \in DOMAIN st /\ Shaped(o)
  BY DEF Orphans, ShapedStore
<1>3. IsPrefix(o, o)
  BY <1>2, PrefixFacts DEF Shaped
<1>4. o \notin DOMAIN Pruned(st, a)
  BY <1>3, PrunedFacts DEF Under
<1>5. QED
  BY <1>2, <1>4

(* No object of the template is there, and no relay without a label.       *)
Clean(st, d) == Orphans(st, d.tenant) = {} /\ \A x \in DOMAIN st : ~ Under(x, ObjectDns(d))

(* new is the store st and the DNs of ds.                                  *)
Grown(st, new, ds) == /\ ShapedStore(new) /\ DOMAIN new = DOMAIN st \cup ds
                      /\ \A x \in DOMAIN st : new[x] = st[x]

(* What a deploy adds to a store without any of its objects, and what the  *)
(* undeploy's own deletions leave of it.                                   *)
LEMMA DeployAdds ==
  ASSUME NEW d, DesignOk(d), NEW s \in DOMAIN d.sites, NEW sch, NEW st, ShapedStore(st),
         Clean(st, d)
  PROVE  Grown(st, Deployed(st, sch, d, s), Declared(d, s) \cup RelayDns(sch, d))
<1>. DEFINE a == d.tenant
            D == Deployed(st, sch, d, s)
            M == Between(st, sch, d, s)
<1>0. Orphans(st, a) = {} /\ \A x \in DOMAIN st : ~ Under(x, ObjectDns(d))
  BY DEF Clean
<1>1. \A x \in DOMAIN st : ~ Under(x, Cutting(st, d))
  <2>1. ASSUME NEW x \in DOMAIN st
        PROVE  ~ (Len(x) >= 2 /\ <<x[1], x[2]>> \in ObjectDns(d)) /\ Shaped(x)
    BY <1>0, PairPrefix DEF ShapedStore, Under
  <2>2. ASSUME NEW x \in DOMAIN st, NEW c \in Cutting(st, d), IsPrefix(c, x)
        PROVE  FALSE
    <3>1. c \in StaleLabels(st, d) \cup ObjectDns(d)
      BY <2>2 DEF Cutting, ObjectDns
    <3>2. QED
      BY <2>1, <2>2, <3>1, TakenFacts
  <2>3. QED
    BY <2>2 DEF Under
<1>2. D = Pruned(M, a) /\ ShapedStore(M) /\ DOMAIN M = DOMAIN st \cup Declared(d, s) \cup RelayDns(sch, d)
  <2>1. /\ Deployed(st, sch, d, s) = Pruned(M, d.tenant) /\ ShapedStore(M)
        /\ DOMAIN M = {x \in DOMAIN st : ~ Under(x, Cutting(st, d))}
                        \cup Declared(d, s) \cup RelayDns(sch, d)
    BY BetweenFacts
  <2>2. D = Pruned(M, a)
    BY <2>1
  <2>. HIDE DEF M, D
  <2>3. QED
    BY <1>1, <2>1, <2>2
<1>3. \A x \in DOMAIN st : M[x] = st[x]
  BY <1>1, BetweenKeeps
<1>. HIDE DEF M, D
<1>4. Labelled(st, a) \subseteq Labelled(M, a)
  BY <1>2 DEF Labelled
<1>5. Orphans(M, a) = {}
  <2>1. SUFFICES ASSUME NEW o \in Orphans(M, a) PROVE FALSE
    OBVIOUS
  <2>2. o \in DOMAIN M /\ IsRelay(o) /\ Of(o, a) /\ Last(o)[2] \notin Labelled(M, a)
    BY DEF Orphans
  <2>3. CASE o \in DOMAIN st
    BY <1>0, <1>4, <2>2, <2>3 DEF Orphans
  <2>4. CASE o \in Declared(d, s)
    BY <2>2, <2>4, DeclaredFacts
  <2>5. CASE o \in RelayDns(sch, d)
    <3>1. PICK y \in LabelDns(d) : o[2] = <<"relayp", Last(y)[2]>>
      BY <2>5, RelayFacts
    <3>2. Last(o) = o[2]
      BY <1>2, <2>2 DEF ShapedStore, Shaped, Last
    <3>3. y \in DOMAIN M
      BY <1>2 DEF Declared
    <3>4. Last(y)[2] \in Labelled(M, a)
      BY <3>3, LabelFacts DEF Labelled
    <3>5. QED
      BY <2>2, <3>1, <3>2, <3>4
  <2>6. QED
    BY <1>2, <2>2, <2>3, <2>4, <2>5
<1>6. DOMAIN D = DOMAIN M /\ \A x \in DOMAIN M : D[x] = M[x]
  BY <1>2, <1>5, Unpruned
<1>7. ShapedStore(D)
  BY <1>2, <1>6 DEF ShapedStore
<1>8. QED
  BY <1>2, <1>3, <1>6, <1>7 DEF D, Grown

LEMMA UndeployBack ==
  ASSUME NEW d, DesignOk(d), NEW s \in DOMAIN d.sites, NEW sch, NEW st, ShapedStore(st),
         Clean(st, d)
  PROVE  LET a == d.tenant
             u == Undeployed(Deployed(st, sch, d, s), d)
         IN  /\ \A x \in DOMAIN st \ Stranded(st, a) : x \in DOMAIN u /\ u[x] = st[x]
             /\ \A x \in DOMAIN u \ DOMAIN st :
                  x = Tn(a) \/ \E l \in Labelled(st, a) : IsPrefix(RelayDn(a, l), x)
<1>. DEFINE a == d.tenant
            D == Deployed(st, sch, d, s)
            C == Cut(D, ObjectDns(d))
            u == Undeployed(D, d)
<1>1. Orphans(st, a) = {} /\ \A x \in DOMAIN st : ~ Under(x, ObjectDns(d))
  BY DEF Clean
<1>2. /\ ShapedStore(D) /\ DOMAIN D = DOMAIN st \cup Declared(d, s) \cup RelayDns(sch, d)
      /\ \A x \in DOMAIN st : D[x] = st[x]
  <2>1. Grown(st, D, Declared(d, s) \cup RelayDns(sch, d))
    BY DeployAdds, Zenon
  <2>2. QED
    BY <2>1 DEF Grown
<1>. HIDE DEF D
<1>3. /\ u = Pruned(C, a) /\ ShapedStore(C) /\ DOMAIN C = {x \in DOMAIN D : ~ Under(x, ObjectDns(d))}
      /\ \A x \in DOMAIN C : C[x] = D[x]
  <2>1. /\ Undeployed(D, d) = Pruned(C, d.tenant) /\ ShapedStore(C)
        /\ DOMAIN C = {x \in DOMAIN D : ~ Under(x, ObjectDns(d))}
        /\ \A x \in DOMAIN C : C[x] = D[x]
    BY <1>2, UndeployedFacts
  <2>2. QED
    BY <2>1
<1>. HIDE DEF C, u
<1>4. DOMAIN st \subseteq DOMAIN C /\ \A x \in DOMAIN st : C[x] = st[x]
  BY <1>1, <1>2, <1>3
<1>5. RelayDns(sch, d) \subseteq DOMAIN C
  <2>1. ASSUME NEW x \in RelayDns(sch, d) PROVE x \in DOMAIN C
    <3>1. x \in DOMAIN D /\ x[2][1] = "relayp"
      BY <1>2, RelayFacts
    <3>2. QED
      BY <1>2, <1>3, <3>1, RelaysUncut
  <2>2. QED
    BY <2>1
<1>6. \A x \in DOMAIN C : x \in DOMAIN st \/ x = Tn(a) \/ x \in RelayDns(sch, d)
  <2>1. SUFFICES ASSUME NEW x \in DOMAIN C, x \in Declared(d, s), x # Tn(a) PROVE FALSE
    BY <1>2, <1>3
  <2>2. PICK t \in Tops(d) : At(x, a, t)
    BY <2>1, DeclaredFacts
  <2>3. Shaped(x) /\ Len(x) >= 2 /\ t = <<x[1], x[2]>>
    BY <2>2 DEF At
  <2>4. t \in ObjectDns(d) /\ IsPrefix(t, x)
    BY <2>3, TopFacts, PairPrefix
  <2>5. QED
    BY <1>3, <2>4 DEF Under
<1>7. Labelled(C, a) = Labelled(st, a)
  <2>1. \A x \in DOMAIN C : IsLabel(x) => x \in DOMAIN st
    BY <1>6, TenantFacts, RelayFacts
  <2>2. {y \in DOMAIN C : IsLabel(y) /\ Of(y, a)} = {y \in DOMAIN st : IsLabel(y) /\ Of(y, a)}
    BY <1>4, <2>1
  <2>3. QED
    BY <2>2 DEF Labelled
<1>8. /\ DOMAIN u = {x \in DOMAIN C : ~ Under(x, Orphans(C, a))}
      /\ \A x \in DOMAIN u : u[x] = C[x]
  <2>1. /\ DOMAIN Pruned(C, a) = {x \in DOMAIN C : ~ Under(x, Orphans(C, a))}
        /\ \A x \in DOMAIN Pruned(C, a) : Pruned(C, a)[x] = C[x]
    BY <1>3, PrunedFacts, Zenon
  <2>2. QED
    BY <1>3, <2>1
<1>9. ASSUME NEW x \in DOMAIN st, x \notin DOMAIN u
      PROVE  x \in Stranded(st, a)
  <2>1. PICK o \in Orphans(C, a) : IsPrefix(o, x)
    BY <1>4, <1>8, <1>9 DEF Under
  <2>2. o \in DOMAIN C /\ IsRelay(o) /\ Of(o, a) /\ Last(o)[2] \notin Labelled(st, a)
    BY <1>7 DEF Orphans
  <2>3. o \notin DOMAIN st
    BY <1>1, <2>2 DEF Orphans
  <2>4. o \in RelayDns(sch, d)
    BY <1>6, <2>2, <2>3, TenantFacts
  <2>5. PICK l \in DOMAIN policies[a] : o = RelayDn(a, l)
    BY <2>2, <2>4, RelayOf
  <2>6. QED
    BY <2>1, <2>3, <2>5 DEF Stranded
<1>10. ASSUME NEW x \in DOMAIN u \ DOMAIN st, x # Tn(a)
       PROVE  \E l \in Labelled(st, a) : IsPrefix(RelayDn(a, l), x)
  <2>1. x \in RelayDns(sch, d)
    BY <1>6, <1>8, <1>10
  <2>2. PICK l \in DOMAIN policies[a] : RelayDn(a, l) \in RelayDns(sch, d) /\ IsPrefix(RelayDn(a, l), x)
    BY <2>1, RelayOf
  <2>. DEFINE r == RelayDn(a, l)
  <2>3. IsRelay(r) /\ r[1] = <<"tn", a>> /\ Last(r) = <<"relayp", l>>
    BY RelayDnFacts
  <2>. HIDE DEF r
  <2>4. r \in DOMAIN C /\ IsPrefix(r, x) /\ Of(r, a) /\ Last(r)[2] = l
    BY <1>5, <2>2, <2>3 DEF r, Of
  <2>5. l \in Labelled(st, a)
    BY <1>7, <1>8, <1>10, <2>3, <2>4 DEF Orphans, Under
  <2>6. QED
    BY <2>2, <2>5
<1>11. QED
  BY <1>4, <1>8, <1>9, <1>10 DEF u, D

-----------------------------------------------------------------------------
(* Relay policies and labels *)

LEMMA DeployFits ==
  ASSUME NEW d, DesignOk(d), NEW s \in DOMAIN d.sites, NEW sch, NEW st, ShapedStore(st),
         NEW nst, nst = Deployed(st, sch, d, s), NEW a, a = d.tenant
  PROVE  /\ Relays(nst, a) \subseteq Labelled(nst, a)
         /\ \A l \in Labelled(nst, a) \ Relays(nst, a) :
              l \notin Relays(st, a) /\ (l \in Labelled(st, a) \/ l \notin DOMAIN policies[a])
<1>. DEFINE M == Between(st, sch, d, s)
<1>1. /\ nst = Pruned(M, a) /\ ShapedStore(M)
      /\ DOMAIN M = {x \in DOMAIN st : ~ Under(x, Cutting(st, d))}
                      \cup Declared(d, s) \cup RelayDns(sch, d)
  BY BetweenFacts
<1>. HIDE DEF M
<1>2. Labelled(nst, a) = Labelled(M, a) /\ Relays(nst, a) = Relays(M, a) \cap Labelled(M, a)
  BY <1>1, PrunedFit
<1>3. Relays(st, a) \subseteq Relays(M, a)
  <2>1. ASSUME NEW x \in DOMAIN st, IsRelay(x)
        PROVE  x \in DOMAIN M
    <3>1. x[2][1] = "relayp"
      BY <2>1 DEF ShapedStore, Shaped, IsRelay, Last
    <3>2. QED
      BY <1>1, <3>1, RelaysUncut
  <2>2. QED
    BY <2>1 DEF Relays
<1>4. ASSUME NEW l \in Labelled(M, a), l \notin Relays(M, a), l \in DOMAIN policies[a]
      PROVE  l \in Labelled(st, a)
  <2>1. PICK y \in DOMAIN M : IsLabel(y) /\ Of(y, a) /\ Last(y)[2] = l
    BY DEF Labelled
  <2>2. CASE y \in DOMAIN st
    BY <2>1, <2>2 DEF Labelled
  <2>3. CASE y \in Declared(d, s)
    <3>1. y \in LabelDns(d)
      BY <2>1, <2>3, DeclaredFacts
    <3>2. RelayDn(a, l) \in DOMAIN M
      BY <1>1, <1>4, <2>1, <3>1, NamedRelay
    <3>3. IsRelay(RelayDn(a, l)) /\ Of(RelayDn(a, l), a) /\ Last(RelayDn(a, l))[2] = l
      BY RelayDnFacts DEF Of
    <3>4. QED
      BY <1>4, <3>2, <3>3 DEF Relays
  <2>4. CASE y \in RelayDns(sch, d)
    BY <2>1, <2>4, RelayFacts
  <2>5. QED
    BY <1>1, <2>2, <2>3, <2>4
<1>5. QED
  BY <1>2, <1>3, <1>4

LEMMA UndeployFits ==
  ASSUME NEW d, DesignOk(d), NEW st, ShapedStore(st),
         NEW nst, nst = Undeployed(st, d), NEW a, a = d.tenant
  PROVE  /\ Relays(nst, a) \subseteq Labelled(nst, a)
         /\ \A l \in Labelled(nst, a) \ Relays(nst, a) :
              l \notin Relays(st, a) /\ l \in Labelled(st, a)
<1>. DEFINE M == Cut(st, ObjectDns(d))
<1>1. /\ nst = Pruned(M, a) /\ ShapedStore(M)
      /\ DOMAIN M = {x \in DOMAIN st : ~ Under(x, ObjectDns(d))}
  BY UndeployedFacts
<1>. HIDE DEF M
<1>2. Labelled(nst, a) = Labelled(M, a) /\ Relays(nst, a) = Relays(M, a) \cap Labelled(M, a)
  BY <1>1, PrunedFit
<1>3. Relays(st, a) \subseteq Relays(M, a)
  <2>1. ASSUME NEW x \in DOMAIN st, IsRelay(x)
        PROVE  x \in DOMAIN M
    <3>1. x[2][1] = "relayp"
      BY <2>1 DEF ShapedStore, Shaped, IsRelay, Last
    <3>2. QED
      BY <1>1, <3>1, RelaysUncut
  <2>2. QED
    BY <2>1 DEF Relays
<1>4. Labelled(M, a) \subseteq Labelled(st, a)
  BY <1>1 DEF Labelled
<1>5. QED
  BY <1>2, <1>3, <1>4

-----------------------------------------------------------------------------
(* Other templates *)

LEMMA OwnedFacts ==
  ASSUME NEW f, DesignOk(f), NEW s \in DOMAIN f.sites, NEW st, ShapedStore(st),
         NEW x \in Owned(st, f, s)
  PROVE  /\ x \in DOMAIN st
         /\ \/ /\ Len(x) = 1 \/ x[2][1] # "relayp"
               /\ Len(x) = 1 \/ <<x[1], x[2]>> \in ObjectDns(f)
            \/ \E y \in LabelDns(f) \cap DOMAIN st :
                 x[1] = <<"tn", f.tenant>> /\ x[2] = <<"relayp", Last(y)[2]>>
<1>1. x \in DOMAIN st
  BY DEF Owned
<1>2. CASE x \in Declared(f, s)
  <2>1. CASE x = Tn(f.tenant)
    BY <1>1, <2>1, TenantFacts
  <2>2. CASE \E t \in Tops(f) : At(x, f.tenant, t)
    BY <1>1, <2>2, TopFacts DEF At
  <2>3. QED
    BY <1>2, <2>1, <2>2, DeclaredFacts
<1>3. ASSUME NEW y \in LabelDns(f) \cap DOMAIN st, x = RelayDn(f.tenant, Last(y)[2])
      PROVE  x[1] = <<"tn", f.tenant>> /\ x[2] = <<"relayp", Last(y)[2]>>
  BY <1>3, RelayDnFacts
<1>4. QED
  BY <1>1, <1>2, <1>3 DEF Owned

(* M is the store after the cut, whatever was written then. *)
LEMMA OwnedStay ==
  ASSUME NEW d, DesignOk(d), NEW f, DesignOk(f), ObjectDns(f) \cap ObjectDns(d) = {},
         NEW s \in DOMAIN f.sites, NEW st, ShapedStore(st), NEW M, ShapedStore(M),
         NEW ds \in {Cutting(st, d), ObjectDns(d)},
         \A x \in DOMAIN st : ~ Under(x, ds) => x \in DOMAIN M
  PROVE  Owned(st, f, s) \subseteq DOMAIN Pruned(M, d.tenant)
<1>1. SUFFICES ASSUME NEW x \in Owned(st, f, s) PROVE x \in DOMAIN Pruned(M, d.tenant)
  OBVIOUS
<1>2. CASE /\ x \in DOMAIN st
           /\ Len(x) = 1 \/ x[2][1] # "relayp"
           /\ Len(x) = 1 \/ <<x[1], x[2]>> \in ObjectDns(f)
  <2>1. x \in DOMAIN M
    BY <1>2, RelaysUncut
  <2>2. QED
    BY <1>2, <2>1, PrunedFacts
<1>3. ASSUME x \in DOMAIN st, NEW y \in LabelDns(f) \cap DOMAIN st,
             x[1] = <<"tn", f.tenant>>, x[2] = <<"relayp", Last(y)[2]>>
      PROVE  x \in DOMAIN Pruned(M, d.tenant)
  <2>1. x \in DOMAIN M
    <3>1. x[2][1] = "relayp"
      BY <1>3
    <3>2. QED
      BY <1>3, <3>1, RelaysUncut
  <2>2. CASE f.tenant # d.tenant
    <3>1. x[1] # <<"tn", d.tenant>>
      BY <1>3, <2>2
    <3>2. QED
      BY <2>1, <3>1, PrunedFacts
  <2>3. CASE f.tenant = d.tenant
    <3>1. IsLabel(y) /\ Of(y, f.tenant)
      BY LabelFacts
    <3>2. PICK t \in BdDns(f) : At(y, f.tenant, t)
      BY LabelFacts
    <3>3. <<y[1], y[2]>> \notin ObjectDns(d)
      BY <3>2 DEF At, ObjectDns
    <3>4. y \in DOMAIN M
      BY <3>3, RelaysUncut
    <3>5. Last(y)[2] \in Labelled(M, d.tenant)
      BY <2>3, <3>1, <3>4 DEF Labelled
    <3>6. x[2][2] = Last(y)[2]
      BY <1>3
    <3>7. QED
      BY <2>1, <3>5, <3>6, PrunedFacts
  <2>4. QED
    BY <2>2, <2>3
<1>4. QED
  BY <1>2, <1>3, OwnedFacts

-----------------------------------------------------------------------------
(* What a deploy leaves *)

(* What it writes is there afterwards, the relay policies included, since  *)
(* the labels that name them are written with them.                        *)
LEMMA WrittenStay ==
  ASSUME NEW d, DesignOk(d), NEW s \in DOMAIN d.sites, NEW sch, NEW st, ShapedStore(st)
  PROVE  Declared(d, s) \cup RelayDns(sch, d) \subseteq DOMAIN Deployed(st, sch, d, s)
<1>. DEFINE M == Between(st, sch, d, s)
            N == Deployed(st, sch, d, s)
<1>1. /\ N = Pruned(M, d.tenant) /\ ShapedStore(M)
      /\ DOMAIN M = {x \in DOMAIN st : ~ Under(x, Cutting(st, d))}
                      \cup Declared(d, s) \cup RelayDns(sch, d)
  BY BetweenFacts
<1>. HIDE DEF M, N
<1>2. ASSUME NEW x \in Declared(d, s) PROVE x \in DOMAIN N
  <2>1. Len(x) = 1 \/ x[2][1] # "relayp"
    BY DeclaredFacts, TenantFacts DEF At
  <2>2. QED
    BY <1>1, <2>1, PrunedFacts
<1>3. ASSUME NEW x \in RelayDns(sch, d) PROVE x \in DOMAIN N
  <2>1. PICK y \in LabelDns(d) : x[2] = <<"relayp", Last(y)[2]>>
    BY RelayFacts
  <2>2. y \in DOMAIN M /\ IsLabel(y) /\ Of(y, d.tenant)
    BY <1>1, LabelFacts DEF Declared
  <2>3. x[2][2] = Last(y)[2]
    BY <2>1
  <2>4. x[2][2] \in Labelled(M, d.tenant)
    BY <2>2, <2>3 DEF Labelled
  <2>5. QED
    BY <1>1, <2>4, PrunedFacts
<1>4. QED
  BY <1>2, <1>3 DEF N

LEMMA DeployFresh ==
  ASSUME NEW d, DesignOk(d), NEW s \in DOMAIN d.sites, NEW sch, NEW st, ShapedStore(st)
  PROVE  LET a == DOMAIN Deployed(st, sch, d, s)
             b == DOMAIN Deployed(<<>>, sch, d, s)
         IN  /\ b \subseteq a
             /\ \A x \in a \ b : ~ Under(x, EpgDns(d)) /\ ~ (IsLabel(x) /\ Front(x) \in BdDns(d))
<1>0. PICK none : none = <<>>
  OBVIOUS
<1>. DEFINE W == Declared(d, s) \cup RelayDns(sch, d)
            a == DOMAIN Deployed(st, sch, d, s)
            b == DOMAIN Deployed(none, sch, d, s)
<1>1. ShapedStore(none) /\ DOMAIN none = {}
  BY <1>0 DEF ShapedStore
<1>2. b = W
  <2>. DEFINE M == Between(none, sch, d, s)
              N == Deployed(none, sch, d, s)
  <2>1. /\ N = Pruned(M, d.tenant) /\ ShapedStore(M)
        /\ DOMAIN M = {x \in DOMAIN none : ~ Under(x, Cutting(none, d))}
                        \cup Declared(d, s) \cup RelayDns(sch, d)
    BY <1>1, BetweenFacts
  <2>. HIDE DEF M, N
  <2>2. b \subseteq W
    <3>1. DOMAIN N \subseteq DOMAIN M
      BY <2>1, PrunedWithin
    <3>2. DOMAIN M = W
      BY <1>1, <2>1
    <3>3. QED
      BY <3>1, <3>2 DEF N
  <2>3. W \subseteq b
    BY <1>1, WrittenStay DEF b
  <2>4. QED
    BY <2>2, <2>3
<1>3. W \subseteq a
  BY WrittenStay
<1>4. a \subseteq {x \in DOMAIN st : ~ Under(x, Cutting(st, d))} \cup W
  <2>. DEFINE M == Between(st, sch, d, s)
              N == Deployed(st, sch, d, s)
  <2>1. /\ N = Pruned(M, d.tenant) /\ ShapedStore(M)
        /\ DOMAIN M = {x \in DOMAIN st : ~ Under(x, Cutting(st, d))}
                        \cup Declared(d, s) \cup RelayDns(sch, d)
    BY BetweenFacts
  <2>. HIDE DEF M, N
  <2>2. DOMAIN N \subseteq DOMAIN M
    BY <2>1, PrunedWithin
  <2>3. QED
    BY <2>1, <2>2 DEF N
<1>. HIDE DEF a, b
<1>5. ASSUME NEW x \in a \ b
      PROVE  ~ Under(x, EpgDns(d)) /\ ~ (IsLabel(x) /\ Front(x) \in BdDns(d))
  <2>1. x \in DOMAIN st /\ x \notin Declared(d, s) /\ ~ Under(x, Cutting(st, d))
    BY <1>2, <1>4
  <2>2. ~ Under(x, EpgDns(d))
    BY <2>1 DEF Under, Cutting
  <2>3. ASSUME IsLabel(x), Front(x) \in BdDns(d) PROVE FALSE
    <3>1. x \in StaleLabels(st, d)
      BY <2>1, <2>3 DEF StaleLabels, Declared
    <3>2. IsPrefix(x, x)
      BY <2>1, PrefixFacts DEF ShapedStore, Shaped
    <3>3. QED
      BY <2>1, <3>1, <3>2 DEF Under, Cutting
  <2>4. QED
    BY <2>2, <2>3
<1>6. QED
  BY <1>0, <1>2, <1>3, <1>5 DEF a, b

LEMMA MarkKept ==
  ASSUME NEW d, DesignOk(d), NEW s \in DOMAIN d.sites, NEW sch, NEW st, ShapedStore(st),
         NEW x \in DOMAIN st, ~ Under(x, EpgDns(d)),
         \A i \in 1..Len(x) : x[i][1] \notin {"dhcplbl", "relayp"},
         NEW nst, nst = Deployed(st, sch, d, s)
  PROVE  x \in DOMAIN nst /\ nst[x] = st[x]
<1>. DEFINE M == Between(st, sch, d, s)
<1>1. /\ nst = Pruned(M, d.tenant) /\ ShapedStore(M)
      /\ DOMAIN M = {y \in DOMAIN st : ~ Under(y, Cutting(st, d))}
                      \cup Declared(d, s) \cup RelayDns(sch, d)
  BY BetweenFacts
<1>2. \A y \in DOMAIN st : ~ Under(y, Cutting(st, d)) => M[y] = st[y]
  BY BetweenKeeps
<1>. HIDE DEF M
<1>3. Shaped(x) /\ Len(x) \in Nat /\ Len(x) # 0
  BY DEF ShapedStore, Shaped
<1>4. ~ Under(x, Cutting(st, d))
  <2>1. ASSUME NEW c \in StaleLabels(st, d), IsPrefix(c, x) PROVE FALSE
    <3>1. Len(x) >= 3 /\ x[3][1] = "dhcplbl"
      BY <1>3, <2>1, TakenFacts
    <3>2. QED
      BY <1>3, <3>1
  <2>2. QED
    BY <2>1 DEF Under, Cutting
<1>5. Len(x) = 1 \/ x[2][1] # "relayp"
  <2>1. CASE Len(x) >= 2
    BY <2>1, <1>3
  <2>2. Len(x) = 1 \/ Len(x) >= 2
    BY <1>3
  <2>3. QED
    BY <2>1, <2>2
<1>6. x \in DOMAIN M /\ M[x] = st[x]
  BY <1>1, <1>2, <1>4
<1>7. x \in DOMAIN nst
  BY <1>1, <1>5, <1>6, PrunedFacts
<1>8. nst[x] = M[x]
  BY <1>1, <1>7, PrunedWithin
<1>9. QED
  BY <1>6, <1>7, <1>8

-----------------------------------------------------------------------------
(* The state *)

(* The least member of a non-empty set of places.                          *)
LEMMA LeastPlace ==
  ASSUME NEW T \in SUBSET Nat, T # {}
  PROVE  Min(T) \in T
<1>. DEFINE R == OpToRel(<, Nat)
<1>1. IsWellFoundedOn(R, Nat)
  BY NatLessThanWellFounded
<1>2. \A x, y \in Nat : <<y, x>> \in R <=> y < x
  BY DEF OpToRel
<1>. HIDE DEF R
<1>3. PICK x \in T : \A y \in T : ~ (<<y, x>> \in R)
  BY <1>1, WFMin
<1>4. ASSUME NEW y \in T
      PROVE  x <= y
  <2>1. x \in Nat /\ y \in Nat
    OBVIOUS
  <2>2. ~ (y < x)
    BY <1>2, <1>3, <2>1
  <2>3. QED
    BY <2>1, <2>2
<1>5. QED
  BY <1>3, <1>4 DEF Min

Inv ==
  /\ DOMAIN design = Template /\ \A t \in Template : design[t] # None => design[t] \in Design[t]
  /\ DOMAIN store = Site /\ \A s \in Site : ShapedStore(store[s])

LEMMA DocFacts ==
  ASSUME Inv, NEW r \in Request, Mirrors(r[1], r[2])
  PROVE  DesignOk(Doc(r)) /\ DOMAIN Doc(r).sites \subseteq Site
<1>. DEFINE c == Found(r[1], r[2])
            n == r[2]
<1>1. r[1] \in Range(Schemas) \cup {None} /\ n \in Name
  BY DEF Request
<1>2. c # None /\ design[<<c, n>>] # None
  BY DEF Mirrors
<1>3. c \in Range(Schemas)
  <2>1. CASE r[1] # None
    BY <1>1, <2>1 DEF Found
  <2>2. CASE r[1] = None
    <3>1. Having(n) # {} /\ c = Schemas[Min(Having(n))]
      BY <1>2, <2>2 DEF Found
    <3>2. Having(n) \subseteq 1..Len(Schemas) /\ Len(Schemas) \in Nat
      BY DeployAssumption DEF Having
    <3>3. Min(Having(n)) \in 1..Len(Schemas)
      BY <3>1, <3>2, LeastPlace
    <3>4. QED
      BY <3>1, <3>3, DeployAssumption DEF Range
  <2>3. QED
    BY <2>1, <2>2
<1>4. <<c, n>> \in Template
  BY <1>1, <1>3 DEF Template
<1>5. design[<<c, n>>] \in Design[<<c, n>>]
  BY <1>2, <1>4 DEF Inv
<1>6. DesignOk(design[<<c, n>>])
  BY <1>4, <1>5, DeployAssumption
<1>7. QED
  BY <1>6 DEF Doc, DesignOk

(* What a task leaves of the store of each site.                           *)
LEMMA TaskStore ==
  ASSUME Inv, NEW r \in Request, Task(r), NEW s \in Site
  PROVE  LET d == Doc(r)
         IN  /\ DesignOk(d) /\ ShapedStore(store[s])
             /\ s \notin DOMAIN d.sites => store'[s] = store[s]
             /\ s \in DOMAIN d.sites => \/ store'[s] = Deployed(store[s], Found(r[1], r[2]), d, s)
                                        \/ store'[s] = Undeployed(store[s], d)
             /\ deploy(r[1], r[2]) /\ s \in DOMAIN d.sites =>
                  store'[s] = Deployed(store[s], Found(r[1], r[2]), d, s)
             /\ UNCHANGED <<design, policies>> /\ DOMAIN store' = Site
<1>1. Mirrors(r[1], r[2])
  BY DEF Task, deploy, undeploy
<1>2. DesignOk(Doc(r)) /\ ShapedStore(store[s])
  BY <1>1, DocFacts DEF Inv
<1>3. QED
  BY <1>2 DEF Task, deploy, undeploy, Doc

LEMMA TaskShaped ==
  ASSUME Inv, NEW r \in Request, Task(r), NEW s \in Site
  PROVE  ShapedStore(store'[s])
<1>. DEFINE d == Doc(r)
            sch == Found(r[1], r[2])
            st == store[s]
<1>1. /\ DesignOk(d) /\ ShapedStore(st)
      /\ \/ store'[s] = st
         \/ s \in DOMAIN d.sites /\ store'[s] = Deployed(st, sch, d, s)
         \/ store'[s] = Undeployed(st, d)
  BY TaskStore
<1>. HIDE DEF d, sch, st
<1>2. ASSUME NEW M, ShapedStore(M), store'[s] = Pruned(M, d.tenant)
      PROVE  ShapedStore(store'[s])
  BY <1>2, PrunedWithin
<1>3. CASE s \in DOMAIN d.sites /\ store'[s] = Deployed(st, sch, d, s)
  <2>. DEFINE M == Between(st, sch, d, s)
  <2>1. ShapedStore(M) /\ Deployed(st, sch, d, s) = Pruned(M, d.tenant)
    BY <1>1, <1>3, BetweenFacts
  <2>. HIDE DEF M
  <2>2. QED
    BY <1>2, <1>3, <2>1
<1>4. CASE store'[s] = Undeployed(st, d)
  BY <1>1, <1>2, <1>4, UndeployedFacts
<1>5. QED
  BY <1>1, <1>3, <1>4

LEMMA Invariance == Spec => []Inv
<1>1. Init => Inv
  BY DnAssumption DEF Init, Inv, ShapedStore, Merged
<1>2. Inv /\ [Next]_vars => Inv'
  <2>. SUFFICES ASSUME Inv, [Next]_vars PROVE Inv'
    OBVIOUS
  <2>1. ASSUME NEW r \in Request, Task(r) PROVE Inv'
    <3>1. UNCHANGED design /\ DOMAIN store' = Site
      BY <2>1 DEF Task, deploy, undeploy
    <3>2. \A s \in Site : ShapedStore(store'[s])
      BY <2>1, TaskShaped
    <3>3. QED
      BY <3>1, <3>2 DEF Inv, ShapedStore
  <2>2. ASSUME NEW r \in Request, taskIgnored(r[1], r[2]) PROVE Inv'
    BY <2>2 DEF taskIgnored, vars, Inv, ShapedStore
  <2>3. ASSUME NEW t \in Template, NEW d \in Design[t] \cup {None}, edit(t, d) PROVE Inv'
    BY <2>3 DEF edit, Inv, ShapedStore
  <2>4. ASSUME NEW a, NEW p, setPolicies(a, p) PROVE Inv'
    BY <2>4 DEF setPolicies, Inv, ShapedStore
  <2>5. ASSUME NEW x \in Posted, clientPost(x[1], x[2]) \/ clientDelete(x[1], x[2]) PROVE Inv'
    <3>1. Shaped(x[2])
      BY DnAssumption
    <3>2. UNCHANGED design /\ DOMAIN store' = Site
      BY <2>5 DEF clientPost, clientDelete, Inv
    <3>3. ASSUME NEW s \in Site PROVE ShapedStore(store'[s])
      <4>1. DOMAIN store'[s] \subseteq DOMAIN store[s] \cup {x[2]}
        <5>1. CASE clientPost(x[1], x[2])
          BY <5>1 DEF clientPost, Inv, Merged
        <5>2. CASE clientDelete(x[1], x[2])
          <6>1. store' = [store EXCEPT ![x[1]] = Cut(store[x[1]], {x[2]})]
            BY <5>2 DEF clientDelete
          <6>2. \A st, ds : DOMAIN Cut(st, ds) \subseteq DOMAIN st
            BY CutFacts
          <6>3. QED
            BY <6>1, <6>2 DEF Inv
        <5>3. QED
          BY <2>5, <5>1, <5>2
      <4>2. QED
        BY <3>1, <4>1 DEF Inv, ShapedStore
    <3>4. QED
      BY <3>2, <3>3 DEF Inv, ShapedStore
  <2>6. ASSUME NEW s \in Site, reset(s) PROVE Inv'
    <3>1. ShapedStore(Merged(<<>>, Boot))
      BY DnAssumption DEF ShapedStore, Merged
    <3>2. store' = [store EXCEPT ![s] = Merged(<<>>, Boot)] /\ UNCHANGED design
      BY <2>6 DEF reset
    <3>3. QED
      BY <3>1, <3>2 DEF Inv, ShapedStore
  <2>7. CASE UNCHANGED vars
    BY <2>7 DEF vars, Inv, ShapedStore
  <2>8. QED
    BY <2>1, <2>2, <2>3, <2>4, <2>5, <2>6, <2>7 DEF Next, Task
<1>3. QED
  BY <1>1, <1>2, PTL DEF Spec

-----------------------------------------------------------------------------
(* The theorems *)

(* A deploy leaves of its EPGs and labels what its document says, whatever *)
(* earlier tasks, edits and clients left in the store.                     *)
THEOREM HistoryCorrect == Spec => []HistoryFree
<1>1. Inv => HistoryFree
  <2>. SUFFICES ASSUME Inv, NEW t \in Template, design[t] # None, NEW s \in DOMAIN design[t].sites
                PROVE  LET d == design[t]
                           a == DOMAIN Deployed(store[s], t[1], d, s)
                           b == DOMAIN Deployed(<<>>, t[1], d, s)
                       IN  /\ b \subseteq a
                           /\ \A x \in a \ b : /\ ~ Under(x, EpgDns(d))
                                              /\ ~ (IsLabel(x) /\ Front(x) \in BdDns(d))
    BY DEF HistoryFree
  <2>1. DesignOk(design[t])
    BY DeployAssumption DEF Inv
  <2>2. s \in Site
    BY <2>1 DEF DesignOk
  <2>3. ShapedStore(store[s])
    BY <2>2 DEF Inv
  <2>4. QED
    BY <2>1, <2>3, DeployFresh
<1>2. QED
  BY <1>1, Invariance, PTL

(* An undeploy takes back what the deploy before it brought and nothing    *)
(* else, on every site: _template_object_dns and the pruning of orphans    *)
(* together name all that mirror_template_to_sites has created, but for    *)
(* what hangs below a relay policy that was not there.                     *)
THEOREM UndeployCorrect == Spec => []UndeployUndoes
<1>1. Inv => UndeployUndoes
  <2>. SUFFICES ASSUME Inv, NEW t \in Template, design[t] # None, NEW s \in DOMAIN design[t].sites,
                       Pruned(store[s], design[t].tenant) = store[s],
                       \A x \in DOMAIN store[s] : ~ Under(x, ObjectDns(design[t]))
                PROVE  LET d    == design[t]
                           st   == store[s]
                           u    == Undeployed(Deployed(st, t[1], d, s), d)
                           kept == DOMAIN st \ Stranded(st, d.tenant)
                       IN  /\ kept \subseteq DOMAIN u /\ \A x \in kept : u[x] = st[x]
                           /\ \A x \in DOMAIN u \ DOMAIN st :
                                \/ x = Tn(d.tenant)
                                \/ \E l \in Labelled(st, d.tenant) : IsPrefix(RelayDn(d.tenant, l), x)
    BY DEF UndeployUndoes
  <2>. DEFINE d  == design[t]
              st == store[s]
              u  == Undeployed(Deployed(st, t[1], d, s), d)
              a  == d.tenant
  <2>1. DesignOk(d)
    BY DeployAssumption DEF Inv
  <2>2. s \in Site
    BY <2>1 DEF DesignOk
  <2>3. ShapedStore(st)
    BY <2>2 DEF Inv
  <2>. HIDE DEF st, d, u
  <2>4. /\ \A x \in DOMAIN st \ Stranded(st, a) : x \in DOMAIN u /\ u[x] = st[x]
        /\ \A x \in DOMAIN u \ DOMAIN st :
             x = Tn(a) \/ \E l \in Labelled(st, a) : IsPrefix(RelayDn(a, l), x)
    <3>1. Orphans(st, a) = {}
      BY <2>3, PrunedHasNone DEF st, d
    <3>2. Clean(st, d)
      BY <3>1 DEF st, d, Clean
    <3>3. s \in DOMAIN d.sites
      BY DEF d
    <3>4. QED
      BY <2>1, <2>3, <3>2, <3>3, UndeployBack DEF u
  <2>5. QED
    BY <2>4 DEF st, d, u
<1>2. QED
  BY <1>1, Invariance, PTL

(* No task takes a relay policy that a label names, brings a label without *)
(* the policy that its tenant has, or leaves a policy without a label.     *)
THEOREM RelaysCorrect == Spec => RelaysFit
<1>. DEFINE Fit(r, s) ==
       LET a == Doc(r).tenant
       IN  /\ Relays(store'[s], a) \subseteq Labelled(store'[s], a)
           /\ \A l \in Labelled(store'[s], a) \ Relays(store'[s], a) :
                /\ l \notin Relays(store[s], a)
                /\ l \in Labelled(store[s], a) \/ l \notin DOMAIN policies[a]
            Step == store' # store =>
                      \A r \in Request : Task(r) => \A s \in DOMAIN Doc(r).sites : Fit(r, s)
<1>1. ASSUME Inv, NEW r \in Request, Task(r), NEW s \in DOMAIN Doc(r).sites
      PROVE  Fit(r, s)
  <2>1. Mirrors(r[1], r[2])
    BY <1>1 DEF Task, deploy, undeploy
  <2>2. s \in Site
    BY <1>1, <2>1, DocFacts
  <2>. DEFINE d == Doc(r)
              sch == Found(r[1], r[2])
              st == store[s]
              nst == store'[s]
              a == Doc(r).tenant
  <2>3. /\ DesignOk(d) /\ ShapedStore(st) /\ s \in DOMAIN d.sites
        /\ nst = Deployed(st, sch, d, s) \/ nst = Undeployed(st, d)
    BY <1>1, <2>2, TaskStore
  <2>4. a = d.tenant
    OBVIOUS
  <2>. HIDE DEF d, sch, st, nst, a
  <2>5. /\ Relays(nst, a) \subseteq Labelled(nst, a)
        /\ \A l \in Labelled(nst, a) \ Relays(nst, a) :
             l \notin Relays(st, a) /\ (l \in Labelled(st, a) \/ l \notin DOMAIN policies[a])
    <3>1. CASE nst = Deployed(st, sch, d, s)
      BY <2>3, <2>4, <3>1, DeployFits
    <3>2. CASE nst = Undeployed(st, d)
      BY <2>3, <2>4, <3>2, UndeployFits
    <3>3. QED
      BY <2>3, <3>1, <3>2
  <2>6. QED
    BY <2>5 DEF st, nst, a
<1>2. Inv /\ [Next]_vars => [Step]_vars
  BY <1>1
<1>3. QED
  BY <1>2, Invariance, PTL DEF Spec, RelaysFit

(* A task keeps what templates with other objects have on the site, and a  *)
(* deploy what clients wrote beside EPGs, labels and relay policies.       *)
THEOREM OthersCorrect == Spec => OthersKept
<1>. DEFINE Kept(r, t, s) == ObjectDns(design[t]) \cap ObjectDns(Doc(r)) = {} =>
                               Owned(store[s], design[t], s) \subseteq DOMAIN store'[s]
            Marked(r, s, x) == /\ store[s][x] = Mark /\ ~ Under(x, EpgDns(Doc(r)))
                               /\ \A i \in 1..Len(x) : x[i][1] \notin {"dhcplbl", "relayp"}
            Stays(r, s, x) == Marked(r, s, x) => x \in DOMAIN store'[s] /\ store'[s][x] = Mark
            Step == store' # store =>
                      \A r \in Request :
                        /\ Task(r) =>
                             \A t \in Template : design[t] # None /\ design[t].tenant # None =>
                               \A s \in DOMAIN design[t].sites : Kept(r, t, s)
                        /\ deploy(r[1], r[2]) =>
                             \A s \in Site : \A x \in DOMAIN store[s] : Stays(r, s, x)
<1>1. ASSUME Inv, NEW r \in Request, Task(r),
             NEW t \in Template, design[t] # None, NEW s \in DOMAIN design[t].sites
      PROVE  Kept(r, t, s)
  <2>1. DesignOk(design[t])
    BY <1>1, DeployAssumption DEF Inv
  <2>2. s \in Site
    BY <2>1 DEF DesignOk
  <2>. DEFINE d == Doc(r)
              f == design[t]
              sch == Found(r[1], r[2])
              st == store[s]
              nst == store'[s]
  <2>3. /\ DesignOk(d) /\ DesignOk(f) /\ ShapedStore(st) /\ s \in DOMAIN f.sites
        /\ \/ nst = st
           \/ s \in DOMAIN d.sites /\ nst = Deployed(st, sch, d, s)
           \/ nst = Undeployed(st, d)
    BY <1>1, <2>1, <2>2, TaskStore
  <2>. HIDE DEF d, f, sch, st, nst
  <2>4. ASSUME ObjectDns(f) \cap ObjectDns(d) = {} PROVE Owned(st, f, s) \subseteq DOMAIN nst
    <3>1. CASE nst = st
      BY <3>1 DEF Owned
    <3>2. CASE s \in DOMAIN d.sites /\ nst = Deployed(st, sch, d, s)
      <4>. DEFINE M == Between(st, sch, d, s)
      <4>1. /\ nst = Pruned(M, d.tenant) /\ ShapedStore(M)
            /\ DOMAIN M = {x \in DOMAIN st : ~ Under(x, Cutting(st, d))}
                            \cup Declared(d, s) \cup RelayDns(sch, d)
        BY <2>3, <3>2, BetweenFacts
      <4>. HIDE DEF M
      <4>2. QED
        BY <2>3, <2>4, <4>1, OwnedStay
    <3>3. CASE nst = Undeployed(st, d)
      <4>. DEFINE M == Cut(st, ObjectDns(d))
      <4>1. /\ nst = Pruned(M, d.tenant) /\ ShapedStore(M)
            /\ \A x \in DOMAIN st : ~ Under(x, ObjectDns(d)) => x \in DOMAIN M
        BY <2>3, <3>3, UndeployedFacts
      <4>. HIDE DEF M
      <4>2. QED
        BY <2>3, <2>4, <4>1, OwnedStay
    <3>4. QED
      BY <2>3, <3>1, <3>2, <3>3
  <2>5. QED
    BY <2>4 DEF d, f, st, nst
<1>2. ASSUME Inv, NEW r \in Request, deploy(r[1], r[2]), NEW s \in Site, NEW x \in DOMAIN store[s]
      PROVE  Stays(r, s, x)
  <2>. DEFINE d == Doc(r)
              sch == Found(r[1], r[2])
              st == store[s]
              nst == store'[s]
  <2>1. Task(r)
    BY <1>2 DEF Task
  <2>2. /\ DesignOk(d) /\ ShapedStore(st)
        /\ nst = st \/ (s \in DOMAIN d.sites /\ nst = Deployed(st, sch, d, s))
    BY <1>2, <2>1, TaskStore
  <2>. HIDE DEF d, sch, st, nst
  <2>3. ASSUME /\ st[x] = Mark /\ ~ Under(x, EpgDns(d))
               /\ \A i \in 1..Len(x) : x[i][1] \notin {"dhcplbl", "relayp"}
        PROVE  x \in DOMAIN nst /\ nst[x] = Mark
    <3>1. x \in DOMAIN st
      BY <1>2 DEF st
    <3>2. CASE nst = st
      BY <2>3, <3>1, <3>2
    <3>3. CASE s \in DOMAIN d.sites /\ nst = Deployed(st, sch, d, s)
      BY <2>2, <2>3, <3>1, <3>3, MarkKept
    <3>4. QED
      BY <2>2, <3>2, <3>3
  <2>4. QED
    BY <2>3 DEF d, st, nst
<1>3. Inv /\ [Next]_vars => [Step]_vars
  <2>. HIDE DEF Kept, Stays
  <2>1. QED
    BY <1>1, <1>2
<1>4. QED
  BY <1>3, Invariance, PTL DEF Spec, OthersKept

=============================================================================
