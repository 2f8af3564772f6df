------------------------ MODULE ResponseWritersProofs ------------------------
(*****************************************************************************)
(* Proofs about ResponseWriters, for every page, budget and way of chunking:  *)
(* the body arrives intact, the script is put into the right pages, at the    *)
(* right place and under policies that admit it and loosen nothing, and paid  *)
(* content leaves sealed.                                                    *)
(*****************************************************************************)
EXTENDS ResponseWriters, FiniteSetTheorems, SequenceTheorems, WellFoundedInduction, TLAPS

-----------------------------------------------------------------------------
(* Policies.                                                                *)

\* What planCSP takes for the governing sources is what a browser goes by.
LEMMA Governs == \A p \in Policy : Sources(p) = InForce(p)
  BY DEF Policy, Sources, Governing, InForce

\* A source that is added is added to what governs, and to nothing else.
LEMMA Rewrites ==
  ASSUME NEW ps \in Seq(Policy), NEW src \in Source
  PROVE  /\ DOMAIN Rewrite(ps, src) = DOMAIN ps
         /\ \A i \in DOMAIN ps :
              /\ InForce(ps[i]) # Unset =>
                   InForce(Rewrite(ps, src)[i]) = InForce(ps[i]) \cup {src}
              /\ InForce(ps[i]) = Unset => Rewrite(ps, src)[i] = ps[i]
  <1>1. DOMAIN Rewrite(ps, src) = DOMAIN ps
    BY DEF Rewrite
  <1>2. ASSUME NEW i \in DOMAIN ps
        PROVE  /\ InForce(ps[i]) # Unset =>
                    InForce(Rewrite(ps, src)[i]) = InForce(ps[i]) \cup {src}
               /\ InForce(ps[i]) = Unset => Rewrite(ps, src)[i] = ps[i]
    <2> DEFINE p == ps[i]
               g == Governing(p)
               q == [p EXCEPT ![g] = @ \cup {src}]
    <2>1. p \in Policy
      BY <1>2
    <2>2. Sources(p) = InForce(p) /\ Sources(p) = p[g]
      BY <2>1, Governs DEF Sources
    <2>3. Rewrite(ps, src)[i] = IF InForce(p) # Unset THEN q ELSE p
      BY <2>2 DEF Rewrite, Restricting
    <2>4. p[g] \cup {src} # Unset
      BY DEF Source, Unset
    <2>5. InForce(q) = p[g] \cup {src}
      <3>1. CASE p.elem # Unset
        BY <2>1, <2>4, <3>1 DEF Governing, InForce, Policy
      <3>2. CASE p.elem = Unset /\ p.script # Unset
        BY <2>1, <2>4, <3>2 DEF Governing, InForce, Policy
      <3>3. CASE p.elem = Unset /\ p.script = Unset
        BY <2>1, <2>4, <3>3 DEF Governing, InForce, Policy
      <3> QED BY <3>1, <3>2, <3>3
    <2> QED BY <2>2, <2>3, <2>5
  <1> QED BY <1>1, <1>2

LEMMA RewritesPolicies ==
  ASSUME NEW ps \in Seq(Policy), NEW src \in Source
  PROVE  Rewrite(ps, src) \in Seq(Policy)
  <1>1. \A p \in Policy : Restricting(p) => [p EXCEPT ![Governing(p)] = @ \cup {src}] \in Policy
    BY DEF Policy, Governing, Restricting, Sources
  <1>2. DOMAIN ps = 1 .. Len(ps) /\ Len(ps) \in Nat /\ \A i \in DOMAIN ps : ps[i] \in Policy
    BY LenProperties
  <1>3. Rewrite(ps, src) \in [1 .. Len(ps) -> Policy]
    BY <1>1, <1>2 DEF Rewrite
  <1> QED BY <1>2, <1>3

\* The ways a plan can turn out, by what it makes of the policies.
Restricted(ps) == {p \in Set(ps) : Restricting(p)}

LEMMA Plans ==
  ASSUME NEW e, NEW r, NEW m
  PROVE  /\ Plan(e, r, m).mode \in {"skip", "external", "nonced", "inline", "hashed"}
         /\ Plan(e, r, m).mode \in {"skip", "external", "inline"} => Plan(e, r, m).enforce = e
         /\ Plan(e, r, m).mode = "nonced" => Plan(e, r, m).enforce = Rewrite(e, "our-nonce")
         /\ Plan(e, r, m).mode = "hashed" => Plan(e, r, m).enforce = Rewrite(e, "our-hash")
         /\ Plan(e, r, m).mode # "skip" =>
              /\ \A p \in Set(e) \cup Set(m) : ~ SandboxBlocks(p)
              /\ \A p \in Restricted(e) \cup Restricted(m) : "none" \notin Sources(p)
         /\ Plan(e, r, m).mode = "external" =>
              \A p \in Restricted(e) \cup Restricted(m) : "self" \in Sources(p)
         /\ Plan(e, r, m).mode \in {"nonced", "inline", "hashed"} => Restricted(m) = {}
         /\ Plan(e, r, m).mode = "inline" =>
              \A p \in Restricted(e) :
                "dynamic" \notin Sources(p) /\ "inline" \in Sources(p) /\ ~ HasNonceOrHash(p)
  BY DEF Plan, Restricted

\* Policies that only report change nothing for the others.
LEMMA ReportsDecideNothing ==
  ASSUME NEW e, NEW r, NEW s, NEW m
  PROVE  Plan(e, r, m).mode = Plan(e, s, m).mode /\ Plan(e, r, m).enforce = Plan(e, s, m).enforce
  BY DEF Plan

LEMMA ConcatSet ==
  ASSUME NEW e \in Seq(Policy), NEW m \in Seq(Policy)
  PROVE  Set(e \o m) = Set(e) \cup Set(m) /\ Set(e) \subseteq Policy /\ Set(m) \subseteq Policy
  <1>1. /\ e \o m \in Seq(Policy) /\ Len(e) \in Nat /\ Len(m) \in Nat
        /\ Len(e \o m) = Len(e) + Len(m)
        /\ \A i \in 1 .. Len(e) + Len(m) : (e \o m)[i] = IF i <= Len(e) THEN e[i] ELSE m[i - Len(e)]
    BY ConcatProperties, LenProperties
  <1>2. /\ DOMAIN e = 1 .. Len(e) /\ DOMAIN m = 1 .. Len(m)
        /\ DOMAIN (e \o m) = 1 .. Len(e) + Len(m)
    BY <1>1, LenProperties
  <1>3. \A i \in DOMAIN e : (e \o m)[i] = e[i] /\ i \in DOMAIN (e \o m)
    BY <1>1, <1>2
  <1>4. \A i \in DOMAIN m : (e \o m)[Len(e) + i] = m[i] /\ Len(e) + i \in DOMAIN (e \o m)
    BY <1>1, <1>2
  <1>5. \A i \in DOMAIN (e \o m) :
          \/ i \in DOMAIN e /\ (e \o m)[i] = e[i]
          \/ i - Len(e) \in DOMAIN m /\ (e \o m)[i] = m[i - Len(e)]
    BY <1>1, <1>2
  <1>6. \A i \in DOMAIN e : e[i] \in Policy
    OBVIOUS
  <1>7. \A i \in DOMAIN m : m[i] \in Policy
    OBVIOUS
  <1>8. Set(e) \subseteq Policy /\ Set(m) \subseteq Policy
    BY <1>6, <1>7 DEF Set
  <1>9. Set(e \o m) \subseteq Set(e) \cup Set(m)
    BY <1>5 DEF Set
  <1>10. Set(e) \cup Set(m) \subseteq Set(e \o m)
    <2>1. Set(e) \subseteq Set(e \o m)
      BY <1>3 DEF Set
    <2>2. Set(m) \subseteq Set(e \o m)
      BY <1>4 DEF Set
    <2> QED BY <2>1, <2>2
  <1> QED BY <1>8, <1>9, <1>10

\* The policies after a rewriting, each from one before it.
LEMMA RewrittenSet ==
  ASSUME NEW e \in Seq(Policy), NEW src \in Source
  PROVE  /\ \A q \in Set(Rewrite(e, src)) : \E p \in Set(e) :
              IF InForce(p) = Unset THEN q = p ELSE InForce(q) = InForce(p) \cup {src}
         /\ \A p \in Set(e) : \E q \in Set(Rewrite(e, src)) :
              IF InForce(p) = Unset THEN q = p ELSE InForce(q) = InForce(p) \cup {src}
  BY Rewrites DEF Set

\* The element a plan inserts runs under the policies the plan leaves.
LEMMA ElementIsLetIn ==
  ASSUME NEW e \in Seq(Policy), NEW r, NEW m \in Seq(Policy), Plan(e, r, m).mode # "skip",
         \A p \in Set(e \o m) : ~ {"self", "dynamic"} \subseteq InForce(p)
  PROVE  Runs(Element(Plan(e, r, m).mode), Plan(e, r, m).enforce \o m)
  <1> DEFINE mode == Plan(e, r, m).mode
             after == Plan(e, r, m).enforce
  <1>1. /\ Set(e \o m) = Set(e) \cup Set(m) /\ Set(e) \subseteq Policy /\ Set(m) \subseteq Policy
    BY ConcatSet
  <1>2. \A p \in Set(e) \cup Set(m) : Restricting(p) <=> InForce(p) # Unset
    BY <1>1, Governs DEF Restricting
  <1>3. CASE mode = "external"
    <2>1. after = e /\ Element(mode) = [from |-> "self", bears |-> "", made |-> FALSE]
      BY <1>3, Plans DEF Element
    <2>2. ASSUME NEW p \in Set(e \o m) PROVE Permits(InForce(p), Element(mode))
      <3>1. CASE InForce(p) = Unset
        BY <3>1 DEF Permits
      <3>2. CASE InForce(p) # Unset
        <4>1. "self" \in InForce(p)
          BY <1>1, <1>2, <1>3, <3>2, Governs, Plans DEF Restricted
        <4>2. "dynamic" \notin InForce(p)
          BY <4>1
        <4>3. \A sources : "self" \in sources /\ "dynamic" \notin sources =>
                Permits(sources, [from |-> "self", bears |-> "", made |-> FALSE])
          BY DEF Permits
        <4> QED BY <2>1, <4>1, <4>2, <4>3
      <3> QED BY <3>1, <3>2
    <2> QED BY <2>1, <2>2 DEF Runs
  <1>4. ASSUME mode # "external", NEW p \in Set(m) PROVE InForce(p) = Unset
    BY <1>1, <1>2, <1>4, Plans DEF Restricted
  <1>5. ASSUME NEW src \in {"our-nonce", "our-hash"}, after = Rewrite(e, src), mode # "external",
               Element(mode) = [from |-> "inline", bears |-> src, made |-> FALSE]
        PROVE  Runs(Element(mode), after \o m)
    <2>1. src \in Source /\ Rewrite(e, src) \in Seq(Policy)
      BY RewritesPolicies DEF Source
    <2>2. Set(after \o m) = Set(Rewrite(e, src)) \cup Set(m)
      BY <1>5, <2>1, ConcatSet
    <2>3. \A q \in Set(Rewrite(e, src)) : InForce(q) = Unset \/ src \in InForce(q)
      BY <2>1, RewrittenSet
    <2>4. \A sources : src \in sources => Permits(sources, Element(mode))
      BY <1>5 DEF Permits, Vouched
    <2> QED BY <1>4, <1>5, <2>2, <2>3, <2>4 DEF Runs, Permits
  <1>6. CASE mode = "nonced"
    BY <1>5, <1>6, Plans DEF Element
  <1>7. CASE mode = "hashed"
    BY <1>5, <1>7, Plans DEF Element
  <1>8. CASE mode = "inline"
    <2>1. after = e /\ Element(mode) = [from |-> "inline", bears |-> "our-hash", made |-> FALSE]
      BY <1>8, Plans DEF Element
    <2>2. ASSUME NEW p \in Set(e), InForce(p) # Unset
          PROVE  /\ "inline" \in InForce(p)
                 /\ InForce(p) \cap {"nonce", "hash", "our-nonce", "our-hash", "dynamic"} = {}
      <3>1. p \in Restricted(e) /\ Sources(p) = InForce(p)
        BY <1>1, <1>2, <2>2, Governs DEF Restricted
      <3> QED BY <1>8, <3>1, Plans DEF HasNonceOrHash
    <2>3. \A p \in Set(e \o m) : Permits(InForce(p), Element(mode))
      BY <1>1, <1>4, <1>8, <2>1, <2>2 DEF Permits
    <2> QED BY <2>1, <2>3 DEF Runs
  <1> QED BY <1>3, <1>6, <1>7, <1>8, Plans

\* Nothing of the operator's runs for the source that was added.
LEMMA OursLetsNoneIn ==
  ASSUME NEW sources, NEW src \in {"our-nonce", "our-hash"}, NEW s \in Operators,
         Permits(sources \cup {src}, s), sources \cup {src} # Unset
  PROVE  Permits(sources, s)
  BY DEF Permits, Vouched, Operators, Script

LEMMA PlanLoosensNothing ==
  ASSUME NEW e \in Seq(Policy), NEW r, NEW m \in Seq(Policy), NEW after,
         after \in {e, Plan(e, r, m).enforce}
  PROVE  /\ \A s \in Operators : Runs(s, after \o m) => Runs(s, e \o m)
         /\ \A p \in Set(e) : InForce(p) = Unset => p \in Set(after)
  <1>1. CASE after = e
    BY <1>1
  <1>2. ASSUME NEW src \in {"our-nonce", "our-hash"}, after = Rewrite(e, src)
        PROVE  /\ \A s \in Operators : Runs(s, after \o m) => Runs(s, e \o m)
               /\ \A p \in Set(e) : InForce(p) = Unset => p \in Set(after)
    <2>1. src \in Source /\ Rewrite(e, src) \in Seq(Policy)
      BY RewritesPolicies DEF Source
    <2>2. /\ Set(after \o m) = Set(Rewrite(e, src)) \cup Set(m)
          /\ Set(e \o m) = Set(e) \cup Set(m)
      BY <1>2, <2>1, ConcatSet
    <2>3. ASSUME NEW s \in Operators, Runs(s, after \o m), NEW p \in Set(e)
          PROVE  Permits(InForce(p), s)
      <3>1. PICK q \in Set(Rewrite(e, src)) :
              IF InForce(p) = Unset THEN q = p ELSE InForce(q) = InForce(p) \cup {src}
        BY <2>1, RewrittenSet
      <3>2. Permits(InForce(q), s)
        BY <2>2, <2>3, <3>1 DEF Runs
      <3>3. InForce(p) # Unset => Permits(InForce(p) \cup {src}, s) /\ InForce(p) \cup {src} # Unset
        BY <3>1, <3>2 DEF Unset
      <3> QED BY <3>3, OursLetsNoneIn DEF Permits
    <2>4. \A s \in Operators : Runs(s, after \o m) => Runs(s, e \o m)
      BY <2>2, <2>3 DEF Runs
    <2>5. \A p \in Set(e) : InForce(p) = Unset => p \in Set(after)
      BY <1>2, <2>1, RewrittenSet
    <2> QED BY <2>4, <2>5
  <1>3. CASE after # e
    <2>1. after = Rewrite(e, "our-nonce") \/ after = Rewrite(e, "our-hash")
      BY <1>3, Plans
    <2> QED BY <1>2, <2>1
  <1> QED BY <1>1, <1>3

-----------------------------------------------------------------------------
(* Places in a document, and in what has come of it.                        *)

\* A set of numbers that is not empty has a least one.
LEMMA LeastOf ==
  ASSUME NEW T \in SUBSET Nat, T # {}
  PROVE  Min(T) \in T /\ \A y \in T : Min(T) <= y
  <1> DEFINE R == OpToRel(<, Nat)
  <1>1. PICK x \in T : \A y \in T : ~ (<<y, x>> \in R)
    BY NatLessThanWellFounded, WFMin
  <1>2. \A y \in T : <<y, x>> \in R <=> y < x
    BY DEF OpToRel
  <1>3. \A y \in T : ~ (y < x)
    BY <1>1, <1>2, Zenon
  <1> HIDE DEF R
  <1>4. x \in T /\ \A y \in T : x <= y
    BY <1>3
  <1> QED BY <1>4 DEF Min

\* The least place of all is the least so far, once there is one.
LEMMA LeastSoFar ==
  ASSUME NEW T \in SUBSET Nat, NEW n \in Nat, T \cap (1 .. n) # {}, 0 \notin T
  PROVE  Min(T \cap (1 .. n)) = Min(T) /\ Min(T) \in T \cap (1 .. n)
  <1> DEFINE U == T \cap (1 .. n)
  <1>1. U \in SUBSET Nat /\ U # {} /\ U \subseteq T /\ T # {}
    OBVIOUS
  <1>2. Min(U) \in U /\ \A y \in U : Min(U) <= y
    BY <1>1, LeastOf
  <1>3. Min(T) \in T /\ \A y \in T : Min(T) <= y
    BY <1>1, LeastOf
  <1>4. Min(T) <= Min(U) /\ Min(T) \in Nat /\ Min(U) \in Nat
    BY <1>1, <1>2, <1>3
  <1>5. Min(T) \in U
    BY <1>2, <1>3, <1>4
  <1> QED BY <1>2, <1>4, <1>5

Heads(b) == {i \in 1 .. Len(b) : b[i] = "head"}
Ends(b) == {i \in 1 .. Len(b) : b[i] = "end"}
Texts(b) == {i \in 1 .. Len(b) : b[i] # "blank"}

LEMMA Places ==
  ASSUME NEW b
  PROVE  /\ InsertionPoint(b) = IF Heads(b) = {} THEN -1
                                ELSE IF Min(Heads(b)) = 0 THEN -1 ELSE Min(Heads(b))
         /\ HeadEnd(b) = (IF Ends(b) = {} THEN 0 ELSE Min(Ends(b))) - 1
         /\ LooksLikeDocument(b) <=>
              \/ Texts(b) = {} \/ Min(Texts(b)) = 0
              \/ b[Min(Texts(b))] \in {"open", "head"}
  <1>1. SelectInSeq(b, LAMBDA p : p = "head") = IF Heads(b) = {} THEN 0 ELSE Min(Heads(b))
    BY DEF SelectInSeq, Heads
  <1>2. SelectInSeq(b, LAMBDA p : p = "end") = IF Ends(b) = {} THEN 0 ELSE Min(Ends(b))
    BY DEF SelectInSeq, Ends
  <1>3. SelectInSeq(b, LAMBDA p : p # "blank") = IF Texts(b) = {} THEN 0 ELSE Min(Texts(b))
    BY DEF SelectInSeq, Texts
  <1> QED BY <1>1, <1>2, <1>3 DEF InsertionPoint, HeadEnd, LooksLikeDocument

\* What is found in the start of a document is found in it, and the other way
\* about if the start is long enough.
LEMMA StartTells ==
  ASSUME NEW d \in Seq(Pieces), NEW n \in 0 .. Len(d)
  PROVE  LET b == SubSeq(d, 1, n) IN
         /\ b \in Seq(Pieces) /\ Len(b) = n
         /\ \A i \in 1 .. n : b[i] = d[i]
         /\ InsertionPoint(b) >= 0 =>
              InsertionPoint(b) = InsertionPoint(d) /\ InsertionPoint(d) \in 1 .. n
         /\ HeadEnd(b) >= 0 => HeadEnd(b) = HeadEnd(d) /\ HeadEnd(d) \in 0 .. (n - 1)
         /\ HeadEnd(d) \in 0 .. (n - 1) => HeadEnd(b) = HeadEnd(d)
         /\ InsertionPoint(d) \in 1 .. n => InsertionPoint(b) = InsertionPoint(d)
         /\ LooksLikeDocument(d) => LooksLikeDocument(b)
         /\ HeadEnd(b) \in Int /\ InsertionPoint(b) \in Int
  <1> DEFINE b == SubSeq(d, 1, n)
  <1>1. Len(d) \in Nat /\ n \in Nat /\ n <= Len(d) /\ \A i \in 1 .. Len(d) : d[i] \in Pieces
    BY LenProperties
  <1>2. b \in Seq(Pieces) /\ Len(b) = n /\ \A i \in 1 .. n : b[i] = d[i]
    <2>1. \A i \in 1 .. n : d[i] \in Pieces
      BY <1>1
    <2>2. /\ b \in Seq(Pieces) /\ Len(b) = IF 1 <= n THEN n - 1 + 1 ELSE 0
          /\ \A i \in 1 .. n - 1 + 1 : b[i] = d[1 + i - 1]
      BY <1>1, <2>1, SubSeqProperties
    <2>3. n - 1 + 1 = n /\ (~ (1 <= n) => n = 0)
      BY <1>1
    <2>4. \A i \in 1 .. n : 1 + i - 1 = i
      BY <1>1
    <2> QED BY <2>2, <2>3, <2>4
  <1> HIDE DEF b
  <1>3. /\ Heads(b) = Heads(d) \cap (1 .. n) /\ Ends(b) = Ends(d) \cap (1 .. n)
        /\ Texts(b) = Texts(d) \cap (1 .. n)
    BY <1>1, <1>2 DEF Heads, Ends, Texts
  <1>4. /\ Heads(d) \in SUBSET Nat /\ Ends(d) \in SUBSET Nat /\ Texts(d) \in SUBSET Nat
        /\ 0 \notin Heads(d) /\ 0 \notin Ends(d) /\ 0 \notin Texts(d)
    BY <1>1 DEF Heads, Ends, Texts
  <1>5. Heads(b) # {} => Min(Heads(b)) = Min(Heads(d)) /\ Min(Heads(d)) \in Heads(d) \cap (1 .. n)
    BY <1>1, <1>3, <1>4, LeastSoFar
  <1>6. Ends(b) # {} => Min(Ends(b)) = Min(Ends(d)) /\ Min(Ends(d)) \in Ends(d) \cap (1 .. n)
    BY <1>1, <1>3, <1>4, LeastSoFar
  <1>7. Texts(b) # {} => Min(Texts(b)) = Min(Texts(d)) /\ Min(Texts(d)) \in Texts(d) \cap (1 .. n)
    BY <1>1, <1>3, <1>4, LeastSoFar
  <1>8. /\ Heads(d) # {} => Min(Heads(d)) \in Heads(d)
        /\ Ends(d) # {} => Min(Ends(d)) \in Ends(d)
    BY <1>4, LeastOf
  <1>9. /\ InsertionPoint(b) >= 0 =>
             InsertionPoint(b) = InsertionPoint(d) /\ InsertionPoint(d) \in 1 .. n
        /\ InsertionPoint(d) \in 1 .. n => InsertionPoint(b) = InsertionPoint(d)
        /\ InsertionPoint(b) \in Int
    <2>1. CASE Heads(b) = {}
      <3>1. InsertionPoint(b) = -1
        BY <2>1, Places
      <3>2. InsertionPoint(d) \notin 1 .. n
        BY <1>3, <1>4, <1>8, <2>1, Places
      <3> QED BY <3>1, <3>2
    <2>2. CASE Heads(b) # {}
      <3>1. Min(Heads(b)) = Min(Heads(d)) /\ Min(Heads(d)) \in 1 .. n /\ Heads(d) # {}
        BY <1>5, <2>2
      <3>2. InsertionPoint(b) = Min(Heads(d)) /\ InsertionPoint(d) = Min(Heads(d))
        BY <2>2, <3>1, Places
      <3> QED BY <3>1, <3>2
    <2> QED BY <2>1, <2>2
  <1>10. /\ HeadEnd(b) >= 0 => HeadEnd(b) = HeadEnd(d) /\ HeadEnd(d) \in 0 .. (n - 1)
         /\ HeadEnd(d) \in 0 .. (n - 1) => HeadEnd(b) = HeadEnd(d)
         /\ HeadEnd(b) \in Int
    <2>1. CASE Ends(b) = {}
      <3>1. HeadEnd(b) = -1
        BY <2>1, Places
      <3>2. HeadEnd(d) \notin 0 .. (n - 1)
        BY <1>1, <1>3, <1>4, <1>8, <2>1, Places
      <3> QED BY <3>1, <3>2
    <2>2. CASE Ends(b) # {}
      <3>1. HeadEnd(b) = Min(Ends(d)) - 1 /\ HeadEnd(d) = Min(Ends(d)) - 1
        BY <1>3, <1>6, <2>2, Places
      <3> QED BY <1>4, <1>6, <2>2, <3>1
    <2> QED BY <2>1, <2>2
  <1>11. LooksLikeDocument(d) => LooksLikeDocument(b)
    <2>1. Texts(b) # {} => Min(Texts(b)) = Min(Texts(d)) /\ Min(Texts(d)) # 0
                           /\ b[Min(Texts(d))] = d[Min(Texts(d))] /\ Texts(d) # {}
      BY <1>2, <1>3, <1>4, <1>7
    <2> QED BY <2>1, Places
  <1> QED BY <1>2, <1>9, <1>10, <1>11 DEF b

-----------------------------------------------------------------------------
(* What has been sent.                                                      *)

IsWire(w) == \E S : w \in Seq(S)

\* What is said of it: in its final headers, in its informational ones, by tags.
Says(w, h) == \A i \in DOMAIN w : w[i].kind = "final" => w[i].h = h
Bare(w) == \A i \in DOMAIN w : w[i].kind = "info" => "pass" \notin w[i].h.lines
Untagged(w) == \A i \in DOMAIN w : w[i].kind # "tag"
TaggedAt(w, n) ==
  \E i \in DOMAIN w : /\ w[i].kind = "tag" /\ Cardinality(Bodies(w, i)) = n
                      /\ \A j \in DOMAIN w : w[j].kind = "tag" => j = i

\* Under a header h, the first n pieces of the body and no others.
Stream(w, h, n) == IsWire(w) /\ Says(w, h) /\ Carries(w, n)

\* The wire goes on, and is tagged as it was, if it was, and no more.
SameTag(w, v) ==
  /\ Untagged(w) => Untagged(v)
  /\ \A n \in Int : TaggedAt(w, n) => TaggedAt(v, n)
  /\ Bare(w) => Bare(v)

LEMMA WireIs ==
  ASSUME NEW w, IsWire(w)
  PROVE  Len(w) \in Nat /\ DOMAIN w = 1 .. Len(w)
  <1>1. PICK S : w \in Seq(S)
    BY DEF IsWire
  <1> QED BY <1>1, LenProperties

LEMMA AppendIs ==
  ASSUME NEW w, NEW e, IsWire(w)
  PROVE  /\ IsWire(Append(w, e)) /\ Len(Append(w, e)) = Len(w) + 1
         /\ \A i \in 1 .. Len(w) : Append(w, e)[i] = w[i]
         /\ Append(w, e)[Len(w) + 1] = e
  <1>1. PICK S : w \in Seq(S)
    BY DEF IsWire
  <1> DEFINE T == S \cup {e}
  <1>2. w \in Seq(T) /\ e \in T
    BY <1>1, SeqMonotonic
  <1> HIDE DEF T
  <1> QED BY <1>2, AppendProperties DEF IsWire

LEMMA BodiesAreFinite ==
  ASSUME NEW w, NEW i \in Nat
  PROVE  IsFiniteSet(Bodies(w, i)) /\ Cardinality(Bodies(w, i)) \in Nat /\ Bodies(w, i) \subseteq 1 .. i
  <1>1. Bodies(w, i) \in SUBSET (1 .. i) /\ IsFiniteSet(1 .. i)
    BY FS_Interval DEF Bodies
  <1> QED BY <1>1, FS_Subset, FS_CardinalityType

\* One more thing is sent that is no body.
LEMMA AppendSends ==
  ASSUME NEW w, NEW e, IsWire(w), e.kind # "body", NEW h
  PROVE  LET v == Append(w, e) IN
         /\ IsWire(v)
         /\ Says(w, h) /\ (e.kind = "final" => e.h = h) => Says(v, h)
         /\ \A n \in Int : Carries(w, n) => Carries(v, n)
         /\ Untagged(w) /\ e.kind # "tag" => Untagged(v)
         /\ \A n \in Int : TaggedAt(w, n) /\ e.kind # "tag" => TaggedAt(v, n)
         /\ \A n \in Int : Untagged(w) /\ e.kind = "tag" /\ Carries(w, n) => TaggedAt(v, n)
         /\ Bare(w) /\ (e.kind = "info" => "pass" \notin e.h.lines) => Bare(v)
         /\ e.kind # "final" => (Committed(v) <=> Committed(w))
         /\ e.kind = "final" => Committed(v)
  <1> DEFINE v == Append(w, e)
             l == Len(w)
  <1>1. l \in Nat /\ DOMAIN w = 1 .. l
    BY WireIs
  <1>2. /\ IsWire(v) /\ Len(v) = l + 1 /\ v[l + 1] = e
        /\ \A i \in 1 .. l : v[i] = w[i]
    BY AppendIs
  <1>3. DOMAIN v = 1 .. (l + 1) /\ l + 1 \in DOMAIN v
    BY <1>1, <1>2, WireIs
  <1> HIDE DEF v, l
  <1>4. \A i \in DOMAIN v : i = l + 1 \/ i \in DOMAIN w
    BY <1>1, <1>3
  <1>5. \A i \in DOMAIN w : i \in DOMAIN v /\ i # l + 1 /\ v[i] = w[i]
    BY <1>1, <1>2, <1>3
  <1>6. \A i \in DOMAIN w : Bodies(v, i) = Bodies(w, i)
    BY <1>1, <1>2 DEF Bodies
  <1>7. Bodies(v, l + 1) = Bodies(w, l)
    <2>1. \A j \in 1 .. (l + 1) : j = l + 1 \/ j \in 1 .. l
      BY <1>1
    <2>2. \A j \in 1 .. l : j \in 1 .. (l + 1)
      BY <1>1
    <2> QED BY <1>2, <2>1, <2>2 DEF Bodies
  <1>8. Says(w, h) /\ (e.kind = "final" => e.h = h) => Says(v, h)
    BY <1>2, <1>4, <1>5 DEF Says
  <1>9. Bare(w) /\ (e.kind = "info" => "pass" \notin e.h.lines) => Bare(v)
    BY <1>2, <1>4, <1>5 DEF Bare
  <1>10. Untagged(w) /\ e.kind # "tag" => Untagged(v)
    BY <1>2, <1>4, <1>5 DEF Untagged
  <1>11. ASSUME NEW n \in Int, Carries(w, n) PROVE Carries(v, n)
    BY <1>2, <1>4, <1>5, <1>6, <1>7, <1>11 DEF Carries, l
  <1>12. ASSUME NEW n \in Int, TaggedAt(w, n), e.kind # "tag" PROVE TaggedAt(v, n)
    BY <1>2, <1>4, <1>5, <1>6, <1>12 DEF TaggedAt
  <1>13. ASSUME NEW n \in Int, Untagged(w), e.kind = "tag", Carries(w, n) PROVE TaggedAt(v, n)
    <2>1. Cardinality(Bodies(v, l + 1)) = n
      BY <1>7, <1>13 DEF Carries, l
    <2> QED BY <1>2, <1>3, <1>4, <1>5, <1>13, <2>1 DEF TaggedAt, Untagged
  <1>14. e.kind # "final" => (Committed(v) <=> Committed(w))
    BY <1>2, <1>4, <1>5 DEF Committed
  <1>15. e.kind = "final" => Committed(v)
    BY <1>2, <1>3 DEF Committed
  <1> QED BY <1>2, <1>8, <1>9, <1>10, <1>11, <1>12, <1>13, <1>14, <1>15 DEF v

\* The next pieces of the body are sent.
BodyEvents(ps) == [i \in DOMAIN ps |-> [kind |-> "body", piece |-> ps[i]]]

LEMMA BodiesSend ==
  ASSUME NEW w, IsWire(w), NEW ps \in Seq(Pieces), NEW n \in Nat, Carries(w, n),
         \A j \in 1 .. Len(ps) : ps[j] = Doc[n + j]
  PROVE  LET v == w \o BodyEvents(ps) IN
         /\ IsWire(v) /\ Carries(v, n + Len(ps)) /\ SameTag(w, v)
         /\ \A h : Says(w, h) => Says(v, h)
         /\ Committed(v) <=> Committed(w)
  <1> DEFINE v == w \o BodyEvents(ps)
             l == Len(w)
             m == Len(ps)
  <1>1. l \in Nat /\ DOMAIN w = 1 .. l
    BY WireIs
  <1>2. m \in Nat /\ DOMAIN ps = 1 .. m
    BY LenProperties
  <1>3. /\ IsWire(v) /\ Len(v) = l + m
        /\ \A i \in 1 .. (l + m) : v[i] = IF i <= l THEN w[i] ELSE [kind |-> "body", piece |-> ps[i - l]]
    <2>1. PICK S : w \in Seq(S)
      BY DEF IsWire
    <2> DEFINE E == {[kind |-> "body", piece |-> ps[i]] : i \in 1 .. m}
               T == S \cup E
    <2>2. BodyEvents(ps) \in [1 .. m -> E]
      BY <1>2 DEF BodyEvents
    <2>3. BodyEvents(ps) \in Seq(T) /\ Len(BodyEvents(ps)) = m
      <3> HIDE DEF E
      <3>1. BodyEvents(ps) \in Seq(E) /\ Len(BodyEvents(ps)) = m
        BY <1>2, <2>2
      <3> QED BY <3>1, SeqMonotonic
    <2>4. w \in Seq(T)
      BY <2>1, SeqMonotonic
    <2>5. \A i \in 1 .. m : BodyEvents(ps)[i] = [kind |-> "body", piece |-> ps[i]]
      BY <1>2 DEF BodyEvents
    <2> HIDE DEF T
    <2> DEFINE be == BodyEvents(ps)
    <2>6. /\ v \in Seq(T) /\ Len(v) = l + m
          /\ \A i \in 1 .. (l + m) : v[i] = IF i <= l THEN w[i] ELSE be[i - l]
      <3>1. be \in Seq(T) /\ Len(be) = m
        BY <2>3
      <3> HIDE DEF be, m
      <3>2. /\ w \o be \in Seq(T) /\ Len(w \o be) = Len(w) + Len(be)
            /\ \A i \in 1 .. Len(w) + Len(be) :
                 (w \o be)[i] = IF i <= Len(w) THEN w[i] ELSE be[i - Len(w)]
        BY <2>4, <3>1, ConcatProperties
      <3>3. v = w \o be
        BY DEF be
      <3> HIDE DEF v
      <3> QED BY <3>1, <3>2, <3>3
    <2>7. \A i \in 1 .. (l + m) : ~ (i <= l) => i - l \in 1 .. m
      BY <1>1, <1>2
    <2> QED BY <2>5, <2>6, <2>7 DEF IsWire
  <1>4. DOMAIN v = 1 .. (l + m)
    BY <1>3, WireIs
  <1> HIDE DEF v, l, m
  <1>5. \A i \in DOMAIN w : i \in DOMAIN v /\ v[i] = w[i]
    BY <1>1, <1>2, <1>3, <1>4
  <1>6. \A i \in DOMAIN v : i \in DOMAIN w \/
          (i \in (l + 1) .. (l + m) /\ v[i].kind = "body" /\ v[i].piece = ps[i - l])
    BY <1>1, <1>2, <1>3, <1>4
  <1>7. \A i \in DOMAIN w : Bodies(v, i) = Bodies(w, i)
    BY <1>1, <1>5 DEF Bodies
  <1>8. ASSUME NEW i \in l .. (l + m)
        PROVE  Cardinality(Bodies(v, i)) = n + (i - l)
    <2>1. Bodies(v, i) = Bodies(w, l) \cup ((l + 1) .. i)
      <3>1. \A j \in 1 .. i : j \in DOMAIN v /\ (j \in 1 .. l \/ j \in (l + 1) .. i)
        BY <1>1, <1>2, <1>4, <1>8
      <3>2. \A j \in 1 .. l : j \in 1 .. i /\ v[j] = w[j]
        BY <1>1, <1>2, <1>5, <1>8
      <3>3. \A j \in (l + 1) .. i : j \in 1 .. i /\ v[j].kind = "body"
        BY <1>1, <1>2, <1>3, <1>8
      <3> QED BY <3>1, <3>2, <3>3 DEF Bodies
    <2>2. Bodies(w, l) \cap ((l + 1) .. i) = {} /\ IsFiniteSet(Bodies(w, l))
      BY <1>1, BodiesAreFinite
    <2>3. Cardinality(Bodies(w, l)) = n
      BY DEF Carries, l
    <2>4. i \in Nat /\ IsFiniteSet((l + 1) .. i) /\ Cardinality((l + 1) .. i) = i - l
      <3>1. i \in Nat /\ l <= i /\ l + 1 \in Int /\ i \in Int
        BY <1>1, <1>2, <1>8
      <3>2. /\ IsFiniteSet((l + 1) .. i)
            /\ Cardinality((l + 1) .. i) = IF l + 1 > i THEN 0 ELSE i - (l + 1) + 1
        BY <3>1, FS_Interval
      <3> QED BY <1>1, <3>1, <3>2
    <2>5. Cardinality(Bodies(v, i)) =
            Cardinality(Bodies(w, l)) + Cardinality((l + 1) .. i)
              - Cardinality(Bodies(w, l) \cap ((l + 1) .. i))
      BY <2>1, <2>2, <2>4, FS_Union
    <2>6. Cardinality(Bodies(w, l) \cap ((l + 1) .. i)) = 0
      BY <2>2, FS_EmptySet
    <2>7. Cardinality(Bodies(v, i)) = n + (i - l) - 0
      BY <2>3, <2>4, <2>5, <2>6
    <2>8. i \in Nat
      BY <2>4
    <2> QED BY <1>1, <2>7, <2>8
  <1>9. Carries(v, n + m)
    <2>1. l + m \in l .. (l + m) /\ n + ((l + m) - l) = n + m
      BY <1>1, <1>2
    <2>2. Cardinality(Bodies(v, Len(v))) = n + m
      BY <1>3, <1>8, <2>1
    <2>3. ASSUME NEW i \in DOMAIN v, v[i].kind = "body"
          PROVE  v[i].piece = Doc[Cardinality(Bodies(v, i))]
      <3>1. CASE i \in DOMAIN w
        BY <1>5, <1>7, <2>3, <3>1 DEF Carries
      <3>2. CASE i \notin DOMAIN w
        <4>1. i \in (l + 1) .. (l + m) /\ v[i].piece = ps[i - l]
          BY <1>6, <3>2
        <4>2. i \in l .. (l + m) /\ i - l \in 1 .. m
          BY <1>1, <1>2, <4>1
        <4>3. Cardinality(Bodies(v, i)) = n + (i - l)
          BY <1>8, <4>2
        <4> QED BY <4>1, <4>2, <4>3 DEF m
      <3> QED BY <3>1, <3>2
    <2> QED BY <2>2, <2>3 DEF Carries
  <1>10. SameTag(w, v)
    BY <1>5, <1>6, <1>7 DEF SameTag, Untagged, TaggedAt, Bare
  <1>11. \A h : Says(w, h) => Says(v, h)
    BY <1>5, <1>6 DEF Says
  <1>12. Committed(v) <=> Committed(w)
    BY <1>5, <1>6 DEF Committed
  <1> QED BY <1>3, <1>9, <1>10, <1>11, <1>12 DEF v, m

-----------------------------------------------------------------------------
(* The server's writer.                                                     *)

LEMMA SameTagGoesOn ==
  ASSUME NEW w, NEW v, NEW u, SameTag(w, v), SameTag(v, u)
  PROVE  SameTag(w, u)
  BY DEF SameTag

LEMMA HeaderSends ==
  ASSUME NEW w, NEW h, NEW n \in Nat, Stream(w, h, n)
  PROVE  Stream(Header(w, h), h, n) /\ SameTag(w, Header(w, h)) /\ Committed(Header(w, h))
  <1>1. CASE Committed(w)
    BY <1>1 DEF Header, SameTag
  <1>2. CASE ~ Committed(w)
    <2> DEFINE e == [kind |-> "final", h |-> h]
    <2>1. Header(w, h) = Append(w, e) /\ e.kind = "final" /\ e.h = h
      BY <1>2 DEF Header
    <2> HIDE DEF e
    <2> QED BY <2>1, AppendSends DEF Stream, SameTag
  <1> QED BY <1>1, <1>2

LEMMA BodySends ==
  ASSUME NEW w, NEW h, NEW n \in Nat, Stream(w, h, n), NEW ps \in Seq(Pieces),
         \A j \in 1 .. Len(ps) : ps[j] = Doc[n + j]
  PROVE  /\ Stream(Body(w, h, ps), h, n + Len(ps)) /\ SameTag(w, Body(w, h, ps))
         /\ Committed(w) => Committed(Body(w, h, ps))
  <1>1. CASE ps = <<>>
    <2>1. Len(ps) = 0 /\ n + 0 = n
      BY <1>1
    <2> QED BY <1>1, <2>1 DEF Body, SameTag
  <1>2. CASE ps # <<>>
    <2> DEFINE v == Header(w, h)
    <2>1. Stream(v, h, n) /\ SameTag(w, v) /\ Committed(v)
      BY HeaderSends
    <2>2. Body(w, h, ps) = v \o BodyEvents(ps)
      BY <1>2 DEF Body, BodyEvents
    <2> HIDE DEF v
    <2>3. /\ IsWire(v \o BodyEvents(ps)) /\ Carries(v \o BodyEvents(ps), n + Len(ps))
          /\ SameTag(v, v \o BodyEvents(ps)) /\ Says(v \o BodyEvents(ps), h)
          /\ Committed(v \o BodyEvents(ps))
      BY <2>1, BodiesSend DEF Stream
    <2> QED BY <2>1, <2>2, <2>3, SameTagGoesOn DEF Stream
  <1> QED BY <1>1, <1>2

LEMMA FlushSends ==
  ASSUME NEW w, NEW h, NEW n \in Nat, Stream(w, h, n)
  PROVE  Stream(Flushed(w, h), h, n) /\ SameTag(w, Flushed(w, h)) /\ Committed(Flushed(w, h))
  <1> DEFINE v == Header(w, h)
             e == [kind |-> "flush"]
  <1>1. Stream(v, h, n) /\ SameTag(w, v) /\ Committed(v)
    BY HeaderSends
  <1>2. Flushed(w, h) = Append(v, e) /\ e.kind = "flush"
    BY DEF Flushed
  <1> HIDE DEF v, e
  <1>3. Stream(Append(v, e), h, n) /\ SameTag(v, Append(v, e)) /\ Committed(Append(v, e))
    BY <1>1, <1>2, AppendSends DEF Stream, SameTag
  <1> QED BY <1>1, <1>2, <1>3, SameTagGoesOn

LEMMA InfoSends ==
  ASSUME NEW w, NEW i, NEW h, NEW n \in Nat, Stream(w, h, n), ~ Committed(w)
  PROVE  LET v == Append(w, [kind |-> "info", h |-> i]) IN
         /\ \A g : Stream(v, g, n)
         /\ Untagged(w) => Untagged(v)
         /\ "pass" \notin i.lines /\ Bare(w) => Bare(v)
         /\ ~ Committed(v)
  <1> DEFINE e == [kind |-> "info", h |-> i]
             v == Append(w, e)
  <1>1. e.kind = "info" /\ e.h = i
    OBVIOUS
  <1> HIDE DEF e
  <1>2. /\ IsWire(v) /\ Carries(v, n) /\ ~ Committed(v)
        /\ Untagged(w) => Untagged(v)
        /\ "pass" \notin i.lines /\ Bare(w) => Bare(v)
    BY <1>1, AppendSends DEF Stream
  <1>3. \A g : Says(v, g)
    BY <1>2 DEF Says, Committed
  <1> QED BY <1>2, <1>3 DEF Stream, e

LEMMA UncommittedSaysAnything ==
  ASSUME NEW w, NEW h, NEW n, Stream(w, h, n), ~ Committed(w)
  PROVE  \A g : Stream(w, g, n)
  BY DEF Stream, Says, Committed

-----------------------------------------------------------------------------
(* The injector's decision, about what came of the body so far.             *)

\* Why a document that is served as HTML goes without the script.
PagePlan == Plan(resp.page.csp.enforce, resp.page.csp.report, resp.page.csp.meta)
Excused ==
  \/ PagePlan.mode = "skip" \/ ~ LooksLikeDocument(Doc)
  \/ HeadEnd(Doc) \notin 0 .. (Budget - 1)
  \/ InsertionPoint(Doc) \notin 1 .. HeadEnd(Doc)

\* The script is in, where it belongs and under the headers that belong to it.
InPlace(w, h) ==
  /\ TaggedAt(w, InsertionPoint(Doc)) /\ HeadEnd(Doc) \in 0 .. Budget
  /\ PagePlan.mode # "skip" /\ h.enforce = PagePlan.enforce
  /\ "length" \notin h.lines
  /\ PagePlan.mode = "nonced" => "public" \notin h.lines /\ "no-store" \in h.lines

Headers == [lines : SUBSET (Gates \cup Upstreams), enforce : Seq(Policy), report : Seq(Policy)]

\* The document is held: nothing of it has gone, and its headers are the upstream's.
Held0 ==
  /\ ~ Committed(wire) /\ Untagged(wire) /\ Stream(wire, hdrs, 0)
  /\ hdrs.enforce = resp.page.csp.enforce /\ hdrs.report = resp.page.csp.report

LEMMA GivesUp ==
  ASSUME Held0, NEW b \in Seq(Pieces), \A j \in 1 .. Len(b) : b[j] = Doc[j], GiveUp(b)
  PROVE  /\ hdrs' = hdrs /\ buf' = <<>> /\ resolved' = TRUE
         /\ Stream(wire', hdrs, Len(b)) /\ Untagged(wire') /\ Committed(wire')
  <1> DEFINE v == Header(wire, hdrs)
  <1>1. Stream(v, hdrs, 0) /\ SameTag(wire, v) /\ Committed(v)
    BY HeaderSends DEF Held0
  <1>2. wire' = Body(v, hdrs, b)
    BY DEF GiveUp
  <1>3. \A j \in 1 .. Len(b) : b[j] = Doc[0 + j]
    BY LenProperties
  <1> HIDE DEF v
  <1>4. Stream(wire', hdrs, 0 + Len(b)) /\ SameTag(v, wire') /\ Committed(wire')
    BY <1>1, <1>2, <1>3, BodySends
  <1>5. 0 + Len(b) = Len(b)
    BY LenProperties
  <1> QED BY <1>1, <1>4, <1>5 DEF GiveUp, SameTag, Held0

LEMMA Inserts ==
  ASSUME Held0, NEW b \in Seq(Pieces), \A j \in 1 .. Len(b) : b[j] = Doc[j],
         NEW point \in 1 .. Len(b), NEW h, InsertTag(b, point, h)
  PROVE  /\ hdrs' = h /\ buf' = <<>> /\ resolved' = TRUE
         /\ Stream(wire', h, Len(b)) /\ TaggedAt(wire', point) /\ Committed(wire')
  <1> DEFINE w == Header(wire, h)
             p == SubSeq(b, 1, point)
             q == SubSeq(b, point + 1, Len(b))
             x == Body(w, h, p)
             e == [kind |-> "tag"]
             y == Append(x, e)
  <1>1. Len(b) \in Nat /\ point \in Nat /\ \A i \in 1 .. Len(b) : b[i] \in Pieces
    BY LenProperties
  <1>2. p \in Seq(Pieces) /\ Len(p) = point /\ \A j \in 1 .. Len(p) : p[j] = Doc[0 + j]
    <2>1. \A i \in 1 .. point : b[i] \in Pieces
      BY <1>1
    <2>2. /\ p \in Seq(Pieces) /\ Len(p) = IF 1 <= point THEN point - 1 + 1 ELSE 0
          /\ \A i \in 1 .. point - 1 + 1 : p[i] = b[1 + i - 1]
      BY <1>1, <2>1, SubSeqProperties
    <2> HIDE DEF p
    <2>3. Len(p) = point
      BY <1>1, <2>2
    <2>4. \A i \in 1 .. point : p[i] = b[i]
      <3>1. \A i \in 1 .. point : 1 + i - 1 = i /\ i \in 1 .. point - 1 + 1
        BY <1>1
      <3> QED BY <2>2, <3>1
    <2>5. \A i \in 1 .. point : 0 + i = i /\ i \in 1 .. Len(b)
      BY <1>1
    <2> QED BY <2>2, <2>3, <2>4, <2>5
  <1>3. /\ q \in Seq(Pieces) /\ Len(q) = Len(b) - point
        /\ \A j \in 1 .. Len(q) : q[j] = Doc[point + j]
    <2>1. \A i \in point + 1 .. Len(b) : b[i] \in Pieces
      BY <1>1
    <2>2. /\ q \in Seq(Pieces)
          /\ Len(q) = IF point + 1 <= Len(b) THEN Len(b) - (point + 1) + 1 ELSE 0
          /\ \A i \in 1 .. Len(b) - (point + 1) + 1 : q[i] = b[point + 1 + i - 1]
      BY <1>1, <2>1, SubSeqProperties
    <2> HIDE DEF q
    <2>3. Len(q) = Len(b) - point
      BY <1>1, <2>2
    <2>4. \A i \in 1 .. Len(b) - point :
            /\ point + 1 + i - 1 = point + i /\ point + i \in 1 .. Len(b)
            /\ i \in 1 .. Len(b) - (point + 1) + 1
      BY <1>1
    <2> QED BY <2>2, <2>3, <2>4
  <1>4. wire' = Body(y, h, q)
    BY DEF InsertTag, Tag
  <1>5. Stream(w, h, 0) /\ SameTag(wire, w) /\ Committed(w)
    BY UncommittedSaysAnything, HeaderSends DEF Held0
  <1> HIDE DEF w, p, q
  <1>6. Stream(x, h, 0 + Len(p)) /\ SameTag(w, x) /\ Committed(x)
    BY <1>2, <1>5, BodySends
  <1>7. Stream(x, h, point) /\ Untagged(x)
    <2>1. 0 + Len(p) = point
      BY <1>1, <1>2
    <2> QED BY <1>5, <1>6, <2>1 DEF Held0, SameTag
  <1>8. e.kind = "tag"
    OBVIOUS
  <1> HIDE DEF x, e
  <1>9. Stream(y, h, point) /\ TaggedAt(y, point) /\ Committed(y)
    BY <1>1, <1>6, <1>7, <1>8, AppendSends DEF Stream
  <1> HIDE DEF y
  <1>10. Stream(wire', h, point + Len(q)) /\ SameTag(y, wire') /\ Committed(wire')
    BY <1>1, <1>3, <1>4, <1>9, BodySends
  <1>11. point + Len(q) = Len(b)
    BY <1>1, <1>3
  <1> QED BY <1>1, <1>9, <1>10, <1>11 DEF InsertTag, SameTag

\* A decision puts the script in its place, or is excused, if the document is over
\* or the budget or the end of the head has been reached.
LEMMA Decides ==
  ASSUME Held0, hdrs \in Headers, Doc \in Seq(Pieces), NEW n \in 0 .. Len(Doc),
         NEW b, b = SubSeq(Doc, 1, n), Decide(b)
  PROVE  /\ hdrs' \in Headers /\ buf' = <<>> /\ resolved' = TRUE
         /\ Stream(wire', hdrs', n) /\ Committed(wire')
         /\ \/ /\ hdrs' = hdrs /\ Untagged(wire')
               /\ HeadEnd(b) >= 0 \/ n >= Budget \/ n = Len(Doc) => Excused
            \/ InPlace(wire', hdrs')
  <1> DEFINE point == InsertionPoint(b)
             end == HeadEnd(b)
  <1>1. PagePlan = Plan(hdrs.enforce, hdrs.report, resp.page.csp.meta)
    BY DEF Held0, PagePlan
  <1>2. /\ b \in Seq(Pieces) /\ Len(b) = n /\ \A i \in 1 .. Len(b) : b[i] = Doc[i]
        /\ point >= 0 => point = InsertionPoint(Doc) /\ InsertionPoint(Doc) \in 1 .. n
        /\ end >= 0 => end = HeadEnd(Doc) /\ HeadEnd(Doc) \in 0 .. (n - 1)
        /\ HeadEnd(Doc) \in 0 .. (n - 1) => end = HeadEnd(Doc)
        /\ InsertionPoint(Doc) \in 1 .. n => point = InsertionPoint(Doc)
        /\ end \in Int /\ point \in Int
    BY StartTells
  <1>3. n \in Nat /\ Len(Doc) \in Nat /\ n <= Len(Doc) /\ Budget \in Nat \ {0}
    BY LenProperties, WritersAssumption
  <1>4. n = Len(Doc) => b = Doc
    BY SubSeqFull
  <1>5. CASE point < 0 \/ end < 0 \/ end > Budget \/ PagePlan.mode = "skip"
    <2>1. GiveUp(b)
      BY <1>1, <1>5 DEF Decide
    <2>2. /\ hdrs' = hdrs /\ buf' = <<>> /\ resolved' = TRUE
          /\ Stream(wire', hdrs, n) /\ Untagged(wire') /\ Committed(wire')
      BY <1>2, <2>1, GivesUp
    <2>3. ASSUME HeadEnd(b) >= 0 \/ n >= Budget \/ n = Len(Doc),
                 PagePlan.mode # "skip", HeadEnd(Doc) \in 0 .. (Budget - 1),
                 InsertionPoint(Doc) \in 1 .. HeadEnd(Doc)
          PROVE  FALSE
      <3>1. end = HeadEnd(Doc) /\ end >= 0
        <4>1. CASE HeadEnd(b) >= 0
          BY <1>2, <4>1
        <4>2. CASE n >= Budget
          <5>1. HeadEnd(Doc) \in 0 .. (n - 1)
            BY <1>3, <2>3, <4>2
          <5> QED BY <1>2, <5>1
        <4>3. CASE n = Len(Doc)
          <5>1. HeadEnd(b) = HeadEnd(Doc)
            BY <1>4, <4>3
          <5> QED BY <2>3, <5>1
        <4> QED BY <2>3, <4>1, <4>2, <4>3
      <3>2. InsertionPoint(Doc) \in 1 .. n
        BY <1>2, <1>3, <2>3, <3>1
      <3>3. point = InsertionPoint(Doc) /\ point >= 0
        BY <1>2, <3>2
      <3>4. end <= Budget
        BY <1>3, <2>3, <3>1
      <3> QED BY <1>2, <1>3, <1>5, <2>3, <3>1, <3>3, <3>4
    <2> QED BY <2>2, <2>3 DEF Excused
  <1>6. CASE ~ (point < 0 \/ end < 0 \/ end > Budget \/ PagePlan.mode = "skip")
    <2> DEFINE h == Rewritten(PagePlan)
    <2>1. InsertTag(b, point, h)
      BY <1>1, <1>6 DEF Decide
    <2>2. point = InsertionPoint(Doc) /\ point \in 1 .. Len(b) /\ HeadEnd(Doc) \in 0 .. Budget
      BY <1>2, <1>3, <1>6
    <2>3. h \in Headers
      <3>1. hdrs.lines \subseteq Gates \cup Upstreams /\ hdrs.enforce \in Seq(Policy)
            /\ hdrs.report \in Seq(Policy)
        BY DEF Headers
      <3>2. h.lines \subseteq Gates \cup Upstreams
        BY <3>1 DEF Rewritten, Gates, Upstreams
      <3>3. PagePlan.enforce \in Seq(Policy) /\ PagePlan.report \in Seq(Policy)
        <4>1. \A src \in {"our-nonce", "our-hash"} :
                Rewrite(hdrs.enforce, src) \in Seq(Policy) /\ Rewrite(hdrs.report, src) \in Seq(Policy)
          BY <3>1, RewritesPolicies DEF Source
        <4>2. /\ PagePlan.enforce \in {hdrs.enforce, Rewrite(hdrs.enforce, "our-nonce"),
                                       Rewrite(hdrs.enforce, "our-hash")}
              /\ PagePlan.report \in {hdrs.report, Rewrite(hdrs.report, "our-nonce"),
                                      Rewrite(hdrs.report, "our-hash")}
          BY <1>1 DEF Plan
        <4> QED BY <3>1, <4>1, <4>2
      <3> QED BY <3>2, <3>3 DEF Rewritten, Headers
    <2>4. /\ h.enforce = PagePlan.enforce /\ "length" \notin h.lines
          /\ PagePlan.mode = "nonced" => "public" \notin h.lines /\ "no-store" \in h.lines
      BY DEF Rewritten
    <2> HIDE DEF h
    <2>5. /\ hdrs' = h /\ buf' = <<>> /\ resolved' = TRUE
          /\ Stream(wire', h, Len(b)) /\ TaggedAt(wire', point) /\ Committed(wire')
      BY <1>2, <2>1, <2>2, Inserts
    <2> QED BY <1>2, <1>6, <2>2, <2>3, <2>4, <2>5 DEF InPlace
  <1> QED BY <1>5, <1>6

-----------------------------------------------------------------------------
(* One invariant of both writers, and one of what was paid for.             *)

Kinded ==
  /\ resp \in Injected \cup Paid /\ phase \in {"early", "body", "over", "cut"}
  /\ fed \in 0 .. Len(Doc) /\ hdrs \in Headers /\ resolved \in BOOLEAN
  /\ held \subseteq {"pass"}

Undecided == Injecting /\ ~ resolved

StreamInv ==
  /\ Stream(wire, hdrs, fed - Len(buf))
  /\ ~ Undecided => buf = <<>>
  /\ phase = "early" => fed = 0 /\ ~ resolved /\ buf = <<>> /\ ~ Committed(wire) /\ Untagged(wire)
  /\ phase = "over" => fed = Len(Doc) /\ ~ Undecided
  /\ phase # "early" /\ ~ Undecided => Committed(wire)

HeldInv ==
  phase # "early" /\ Undecided =>
    /\ Held0 /\ resp.html /\ buf = SubSeq(Doc, 1, fed) /\ Len(buf) < Budget

TagInv ==
  \/ Untagged(wire)
  \/ /\ Injecting /\ resp.html /\ resolved /\ phase # "early"
     /\ InPlace(wire, hdrs)

PolicyInv ==
  phase # "early" => hdrs.enforce \in {resp.page.csp.enforce, PagePlan.enforce}

BareInv ==
  phase # "early" /\ Injecting /\ resp.html /\ resolved /\ Untagged(wire) => Excused

WritersInv == Kinded /\ StreamInv /\ HeldInv /\ TagInv /\ PolicyInv /\ BareInv

LEMMA Documents ==
  ASSUME resp \in Injected \cup Paid
  PROVE  /\ Doc \in Seq(Pieces) /\ Len(Doc) \in Nat /\ Budget \in Nat \ {0}
         /\ resp.page.csp.enforce \in Seq(Policy) /\ resp.page.csp.report \in Seq(Policy)
         /\ resp.page.csp.meta \in Seq(Policy)
         /\ resp.sends \subseteq Upstreams /\ resp.page \in Pages
         /\ Injecting <=> resp \in Injected
  <1>1. resp.page \in Pages
    BY DEF Injected, Paid
  <1>2. resp.page.body \in Seq(Pieces) /\ resp.page.csp \in Csp
    BY <1>1, WritersAssumption
  <1>3. Len(resp.page.body) \in Nat
    BY <1>2, LenProperties
  <1>4. resp.sends \subseteq Upstreams
    BY DEF Injected, Paid, Upstreams
  <1>5. Injecting <=> resp \in Injected
    BY DEF Injected, Paid, Injecting
  <1> QED BY <1>1, <1>2, <1>3, <1>4, <1>5, WritersAssumption DEF Doc, Csp

LEMMA WritersInit == Init => WritersInv
  <1> SUFFICES ASSUME Init PROVE WritersInv
    OBVIOUS
  <1>1. Len(Doc) \in Nat /\ resp \in Injected \cup Paid
    BY Documents DEF Init
  <1>2. hdrs \in Headers
    <2>1. <<>> \in Seq(Policy)
      BY EmptySeq
    <2> QED BY <2>1 DEF Init, Headers, Gates
  <1>3. Stream(wire, hdrs, 0) /\ ~ Committed(wire) /\ Untagged(wire)
    <2>1. wire = <<>> /\ IsWire(wire) /\ Len(wire) = 0
      BY EmptySeq DEF Init, IsWire
    <2>2. DOMAIN wire = {} /\ Bodies(wire, Len(wire)) = {}
      BY <2>1, WireIs DEF Bodies
    <2> QED BY <2>1, <2>2, FS_EmptySet DEF Stream, Says, Carries, Committed, Untagged
  <1>4. ~ resolved /\ resolved \in BOOLEAN
    BY Zenon DEF Init
  <1>5. fed - Len(buf) = 0 /\ fed = 0 /\ buf = <<>> /\ phase = "early" /\ fed \in 0 .. Len(Doc)
    <2>1. buf = <<>> /\ phase = "early"
      BY DEF Init
    <2>2. fed = 0 /\ Len(buf) = 0
      BY EmptySeq DEF Init
    <2>3. fed - Len(buf) = 0 /\ fed \in 0 .. Len(Doc)
      BY <1>1, <2>2
    <2> QED BY <2>1, <2>2, <2>3, Zenon
  <1>6. Kinded
    <2>1. phase \in {"early", "body", "over"} /\ held \subseteq {"pass"}
      BY DEF Init
    <2> QED BY <1>1, <1>2, <1>4, <1>5, <2>1, Zenon DEF Kinded
  <1>7. StreamInv
    <2>1. phase # "over"
      BY <1>5
    <2>2. Stream(wire, hdrs, fed - Len(buf))
      BY <1>3, <1>5
    <2>3. fed = 0 /\ buf = <<>> /\ phase = "early"
      BY <1>5
    <2>4. ~ Committed(wire) /\ Untagged(wire)
      BY <1>3
    <2> QED BY <1>4, <2>1, <2>2, <2>3, <2>4, Zenon DEF StreamInv
  <1> QED BY <1>3, <1>5, <1>6, <1>7 DEF WritersInv, HeldInv, TagInv, PolicyInv, BareInv


\* What depends on the response alone stays as it is.
LEMMA SameResponse ==
  ASSUME resp' = resp
  PROVE  /\ Doc' = Doc /\ (Injecting' <=> Injecting) /\ PagePlan' = PagePlan
         /\ Excused' <=> Excused
         /\ \A n : Stream(wire', hdrs', n) <=> Stream(wire, hdrs, n)'
         /\ InPlace(wire, hdrs)' <=> InPlace(wire', hdrs')
  BY DEF Doc, Injecting, PagePlan, Excused, Stream, Says, Carries, InPlace, TaggedAt, Bodies,
         Untagged, Bare

\* Before the final header nothing of the body is known.
LEMMA Early ==
  ASSUME WritersInv, phase = "early"
  PROVE  /\ Stream(wire, hdrs, 0) /\ fed = 0 /\ buf = <<>> /\ ~ Committed(wire) /\ Untagged(wire)
         /\ Len(<<>>) = 0
  <1>1. fed = 0 /\ buf = <<>> /\ ~ Committed(wire) /\ Untagged(wire)
    BY Zenon DEF WritersInv, StreamInv
  <1>2. Len(<<>>) = 0
    BY EmptySeq
  <1>3. fed = 0 /\ Len(buf) = 0
    BY <1>1, <1>2, Zenon
  <1>4. fed - Len(buf) = 0
    BY ONLY <1>3
  <1>5. Stream(wire, hdrs, fed - Len(buf))
    BY DEF WritersInv, StreamInv
  <1>6. Stream(wire, hdrs, 0)
    BY <1>4, <1>5
  <1> QED BY <1>1, <1>2, <1>6

LEMMA InformInv ==
  ASSUME WritersInv, NEW more \in {{}, {"cookie"}}, Inform(more)
  PROVE  WritersInv'
  <1> DEFINE kept == IF Injecting THEN {} ELSE Held(hdrs.lines \cup more)
             i == [hdrs EXCEPT !.lines = (hdrs.lines \cup more) \ kept]
  <1>1. /\ UNCHANGED <<resp, phase, fed, buf, resolved>> /\ phase = "early"
        /\ hdrs' = [hdrs EXCEPT !.lines = {}]
        /\ wire' = Append(wire, [kind |-> "info", h |-> i])
    BY DEF Inform
  <1>2. /\ Stream(wire, hdrs, 0) /\ fed = 0 /\ buf = <<>> /\ ~ Committed(wire) /\ Untagged(wire)
        /\ Len(<<>>) = 0
    BY <1>1, Early
  <1> HIDE DEF i
  <1>3. Stream(wire', hdrs', 0) /\ Untagged(wire') /\ ~ Committed(wire')
    BY <1>1, <1>2, InfoSends
  <1>4. hdrs' \in Headers
    BY <1>1 DEF WritersInv, Kinded, Headers
  <1>5. Kinded'
    <2>1. resp \in Injected \cup Paid /\ resolved \in BOOLEAN /\ fed \in 0 .. Len(Doc)
      BY Zenon DEF WritersInv, Kinded
    <2>2. phase' \in {"early", "body", "over"} /\ held' \subseteq {"pass"}
      BY <1>1 DEF Inform, Held, WritersInv, Kinded
    <2> QED BY <1>1, <1>4, <2>1, <2>2, SameResponse, Zenon DEF Kinded
  <1>6. StreamInv'
    <2>1. Stream(wire, hdrs, fed - Len(buf))'
      <3>1. fed' - Len(buf') = 0
        <4>1. fed' = 0 /\ Len(buf') = 0
          BY <1>1, <1>2, Zenon
        <4> QED BY <4>1
      <3> QED BY <1>1, <1>3, <3>1, SameResponse
    <2>2. phase' = "early" /\ phase' # "over" /\ fed' = 0 /\ buf' = <<>>
      BY <1>1, <1>2
    <2>3. ~ resolved'
      BY <1>1, Zenon DEF WritersInv, StreamInv
    <2> QED BY <1>3, <2>1, <2>2, <2>3, Zenon DEF StreamInv
  <1>7. phase' = "early"
    BY <1>1
  <1> QED BY <1>3, <1>5, <1>6, <1>7 DEF WritersInv, HeldInv, TagInv, PolicyInv, BareInv

LEMMA AnnounceInv ==
  ASSUME WritersInv, Announce
  PROVE  WritersInv'
  <1> DEFINE h == [lines |-> hdrs.lines \cup resp.sends,
                   enforce |-> resp.page.csp.enforce, report |-> resp.page.csp.report]
             paid == [h EXCEPT !.lines = Seal(@)]
  <1>1. UNCHANGED <<resp, fed>> /\ phase = "early" /\ phase' = "body"
    BY DEF Announce
  <1>2. /\ Stream(wire, hdrs, 0) /\ fed = 0 /\ buf = <<>> /\ ~ Committed(wire) /\ Untagged(wire)
        /\ Len(<<>>) = 0
    BY <1>1, Early
  <1>3. /\ resp \in Injected \cup Paid /\ resolved \in BOOLEAN /\ fed \in 0 .. Len(Doc)
        /\ held \subseteq {"pass"}
    BY Zenon DEF WritersInv, Kinded
  <1>4. hdrs.lines \subseteq Gates \cup Upstreams
    BY DEF WritersInv, Kinded, Headers
  <1>5. h \in Headers /\ paid \in Headers
    <2>1. h.lines \subseteq Gates \cup Upstreams
      BY <1>3, <1>4, Documents
    <2>2. h \in Headers
      BY <1>3, <2>1, Documents DEF Headers
    <2> HIDE DEF h
    <2>3. Seal(h.lines) \subseteq Gates \cup Upstreams
      BY <1>3, <2>1 DEF Seal, Gates, Upstreams
    <2>4. paid \in Headers
      BY <2>2, <2>3 DEF Headers
    <2> QED BY <2>2, <2>4
  <1>6. \A g : Stream(wire, g, 0)
    BY <1>2, UncommittedSaysAnything
  <1>7. h.enforce = resp.page.csp.enforce /\ h.report = resp.page.csp.report
        /\ paid.enforce = resp.page.csp.enforce
    OBVIOUS
  <1> HIDE DEF h, paid
  \* The three ways: held, passed on, sealed.
  <1>8. \/ /\ Injecting /\ resp.html /\ hdrs' = h /\ buf' = <<>> /\ ~ resolved' /\ wire' = wire
        \/ /\ Injecting /\ ~ resp.html /\ hdrs' = h /\ buf' = <<>> /\ resolved'
           /\ wire' = Header(wire, h)
        \/ /\ ~ Injecting /\ hdrs' = paid /\ UNCHANGED <<buf, resolved>>
           /\ wire' = Header(wire, paid)
    BY Zenon DEF Announce, InjectorHeader, h, paid
  <1>9. resolved' \in BOOLEAN
    <2>1. Injecting => resp.html \in BOOLEAN
      BY <1>3, Documents DEF Injected
    <2>2. Injecting => resolved' = ~ resp.html
      BY Zenon DEF Announce, InjectorHeader
    <2> QED BY <1>3, <1>8, <2>1, <2>2, Zenon
  <1>10. hdrs' \in Headers /\ buf' = <<>> /\ hdrs'.enforce = resp.page.csp.enforce
    BY <1>2, <1>5, <1>7, <1>8
  <1>11. held' \subseteq {"pass"}
    BY <1>3 DEF Announce
  <1>12. Kinded'
    BY <1>1, <1>3, <1>9, <1>10, <1>11, SameResponse DEF Kinded
  <1>13. Stream(wire', hdrs', 0) /\ Untagged(wire') /\ (~ Undecided' => Committed(wire'))
    <2>1. CASE Injecting /\ resp.html /\ hdrs' = h /\ ~ resolved' /\ wire' = wire
      BY <1>1, <1>2, <1>6, <2>1, SameResponse DEF Undecided
    <2>2. ASSUME NEW g, hdrs' = g, wire' = Header(wire, g)
          PROVE  Stream(wire', hdrs', 0) /\ Untagged(wire') /\ Committed(wire')
      BY <1>2, <1>6, <2>2, HeaderSends DEF SameTag
    <2> QED BY <1>8, <2>1, <2>2
  <1>14. StreamInv'
    <2>1. Stream(wire, hdrs, fed - Len(buf))'
      <3>1. fed' = 0 /\ Len(buf') = 0
        BY <1>1, <1>2, <1>10, Zenon
      <3>2. fed' - Len(buf') = 0
        BY <3>1
      <3> QED BY <1>1, <1>13, <3>2, SameResponse
    <2>2. phase' # "early" /\ phase' # "over" /\ buf' = <<>>
      BY <1>1, <1>10
    <2> QED BY <1>13, <2>1, <2>2, Zenon DEF StreamInv
  <1>15. HeldInv'
    <2> SUFFICES ASSUME Undecided' PROVE HeldInv'
      BY DEF HeldInv
    <2>1. Injecting /\ ~ resolved'
      BY <1>1, SameResponse DEF Undecided
    <2>2. resp.html /\ hdrs' = h /\ wire' = wire
      BY <1>8, <2>1
    <2>3. fed' = 0 /\ Len(buf') = 0
      BY <1>1, <1>2, <1>10, Zenon
    <2>4. SubSeq(Doc, 1, 0) = <<>>
      BY SubSeqEmpty
    <2>5. Len(buf') < Budget
      BY <2>3, WritersAssumption
    <2>6. Held0'
      <3>1. Stream(wire, hdrs, 0)'
        BY <1>1, <1>13, SameResponse
      <3> QED BY <1>1, <1>2, <1>7, <2>2, <3>1 DEF Held0
    <2> QED BY <1>1, <1>10, <2>2, <2>3, <2>4, <2>5, <2>6, SameResponse DEF HeldInv
  <1>16. TagInv' /\ PolicyInv' /\ BareInv'
    <2>1. ~ (Injecting' /\ resp'.html /\ resolved')
      BY <1>1, <1>8, SameResponse
    <2> QED BY <1>1, <1>10, <1>13, <2>1 DEF TagInv, PolicyInv, BareInv
  <1> QED BY <1>12, <1>14, <1>15, <1>16 DEF WritersInv

LEMMA PointIsANumber ==
  ASSUME Doc \in Seq(Pieces)
  PROVE  InsertionPoint(Doc) \in Int
  <1>1. Len(Doc) \in Nat
    BY LenProperties
  <1>2. Len(Doc) \in 0 .. Len(Doc) /\ SubSeq(Doc, 1, Len(Doc)) = Doc
    BY <1>1, SubSeqFull
  <1> QED BY <1>2, StartTells

\* A response that is not being held goes on under the headers it has.
LEMMA GoesOn ==
  ASSUME WritersInv, phase = "body", ~ Undecided,
         UNCHANGED <<resp, hdrs, buf, resolved, held>>,
         fed' \in 0 .. Len(Doc), phase' \in {"body", "over"},
         phase' = "over" => fed' = Len(Doc),
         Stream(wire', hdrs, fed'), SameTag(wire, wire'), Committed(wire')
  PROVE  WritersInv'
  <1>1. buf' = <<>> /\ Len(buf') = 0
    BY EmptySeq DEF WritersInv, StreamInv
  <1>2. resp \in Injected \cup Paid /\ resolved \in BOOLEAN /\ held \subseteq {"pass"}
        /\ hdrs \in Headers
    BY Zenon DEF WritersInv, Kinded
  <1>3. phase' \in {"early", "body", "over"} /\ phase' # "early"
    OBVIOUS
  <1>4. Kinded'
    BY <1>2, <1>3, SameResponse DEF Kinded
  <1>5. ~ Undecided'
    <2>1. (Injecting' <=> Injecting) /\ (resolved' <=> resolved)
      BY SameResponse
    <2> QED BY <2>1, Zenon DEF Undecided
  <1>6. StreamInv'
    <2>1. fed' - 0 = fed'
      <3>1. Len(Doc) \in Nat
        BY <1>2, Documents
      <3>2. \A k \in 0 .. Len(Doc) : k - 0 = k
        BY <3>1
      <3> QED BY <3>2, Zenon
    <2>2. Stream(wire', hdrs', fed' - Len(buf'))
      BY <1>1, <2>1
    <2>3. Stream(wire, hdrs, fed - Len(buf))'
      BY <2>2, SameResponse
    <2>4. Doc' = Doc
      BY SameResponse
    <2> QED BY <1>1, <1>3, <1>5, <2>3, <2>4, Zenon DEF StreamInv
  <1>7. HeldInv'
    BY <1>5, Zenon DEF HeldInv
  <1>8. \/ Untagged(wire) /\ Untagged(wire')
        \/ /\ InPlace(wire, hdrs) /\ InPlace(wire', hdrs') /\ ~ Untagged(wire')
           /\ Injecting /\ resp.html /\ resolved
    <2>1. Untagged(wire) => Untagged(wire')
      BY DEF SameTag
    <2>2. InsertionPoint(Doc) \in Int
      BY <1>2, Documents, PointIsANumber
    <2>3. InPlace(wire, hdrs) => InPlace(wire', hdrs') /\ ~ Untagged(wire')
      <3>1. InPlace(wire, hdrs) => TaggedAt(wire', InsertionPoint(Doc))
        BY <2>2 DEF SameTag, InPlace
      <3>2. TaggedAt(wire', InsertionPoint(Doc)) => ~ Untagged(wire')
        BY DEF TaggedAt, Untagged
      <3> QED BY <3>1, <3>2 DEF InPlace
    <2> QED BY <2>1, <2>3 DEF WritersInv, TagInv
  <1>9. TagInv' /\ BareInv'
    <2>1. (Injecting' <=> Injecting) /\ resp' = resp /\ (resolved' <=> resolved) /\ phase' # "early"
          /\ (Excused' <=> Excused) /\ (Untagged(wire)' <=> Untagged(wire'))
          /\ (InPlace(wire, hdrs)' <=> InPlace(wire', hdrs'))
      BY <1>3, SameResponse DEF Untagged
    <2>2. Untagged(wire) /\ Injecting /\ resp.html /\ resolved => Excused
      BY DEF WritersInv, BareInv
    <2> QED BY <1>8, <2>1, <2>2, Zenon DEF TagInv, BareInv
  <1>10. PolicyInv'
    <2>1. resp' = resp /\ hdrs' = hdrs /\ PagePlan' = PagePlan
      BY SameResponse
    <2> QED BY <2>1 DEF WritersInv, PolicyInv
  <1> QED BY <1>4, <1>6, <1>7, <1>9, <1>10 DEF WritersInv

\* A document is held no more: the script is in its place, or not called for.
LEMMA IsDecided ==
  ASSUME WritersInv, phase = "body", Undecided, UNCHANGED <<resp, held>>,
         fed' \in 0 .. Len(Doc), phase' \in {"body", "over"},
         phase' = "over" => fed' = Len(Doc),
         hdrs' \in Headers, buf' = <<>>, resolved' = TRUE,
         Stream(wire', hdrs', fed'), Committed(wire'),
         \/ hdrs' = hdrs /\ Untagged(wire') /\ Excused
         \/ InPlace(wire', hdrs')
  PROVE  WritersInv'
  <1>1. buf' = <<>> /\ Len(buf') = 0
    BY EmptySeq
  <1>2. resp \in Injected \cup Paid /\ held \subseteq {"pass"}
    BY Zenon DEF WritersInv, Kinded
  <1>3. phase' \in {"early", "body", "over"} /\ phase' # "early"
    OBVIOUS
  <1>4. Kinded'
    BY <1>2, <1>3, SameResponse DEF Kinded
  <1>5. ~ Undecided'
    BY Zenon DEF Undecided
  <1>6. StreamInv'
    <2>1. fed' - 0 = fed'
      <3>1. Len(Doc) \in Nat
        BY <1>2, Documents
      <3>2. \A k \in 0 .. Len(Doc) : k - 0 = k
        BY <3>1
      <3> QED BY <3>2, Zenon
    <2>2. Stream(wire', hdrs', fed' - Len(buf'))
      BY <1>1, <2>1
    <2>3. Stream(wire, hdrs, fed - Len(buf))'
      BY <2>2, SameResponse
    <2>4. Doc' = Doc
      BY SameResponse
    <2> QED BY <1>1, <1>3, <1>5, <2>3, <2>4, Zenon DEF StreamInv
  <1>7. HeldInv'
    BY <1>5, Zenon DEF HeldInv
  <1>8. Injecting' /\ resp'.html /\ hdrs.enforce = resp.page.csp.enforce
    <2>1. phase # "early" /\ Undecided
      OBVIOUS
    <2>2. resp.html /\ hdrs.enforce = resp.page.csp.enforce
      BY <2>1 DEF WritersInv, HeldInv, Held0
    <2> QED BY <2>2, SameResponse DEF Undecided
  <1>9. TagInv' /\ BareInv'
    <2>1. (Excused' <=> Excused) /\ (Untagged(wire)' <=> Untagged(wire'))
          /\ (InPlace(wire, hdrs)' <=> InPlace(wire', hdrs'))
      BY SameResponse DEF Untagged
    <2>2. InPlace(wire', hdrs') => ~ Untagged(wire')
      BY DEF TaggedAt, Untagged, InPlace
    <2> QED BY <1>3, <1>8, <2>1, <2>2, Zenon DEF TagInv, BareInv
  <1>10. PolicyInv'
    <2>1. resp' = resp /\ PagePlan' = PagePlan
      BY SameResponse
    <2>2. hdrs'.enforce \in {resp.page.csp.enforce, PagePlan.enforce}
      BY <1>8 DEF InPlace
    <2> QED BY <2>1, <2>2 DEF PolicyInv
  <1> QED BY <1>4, <1>6, <1>7, <1>9, <1>10 DEF WritersInv

LEMMA FlushInv ==
  ASSUME WritersInv, Flush
  PROVE  WritersInv'
  <1>1. /\ phase = "body" /\ UNCHANGED <<resp, fed, hdrs, buf, resolved, held, phase>>
        /\ wire' = Flushed(wire, hdrs) /\ ~ Undecided
    <2>1. Injecting => resolved
      BY Zenon DEF Flush
    <2> QED BY <2>1 DEF Flush, Undecided
  <1>2. fed \in 0 .. Len(Doc) /\ Len(Doc) \in Nat
    BY Documents, Zenon DEF WritersInv, Kinded
  <1>3. Stream(wire, hdrs, fed) /\ fed \in Nat
    <2>1. Len(buf) = 0
      BY <1>1, EmptySeq DEF WritersInv, StreamInv
    <2>2. fed - Len(buf) = fed
      BY <1>2, <2>1
    <2> QED BY <1>2, <2>2 DEF WritersInv, StreamInv
  <1>4. Stream(wire', hdrs, fed) /\ SameTag(wire, wire') /\ Committed(wire')
    BY <1>1, <1>3, FlushSends
  <1> QED BY <1>1, <1>2, <1>4, GoesOn

\* The next chunk, as pieces of the document.
LEMMA NextPieces ==
  ASSUME NEW d \in Seq(Pieces), NEW k \in Nat, NEW n \in Nat, n >= 1, k + n <= Len(d)
  PROVE  LET ps == SubSeq(d, k + 1, k + n) IN
         /\ ps \in Seq(Pieces) /\ Len(ps) = n /\ \A j \in 1 .. n : ps[j] = d[k + j]
         /\ SubSeq(d, 1, k) \o ps = SubSeq(d, 1, k + n)
  <1> DEFINE ps == SubSeq(d, k + 1, k + n)
  <1>1. Len(d) \in Nat /\ \A i \in 1 .. Len(d) : d[i] \in Pieces
    BY LenProperties
  <1>2. ps \in Seq(Pieces) /\ Len(ps) = n /\ \A j \in 1 .. n : ps[j] = d[k + j]
    <2>1. \A i \in k + 1 .. k + n : d[i] \in Pieces
      BY <1>1
    <2>2. k + 1 \in Nat /\ k + n \in Nat
      OBVIOUS
    <2>3. /\ ps \in Seq(Pieces)
          /\ Len(ps) = IF k + 1 <= k + n THEN (k + n) - (k + 1) + 1 ELSE 0
          /\ \A i \in 1 .. (k + n) - (k + 1) + 1 : ps[i] = d[k + 1 + i - 1]
      BY <2>1, <2>2, SubSeqProperties
    <2>4. (k + n) - (k + 1) + 1 = n /\ k + 1 <= k + n
      OBVIOUS
    <2>5. \A j \in 1 .. n : k + 1 + j - 1 = k + j
      OBVIOUS
    <2> HIDE DEF ps
    <2> QED BY <2>3, <2>4, <2>5
  <1>3. SubSeq(d, 1, k) \o ps = SubSeq(d, 1, k + n)
    BY <1>1, ConcatAdjacentSubSeq
  <1> QED BY <1>2, <1>3

LEMMA ChunkInv ==
  ASSUME WritersInv, NEW n \in 1 .. Len(Doc), Chunk(n)
  PROVE  WritersInv'
  <1> DEFINE ps == SubSeq(Doc, fed + 1, fed + n)
             b == buf \o ps
  <1>1. /\ phase = "body" /\ UNCHANGED <<resp, held, phase>> /\ fed' = fed + n
        /\ n <= Len(Doc) - fed
    BY DEF Chunk
  <1>2. /\ resp \in Injected \cup Paid /\ fed \in 0 .. Len(Doc) /\ hdrs \in Headers
        /\ resolved \in BOOLEAN
    BY Zenon DEF WritersInv, Kinded
  <1>3. Doc \in Seq(Pieces) /\ Len(Doc) \in Nat /\ Budget \in Nat \ {0} /\ (Injecting \/ ~ Injecting)
    BY <1>2, Documents
  <1>4. /\ fed \in Nat /\ n \in Nat /\ n >= 1 /\ fed + n <= Len(Doc)
        /\ fed + n \in 0 .. Len(Doc) /\ fed + n \in Nat
    <2>1. fed \in 0 .. Len(Doc) /\ n <= Len(Doc) - fed
      BY <1>1, <1>2
    <2>2. n \in 1 .. Len(Doc)
      OBVIOUS
    <2> QED BY ONLY <1>3, <2>1, <2>2
  <1>5. /\ ps \in Seq(Pieces) /\ Len(ps) = n /\ \A j \in 1 .. n : ps[j] = Doc[fed + j]
        /\ SubSeq(Doc, 1, fed) \o ps = SubSeq(Doc, 1, fed + n)
    BY <1>3, <1>4, NextPieces
  <1>6. fed' \in 0 .. Len(Doc) /\ phase' = "body"
    BY <1>1, <1>4
  <1>7. CASE ~ Undecided
    <2>1. wire' = Body(wire, hdrs, ps) /\ UNCHANGED <<hdrs, buf, resolved>>
      <3>1. CASE Injecting
        <4>1. resolved /\ InjectorWrite(ps)
          BY <1>7, <3>1, Zenon DEF Chunk, Undecided
        <4> QED BY <4>1 DEF InjectorWrite
      <3>2. CASE ~ Injecting
        BY <3>2 DEF Chunk
      <3> QED BY <1>3, <3>1, <3>2
    <2>2. Stream(wire, hdrs, fed) /\ Committed(wire)
      <3>1. Len(buf) = 0
        BY <1>7, EmptySeq DEF WritersInv, StreamInv
      <3>2. fed - Len(buf) = fed
        BY <1>4, <3>1
      <3>3. phase # "early"
        BY <1>1
      <3> QED BY <1>7, <3>2, <3>3 DEF WritersInv, StreamInv
    <2> HIDE DEF ps
    <2>3. /\ Stream(wire', hdrs, fed + n) /\ SameTag(wire, wire') /\ Committed(wire')
      BY <1>4, <1>5, <2>1, <2>2, BodySends
    <2>4. Stream(wire', hdrs, fed')
      BY <1>1, <2>3
    <2>5. phase' # "over" /\ phase' \in {"body", "over"}
      BY <1>6
    <2> QED BY <1>1, <1>6, <1>7, <2>1, <2>3, <2>4, <2>5, GoesOn
  <1>8. CASE Undecided
    <2>1. ~ resolved /\ InjectorWrite(ps)
      BY <1>8, Zenon DEF Chunk, Undecided
    <2>2. Held0 /\ resp.html /\ buf = SubSeq(Doc, 1, fed) /\ Len(buf) < Budget
      <3>1. phase # "early"
        BY <1>1
      <3> QED BY <1>8, <3>1 DEF WritersInv, HeldInv
    <2>3. b = SubSeq(Doc, 1, fed + n)
      BY <1>5, <2>2
    <2>4. /\ b \in Seq(Pieces) /\ Len(b) = fed + n /\ \A i \in 1 .. Len(b) : b[i] = Doc[i]
          /\ LooksLikeDocument(Doc) => LooksLikeDocument(b)
      <3> DEFINE doc == Doc
                 m == fed + n
      <3>1. doc \in Seq(Pieces) /\ m \in 0 .. Len(doc) /\ b = SubSeq(doc, 1, m)
        BY <1>3, <1>4, <2>3
      <3> HIDE DEF doc, m, b
      <3>2. /\ b \in Seq(Pieces) /\ Len(b) = m /\ \A i \in 1 .. m : b[i] = doc[i]
            /\ LooksLikeDocument(doc) => LooksLikeDocument(b)
        BY <3>1, StartTells
      <3> QED BY <3>2 DEF doc, m
    <2>5. \/ ~ LooksLikeDocument(b) /\ GiveUp(b)
          \/ (HeadEnd(b) >= 0 \/ Len(b) >= Budget) /\ Decide(b)
          \/ ~ (Len(b) >= Budget) /\ buf' = b /\ UNCHANGED <<hdrs, resolved, wire>>
      BY <2>1, Zenon DEF InjectorWrite
    <2>6. phase' # "over" /\ phase' \in {"body", "over"}
      BY <1>6
    <2> HIDE DEF b, ps
    <2>7. CASE ~ LooksLikeDocument(b) /\ GiveUp(b)
      <3>1. /\ hdrs' = hdrs /\ buf' = <<>> /\ resolved' = TRUE
            /\ Stream(wire', hdrs, fed + n) /\ Untagged(wire') /\ Committed(wire')
        BY <2>2, <2>4, <2>7, GivesUp
      <3>2. Excused
        BY <2>4, <2>7 DEF Excused
      <3>3. Stream(wire', hdrs', fed') /\ hdrs' \in Headers
        BY <1>1, <1>2, <3>1
      <3> QED BY <1>1, <1>6, <1>8, <2>6, <3>1, <3>2, <3>3, IsDecided
    <2>8. CASE (HeadEnd(b) >= 0 \/ Len(b) >= Budget) /\ Decide(b)
      <3>1. /\ hdrs' \in Headers /\ buf' = <<>> /\ resolved' = TRUE
            /\ Stream(wire', hdrs', fed + n) /\ Committed(wire')
            /\ \/ /\ hdrs' = hdrs /\ Untagged(wire')
                  /\ HeadEnd(b) >= 0 \/ fed + n >= Budget \/ fed + n = Len(Doc) => Excused
               \/ InPlace(wire', hdrs')
        BY <1>2, <1>3, <1>4, <2>2, <2>3, <2>8, Decides
      <3>2. HeadEnd(b) >= 0 \/ fed + n >= Budget
        BY <2>4, <2>8
      <3>3. Stream(wire', hdrs', fed')
        BY <1>1, <3>1
      <3>4. \/ hdrs' = hdrs /\ Untagged(wire') /\ Excused
            \/ InPlace(wire', hdrs')
        BY <3>1, <3>2
      <3>5. hdrs' \in Headers /\ buf' = <<>> /\ resolved' = TRUE /\ Committed(wire')
        BY <3>1
      <3> QED BY <1>1, <1>6, <1>8, <2>6, <3>3, <3>4, <3>5, IsDecided
    <2>9. CASE ~ (Len(b) >= Budget) /\ buf' = b /\ UNCHANGED <<hdrs, resolved, wire>>
      <3>1. UNCHANGED <<resp, hdrs, resolved, wire, held>> /\ buf' = b
        BY <1>1, <2>9
      <3>2. Injecting' /\ ~ resolved' /\ Undecided'
        <4>1. Injecting' /\ resolved' = resolved
          BY <1>8, <3>1, SameResponse DEF Undecided
        <4> QED BY <2>1, <4>1, Zenon DEF Undecided
      <3>3. Stream(wire, hdrs, 0) /\ ~ Committed(wire) /\ Untagged(wire)
        BY <2>2 DEF Held0
      <3>4. phase' # "early"
        BY <1>6
      <3>5. Len(buf') < Budget /\ fed' - Len(buf') = 0
        <4>1. Len(buf') = fed + n /\ fed' = fed + n
          BY <1>1, <2>4, <3>1
        <4>2. ~ (fed + n >= Budget)
          BY <2>4, <2>9
        <4> QED BY <1>3, <1>4, <4>1, <4>2
      <3>6. Kinded'
        <4>1. held' \subseteq {"pass"} /\ resolved' \in BOOLEAN /\ hdrs' \in Headers
              /\ resp' \in Injected \cup Paid
          BY <1>2, <3>1, Zenon DEF WritersInv, Kinded
        <4>2. fed' \in 0 .. Len(Doc)' /\ phase' \in {"early", "body", "over"}
          BY <1>6, <3>1, SameResponse
        <4> QED BY <4>1, <4>2, Zenon DEF Kinded
      <3>7. StreamInv'
        <4>1. Stream(wire', hdrs', fed' - Len(buf'))
          BY <3>1, <3>3, <3>5
        <4>2. Stream(wire, hdrs, fed - Len(buf))'
          BY <3>1, <4>1, SameResponse
        <4>3. phase' # "over"
          BY <1>6
        <4> QED BY <3>2, <3>4, <4>2, <4>3, Zenon DEF StreamInv
      <3>8. HeldInv'
        <4>1. Held0'
          <5>1. Stream(wire, hdrs, 0)'
            BY <3>1, <3>3, SameResponse
          <5>2. (~ Committed(wire) /\ Untagged(wire))'
            BY <3>1, <3>3
          <5>3. (hdrs.enforce = resp.page.csp.enforce /\ hdrs.report = resp.page.csp.report)'
            BY <2>2, <3>1 DEF Held0
          <5> QED BY <5>1, <5>2, <5>3 DEF Held0
        <4>2. resp'.html /\ buf' = SubSeq(Doc', 1, fed')
          BY <1>1, <2>2, <2>3, <3>1, SameResponse
        <4> QED BY <3>5, <4>1, <4>2, Zenon DEF HeldInv
      <3>9. TagInv' /\ BareInv' /\ PolicyInv'
        <4>1. Untagged(wire)' /\ hdrs' = hdrs /\ resp' = resp
          BY <3>1, <3>3
        <4>2. hdrs'.enforce = resp'.page.csp.enforce
          BY <2>2, <3>1 DEF Held0
        <4> QED BY <3>2, <4>1, <4>2 DEF TagInv, BareInv, PolicyInv
      <3> QED BY <3>6, <3>7, <3>8, <3>9 DEF WritersInv
    <2> QED BY <2>5, <2>7, <2>8, <2>9, Zenon
  <1> QED BY <1>7, <1>8, Zenon

LEMMA FinishInv ==
  ASSUME WritersInv, Finish
  PROVE  WritersInv'
  <1>1. /\ phase = "body" /\ phase' = "over" /\ UNCHANGED <<resp, fed, held>> /\ fed = Len(Doc)
    BY DEF Finish
  <1>2. /\ resp \in Injected \cup Paid /\ fed \in 0 .. Len(Doc) /\ hdrs \in Headers
    BY Zenon DEF WritersInv, Kinded
  <1>3. Doc \in Seq(Pieces) /\ Len(Doc) \in Nat
    BY <1>2, Documents
  <1>4. fed' \in 0 .. Len(Doc) /\ fed' = Len(Doc) /\ phase' \in {"body", "over"}
    BY <1>1, <1>2
  <1>5. CASE Undecided
    <2>1. Decide(buf)
      BY <1>5, Zenon DEF Finish, Undecided
    <2>2. Held0 /\ buf = SubSeq(Doc, 1, fed)
      <3>1. phase # "early"
        BY <1>1
      <3> QED BY <1>5, <3>1 DEF WritersInv, HeldInv
    <2>3. /\ hdrs' \in Headers /\ buf' = <<>> /\ resolved' = TRUE
          /\ Stream(wire', hdrs', fed) /\ Committed(wire')
          /\ \/ /\ hdrs' = hdrs /\ Untagged(wire')
                /\ HeadEnd(buf) >= 0 \/ fed >= Budget \/ fed = Len(Doc) => Excused
             \/ InPlace(wire', hdrs')
      BY <1>2, <1>3, <2>1, <2>2, Decides
    <2>4. Stream(wire', hdrs', fed')
      BY <1>1, <2>3
    <2>5. \/ hdrs' = hdrs /\ Untagged(wire') /\ Excused
          \/ InPlace(wire', hdrs')
      BY <1>1, <2>3
    <2>6. hdrs' \in Headers /\ buf' = <<>> /\ resolved' = TRUE /\ Committed(wire')
      BY <2>3
    <2> QED BY <1>1, <1>4, <1>5, <2>4, <2>5, <2>6, IsDecided
  <1>6. CASE ~ Undecided
    <2>1. wire' = Header(wire, hdrs) /\ UNCHANGED <<hdrs, buf, resolved>>
      BY <1>6, Zenon DEF Finish, Undecided
    <2>2. Stream(wire, hdrs, fed)
      <3>1. Len(buf) = 0
        BY <1>6, EmptySeq DEF WritersInv, StreamInv
      <3>2. fed - Len(buf) = fed
        BY <1>1, <1>3, <3>1
      <3> QED BY <3>2 DEF WritersInv, StreamInv
    <2>3. fed \in Nat
      BY <1>1, <1>3
    <2>4. Stream(wire', hdrs, fed) /\ SameTag(wire, wire') /\ Committed(wire')
      BY <2>1, <2>2, <2>3, HeaderSends
    <2>5. Stream(wire', hdrs, fed')
      BY <1>1, <2>4
    <2> QED BY <1>1, <1>4, <1>6, <2>1, <2>4, <2>5, GoesOn
  <1> QED BY <1>5, <1>6, Zenon

LEMMA WritersStep == WritersInv /\ [Next]_vars => WritersInv'
  <1> SUFFICES ASSUME WritersInv, [Next]_vars PROVE WritersInv'
    OBVIOUS
  <1>1. ASSUME NEW more \in {{}, {"cookie"}}, Inform(more) PROVE WritersInv'
    BY <1>1, InformInv
  <1>2. CASE Announce
    BY <1>2, AnnounceInv
  <1>3. CASE Flush
    BY <1>3, FlushInv
  <1>4. CASE Finish
    BY <1>4, FinishInv
  <1>5. ASSUME NEW n \in 1 .. Len(Doc), Chunk(n) PROVE WritersInv'
    BY <1>5, ChunkInv
  <1>6. CASE Abort \/ UNCHANGED vars
    <2>1. /\ UNCHANGED <<resp, early, fed, hdrs, buf, resolved, held, sealed, wire>>
          /\ phase' = phase \/ (phase = "body" /\ phase' = "cut")
      BY <1>6 DEF Abort, vars
    <2>2. Kinded' /\ PolicyInv'
      BY <2>1 DEF WritersInv, Kinded, PolicyInv, Doc, PagePlan
    <2>3. /\ Doc' = Doc /\ (Undecided' <=> Undecided) /\ (Held0' <=> Held0)
          /\ (Excused' <=> Excused) /\ (Untagged(wire)' <=> Untagged(wire))
          /\ (Committed(wire)' <=> Committed(wire))
          /\ (Stream(wire, hdrs, fed - Len(buf))' <=> Stream(wire, hdrs, fed - Len(buf)))
          /\ (InPlace(wire, hdrs)' <=> InPlace(wire, hdrs))
          /\ (Injecting' <=> Injecting)
      BY <2>1, SameResponse DEF Undecided, Held0, Untagged, Committed, Injecting
    <2>4. StreamInv'
      BY <2>1, <2>3, Zenon DEF WritersInv, StreamInv
    <2>5. HeldInv' /\ TagInv' /\ BareInv'
      BY <2>1, <2>3, Zenon DEF WritersInv, HeldInv, TagInv, BareInv
    <2> QED BY <2>2, <2>4, <2>5 DEF WritersInv
  <1> QED BY <1>1, <1>2, <1>3, <1>4, <1>5, <1>6 DEF Next

\* What is on the wire, what is held back, what was decided and why nothing was put in
\* agree through every step: the inductive invariant of the promises below.
THEOREM WritersHold == Spec => []WritersInv
  <1> QED BY WritersInit, WritersStep, PTL DEF Spec

-----------------------------------------------------------------------------
(* What it says of the pages.                                               *)

\* The header the client got is the one in the writers' map.
LEMMA FinalIs ==
  ASSUME WritersInv, Committed(wire)
  PROVE  Final = hdrs
  <1> DEFINE T == {i \in 1 .. Len(wire) : wire[i].kind = "final"}
  <1>1. IsWire(wire) /\ Says(wire, hdrs)
    BY DEF WritersInv, StreamInv, Stream
  <1>2. DOMAIN wire = 1 .. Len(wire) /\ Len(wire) \in Nat
    BY <1>1, WireIs
  <1>3. T \in SUBSET Nat /\ T # {}
    BY <1>2 DEF Committed
  <1>4. SelectInSeq(wire, LAMBDA e : e.kind = "final") = Min(T)
    BY <1>3 DEF SelectInSeq
  <1>5. Min(T) \in T
    BY <1>3, LeastOf
  <1> QED BY <1>1, <1>2, <1>4, <1>5 DEF Final, Says

\* A page with the script in it, and its policies.
LEMMA TaggedIs ==
  ASSUME WritersInv, Tagged
  PROVE  /\ InPlace(wire, hdrs) /\ resp.html /\ Committed(wire)
         /\ Final = hdrs /\ Served = PagePlan.enforce \o resp.page.csp.meta
  <1>1. ~ Untagged(wire)
    BY DEF Tagged, Untagged
  <1>2. InPlace(wire, hdrs) /\ resp.html /\ resolved /\ phase # "early"
    BY <1>1, Zenon DEF WritersInv, TagInv
  <1>3. Committed(wire)
    <2>1. ~ Undecided
      BY <1>2, Zenon DEF Undecided
    <2> QED BY <1>2, <2>1, Zenon DEF WritersInv, StreamInv
  <1>4. Final = hdrs
    BY <1>3, FinalIs
  <1> QED BY <1>2, <1>3, <1>4 DEF InPlace, Served

\* BodyIntact: the body arrives as it was written, whatever the chunks and
\* whatever is decided about it.
THEOREM BodyArrivesIntact == Spec => []BodyIntact
  <1>1. WritersInv => BodyIntact
    <2> SUFFICES ASSUME WritersInv PROVE BodyIntact
      OBVIOUS
    <2>1. fed \in 0 .. Len(Doc) /\ Doc \in Seq(Pieces) /\ Len(Doc) \in Nat /\ Budget \in Nat \ {0}
      BY Documents, Zenon DEF WritersInv, Kinded
    <2>2. Carries(wire, fed - Len(buf))
      BY DEF WritersInv, StreamInv, Stream
    <2>3. CASE buf = <<>>
      <3>1. Len(buf) = 0 /\ fed - Len(buf) = fed
        BY <2>1, <2>3
      <3>2. SubSeq(Doc, fed + 1, fed) = <<>>
        BY <2>1, SubSeqEmpty
      <3>3. buf = SubSeq(Doc, fed - Len(buf) + 1, fed)
        BY <2>3, <3>1, <3>2
      <3>4. Len(buf) < Budget
        BY <2>1, <3>1
      <3>5. phase = "over" => fed = Len(Doc)
        BY DEF WritersInv, StreamInv
      <3> QED BY <2>2, <2>3, <3>3, <3>4, <3>5 DEF BodyIntact
    <2>4. CASE buf # <<>>
      <3>1. Undecided /\ phase # "early"
        BY <2>4, Zenon DEF WritersInv, StreamInv
      <3>2. buf = SubSeq(Doc, 1, fed) /\ Len(buf) < Budget
        BY <3>1 DEF WritersInv, HeldInv
      <3>3. Len(buf) = fed
        BY <2>1, <3>2, StartTells
      <3>4. fed - Len(buf) + 1 = 1
        BY <2>1, <3>3
      <3>5. phase # "over"
        BY <3>1, Zenon DEF WritersInv, StreamInv
      <3>6. buf = SubSeq(Doc, fed - Len(buf) + 1, fed)
        BY <3>2, <3>4
      <3> QED BY <2>2, <3>2, <3>5, <3>6 DEF BodyIntact
    <2> QED BY <2>3, <2>4
  <1> QED BY <1>1, WritersHold, PTL

\* TagIsEarned: a page is only touched where and when the whole picture allows it.
THEOREM TagsAreEarned == Spec => []TagIsEarned
  <1>1. WritersInv => TagIsEarned
    <2> SUFFICES ASSUME WritersInv, Tagged PROVE TagIsEarned
      BY DEF TagIsEarned
    <2>1. /\ InPlace(wire, hdrs) /\ resp.html /\ Final = hdrs
          /\ Served = PagePlan.enforce \o resp.page.csp.meta
      BY TaggedIs
    <2>2. /\ resp.page.csp.enforce \in Seq(Policy) /\ resp.page.csp.meta \in Seq(Policy)
          /\ resp.page \in Pages
      BY Documents, Zenon DEF WritersInv, Kinded
    <2>3. \A p \in Set(resp.page.csp.enforce) \cup Set(resp.page.csp.meta) :
            "our-nonce" \notin InForce(p)
      BY <2>2, WritersAssumption
    <2>4. CASE PagePlan.mode = "nonced"
      BY <2>1, <2>4 DEF TagIsEarned, InPlace, TaggedAt
    <2>5. CASE PagePlan.mode # "nonced"
      <3>1. \/ PagePlan.enforce = resp.page.csp.enforce
            \/ PagePlan.enforce = Rewrite(resp.page.csp.enforce, "our-hash")
        BY <2>5, Plans DEF PagePlan
      <3>2. "our-hash" \in Source
        BY DEF Source
      <3>3. \A p \in Set(PagePlan.enforce) : "our-nonce" \notin InForce(p)
        <4>1. CASE PagePlan.enforce = resp.page.csp.enforce
          BY <2>3, <4>1
        <4>2. CASE PagePlan.enforce = Rewrite(resp.page.csp.enforce, "our-hash")
          <5>1. ASSUME NEW q \in Set(PagePlan.enforce) PROVE "our-nonce" \notin InForce(q)
            <6>1. PICK p \in Set(resp.page.csp.enforce) :
                    IF InForce(p) = Unset THEN q = p ELSE InForce(q) = InForce(p) \cup {"our-hash"}
              BY <2>2, <3>2, <4>2, RewrittenSet
            <6> QED BY <2>3, <6>1
          <5> QED BY <5>1
        <4> QED BY <3>1, <4>1, <4>2
      <3>4. PagePlan.enforce \in Seq(Policy)
        BY <2>2, <3>1, <3>2, RewritesPolicies
      <3>5. \A p \in Set(Served) : "our-nonce" \notin InForce(p)
        BY <2>1, <2>2, <2>3, <3>3, <3>4, ConcatSet
      <3> QED BY <2>1, <3>5 DEF TagIsEarned, InPlace, TaggedAt
    <2> QED BY <2>4, <2>5
  <1> QED BY <1>1, WritersHold, PTL

\* ElementRuns: where the script is put, every policy the browser holds the page
\* to lets the element in.
THEOREM ElementIsAdmitted == Spec => []ElementRuns
  <1>1. WritersInv => ElementRuns
    <2> SUFFICES ASSUME WritersInv, Tagged,
                        \A p \in Set(Written) : ~ {"self", "dynamic"} \subseteq InForce(p)
                 PROVE  Runs(Element(Plan(resp.page.csp.enforce, <<>>, resp.page.csp.meta).mode), Served)
      BY DEF ElementRuns
    <2>1. PagePlan.mode # "skip" /\ Served = PagePlan.enforce \o resp.page.csp.meta
      BY TaggedIs DEF InPlace
    <2>2. /\ resp.page.csp.enforce \in Seq(Policy) /\ resp.page.csp.meta \in Seq(Policy)
      BY Documents, Zenon DEF WritersInv, Kinded
    <2>3. Plan(resp.page.csp.enforce, <<>>, resp.page.csp.meta).mode = PagePlan.mode
      BY ReportsDecideNothing DEF PagePlan
    <2>4. Runs(Element(PagePlan.mode), PagePlan.enforce \o resp.page.csp.meta)
      BY <2>1, <2>2, ElementIsLetIn DEF PagePlan, Written
    <2> QED BY <2>1, <2>3, <2>4
  <1> QED BY <1>1, WritersHold, PTL

\* NothingLoosened: no script of the page's own runs on the wire's policies that
\* the operator's kept out.
THEOREM PoliciesStand == Spec => []NothingLoosened
  <1>1. WritersInv => NothingLoosened
    <2> SUFFICES ASSUME WritersInv, Committed(wire) PROVE NothingLoosened
      BY DEF NothingLoosened
    <2>1. phase # "early"
      BY Zenon DEF WritersInv, StreamInv
    <2>2. Final = hdrs
      BY FinalIs
    <2>3. hdrs.enforce \in {resp.page.csp.enforce, PagePlan.enforce}
      BY <2>1 DEF WritersInv, PolicyInv
    <2>4. /\ resp.page.csp.enforce \in Seq(Policy) /\ resp.page.csp.meta \in Seq(Policy)
      BY Documents, Zenon DEF WritersInv, Kinded
    <2>5. /\ \A s \in Operators :
               Runs(s, hdrs.enforce \o resp.page.csp.meta)
                 => Runs(s, resp.page.csp.enforce \o resp.page.csp.meta)
          /\ \A p \in Set(resp.page.csp.enforce) : InForce(p) = Unset => p \in Set(hdrs.enforce)
      BY <2>3, <2>4, PlanLoosensNothing DEF PagePlan
    <2> QED BY <2>2, <2>5 DEF NothingLoosened, Served, Written
  <1> QED BY <1>1, WritersHold, PTL

\* Where every policy that restricts scripts allows the site's own, there is a way in.
LEMMA SiteAllowed ==
  ASSUME NEW e \in Seq(Policy), NEW r, NEW m \in Seq(Policy),
         \A p \in Set(e \o m) : /\ ~ SandboxBlocks(p)
                                /\ InForce(p) # Unset => "self" \in InForce(p) /\ "none" \notin InForce(p)
  PROVE  Plan(e, r, m).mode = "external"
  <1>1. /\ Set(e \o m) = Set(e) \cup Set(m) /\ Set(e) \subseteq Policy /\ Set(m) \subseteq Policy
    BY ConcatSet
  <1>2. ASSUME NEW p \in Set(e) \cup Set(m)
        PROVE  ~ SandboxBlocks(p) /\ (Restricting(p) => "self" \in Sources(p) /\ "none" \notin Sources(p))
    BY <1>1, Governs DEF Restricting
  <1> QED BY <1>2 DEF Plan

\* NotSilentlyBare: a page the gate could put its script into has it in the end.
THEOREM NoPageLeftBare == Spec => []NotSilentlyBare
  <1>1. WritersInv => NotSilentlyBare
    <2> SUFFICES ASSUME WritersInv, phase = "over", Injecting, resp.html,
                        \A p \in Set(Written) : ~ SandboxBlocks(p) /\
                          (InForce(p) # Unset => "self" \in InForce(p) /\ "none" \notin InForce(p)),
                        LooksLikeDocument(Doc), HeadEnd(Doc) \in 0 .. (Budget - 1),
                        InsertionPoint(Doc) \in 1 .. HeadEnd(Doc), ~ Tagged
                 PROVE  FALSE
      BY DEF NotSilentlyBare
    <2>1. phase # "early" /\ Untagged(wire)
      BY DEF Tagged, Untagged
    <2>2. resolved
      BY Zenon DEF WritersInv, StreamInv, Undecided
    <2>3. Excused
      BY <2>1, <2>2, Zenon DEF WritersInv, BareInv
    <2>4. /\ resp.page.csp.enforce \in Seq(Policy) /\ resp.page.csp.meta \in Seq(Policy)
      BY Documents, Zenon DEF WritersInv, Kinded
    <2>5. PagePlan.mode = "external"
      BY <2>4, SiteAllowed DEF Written, PagePlan
    <2> QED BY <2>3, <2>5 DEF Excused
  <1> QED BY <1>1, WritersHold, PTL

-----------------------------------------------------------------------------
(* Paid content.                                                            *)

\* Until the final header the pass is in the map or kept out of it; then it is in
\* the sealed lines, if it was bought.
PaidInv ==
  ~ Injecting =>
    /\ Bare(wire)
    /\ phase = "early" => /\ hdrs.lines \subseteq {"pass"}
                          /\ "pass" \in hdrs.lines \cup held <=> resp.granted
    /\ phase # "early" => /\ "seal" \in hdrs.lines
                          /\ hdrs.lines \cap {"public", "their-receipt", "offer"} = {}
                          /\ "pass" \in hdrs.lines <=> resp.granted
                          /\ "receipt" \in hdrs.lines <=> resp.granted

LEMMA PaidInit == Init => PaidInv
  <1> SUFFICES ASSUME Init PROVE PaidInv
    OBVIOUS
  <1>1. wire = <<>> /\ phase = "early" /\ held = {} /\ resp \in Injected \cup Paid
    BY DEF Init
  <1>2. hdrs.lines = IF resp.granted THEN {"pass"} ELSE {}
    BY DEF Init
  <1>3. Bare(wire)
    <2>1. DOMAIN wire = {}
      BY <1>1, EmptySeq, WireIs DEF IsWire
    <2> QED BY <2>1 DEF Bare
  <1> QED BY <1>1, <1>2, <1>3 DEF PaidInv

LEMMA PaidStep == WritersInv /\ PaidInv /\ [Next]_vars => PaidInv'
  <1> SUFFICES ASSUME WritersInv, PaidInv, [Next]_vars, ~ Injecting' PROVE PaidInv'
    BY DEF PaidInv
  <1> DEFINE AsItWas == UNCHANGED <<resp, phase, hdrs, held>>
  <1>1. resp' = resp /\ ~ Injecting
    <2>1. resp' = resp
      BY DEF Next, Inform, Announce, Chunk, Flush, Finish, Abort, vars
    <2> QED BY <2>1 DEF Injecting
  <1>2. /\ resp \in Paid /\ held \subseteq {"pass"} /\ fed \in 0 .. Len(Doc) /\ Len(Doc) \in Nat
        /\ Doc \in Seq(Pieces)
    BY <1>1, Documents, Zenon DEF WritersInv, Kinded
  <1>3. Stream(wire, hdrs, fed) /\ fed \in Nat
    <2>1. buf = <<>>
      BY <1>1, Zenon DEF WritersInv, StreamInv, Undecided
    <2>2. Len(buf) = 0 /\ fed - Len(buf) = fed
      BY <1>2, <2>1
    <2> QED BY <1>2, <2>2 DEF WritersInv, StreamInv
  \* After the final header nothing but the wire changes.
  <1>4. ASSUME phase = "body", phase' # "early", hdrs' = hdrs, Bare(wire')
        PROVE  PaidInv'
    <2>1. Bare(wire)'
      BY <1>4 DEF Bare
    <2> QED BY <1>1, <1>4, <2>1 DEF PaidInv
  <1>5. ASSUME NEW more \in {{}, {"cookie"}}, Inform(more) PROVE PaidInv'
    <2> DEFINE all == hdrs.lines \cup more
               i == [hdrs EXCEPT !.lines = all \ Held(all)]
    <2>1. /\ phase = "early" /\ phase' = "early" /\ hdrs' = [hdrs EXCEPT !.lines = {}]
          /\ wire' = Append(wire, [kind |-> "info", h |-> i]) /\ held' = held \cup Held(all)
      BY <1>1, <1>5 DEF Inform
    <2>2. hdrs \in Headers
      BY DEF WritersInv, Kinded
    <2>3. hdrs'.lines = {} /\ i.lines = all \ {"pass"}
      BY <2>1, <2>2 DEF Headers, Held
    <2>4. hdrs.lines \subseteq {"pass"} /\ ("pass" \in hdrs.lines \cup held <=> resp.granted) /\ Bare(wire)
      BY <1>1, <2>1 DEF PaidInv
    <2>5. "pass" \in held' <=> resp.granted
      BY <2>1, <2>4 DEF Held
    <2>6. Bare(wire')
      <3>1. "pass" \notin i.lines /\ ~ Committed(wire)
        BY <2>1, <2>3, Zenon DEF WritersInv, StreamInv
      <3> HIDE DEF i
      <3> QED BY <1>3, <2>1, <2>4, <3>1, InfoSends
    <2>7. Bare(wire)'
      BY <2>6 DEF Bare
    <2> QED BY <1>1, <2>1, <2>3, <2>5, <2>7 DEF PaidInv
  <1>6. CASE Announce
    <2> DEFINE h == [lines |-> hdrs.lines \cup resp.sends,
                     enforce |-> resp.page.csp.enforce, report |-> resp.page.csp.report]
               paid == [h EXCEPT !.lines = Seal(@)]
    <2>1. phase = "early" /\ phase' = "body" /\ hdrs' = paid /\ wire' = Header(wire, paid)
      BY <1>1, <1>6 DEF Announce
    <2>2. paid.lines = Seal(hdrs.lines \cup resp.sends)
      OBVIOUS
    <2>3. /\ hdrs.lines \subseteq {"pass"} /\ ("pass" \in hdrs.lines \cup held <=> resp.granted)
          /\ Bare(wire) /\ resp.sends \subseteq Upstreams /\ resp.granted \in BOOLEAN
      BY <1>1, <1>2, <2>1, Documents DEF PaidInv, Paid
    <2> HIDE DEF paid
    <2>4. /\ "seal" \in hdrs'.lines
          /\ hdrs'.lines \cap {"public", "their-receipt", "offer"} = {}
          /\ "pass" \in hdrs'.lines <=> resp.granted
          /\ "receipt" \in hdrs'.lines <=> resp.granted
      BY <1>2, <2>1, <2>2, <2>3 DEF Seal, Upstreams
    <2>5. Bare(wire')
      <3>1. Stream(wire, paid, fed)
        BY <1>3, <2>1, UncommittedSaysAnything, Zenon DEF WritersInv, StreamInv
      <3> QED BY <1>3, <2>1, <2>3, <3>1, HeaderSends DEF SameTag
    <2>6. Bare(wire)'
      BY <2>5 DEF Bare
    <2> QED BY <1>1, <2>1, <2>4, <2>6 DEF PaidInv
  <1>7. CASE Flush
    <2>1. /\ phase = "body" /\ phase' = "body" /\ hdrs' = hdrs /\ wire' = Flushed(wire, hdrs)
      BY <1>7 DEF Flush
    <2>2. Bare(wire) /\ SameTag(wire, wire')
      BY <1>1, <1>3, <2>1, FlushSends DEF PaidInv
    <2> QED BY <1>4, <2>1, <2>2 DEF SameTag
  <1>8. CASE Finish
    <2>1. /\ phase = "body" /\ phase' = "over" /\ hdrs' = hdrs /\ wire' = Header(wire, hdrs)
      BY <1>1, <1>8 DEF Finish
    <2>2. Bare(wire) /\ SameTag(wire, wire')
      BY <1>1, <1>3, <2>1, HeaderSends DEF PaidInv
    <2> QED BY <1>4, <2>1, <2>2 DEF SameTag
  <1>9. ASSUME NEW n \in 1 .. Len(Doc), Chunk(n) PROVE PaidInv'
    <2> DEFINE ps == SubSeq(Doc, fed + 1, fed + n)
    <2>1. /\ phase = "body" /\ phase' = "body" /\ hdrs' = hdrs /\ wire' = Body(wire, hdrs, ps)
          /\ n <= Len(Doc) - fed
      BY <1>1, <1>9 DEF Chunk
    <2>2. n \in Nat /\ n >= 1 /\ fed + n <= Len(Doc)
      BY <1>2, <1>3, <2>1
    <2>3. ps \in Seq(Pieces) /\ Len(ps) = n /\ \A j \in 1 .. n : ps[j] = Doc[fed + j]
      BY <1>2, <1>3, <2>2, NextPieces
    <2> HIDE DEF ps
    <2>4. Bare(wire) /\ SameTag(wire, wire')
      BY <1>1, <1>3, <2>1, <2>3, BodySends DEF PaidInv
    <2> QED BY <1>4, <2>1, <2>4 DEF SameTag
  <1>10. CASE Abort \/ UNCHANGED vars
    <2>1. /\ UNCHANGED <<resp, hdrs, held, wire>>
          /\ phase' = phase \/ (phase = "body" /\ phase' = "cut")
      BY <1>10 DEF Abort, vars
    <2> QED BY <2>1 DEF PaidInv, Bare, Injecting
  <1> QED BY <1>5, <1>6, <1>7, <1>8, <1>9, <1>10 DEF Next

\* PaidSealed: paid content goes out sealed, and what was bought with it.
THEOREM PaidIsSealed == Spec => []PaidSealed
  <1>1. WritersInv /\ PaidInv => PaidSealed
    <2> SUFFICES ASSUME WritersInv, PaidInv, ~ Injecting, NEW i \in DOMAIN wire
                 PROVE  /\ wire[i].kind = "info" => "pass" \notin wire[i].h.lines
                        /\ wire[i].kind = "final" =>
                             /\ "seal" \in wire[i].h.lines
                             /\ wire[i].h.lines \cap {"public", "their-receipt", "offer"} = {}
                             /\ resp.granted <=> "pass" \in wire[i].h.lines
                             /\ resp.granted <=> "receipt" \in wire[i].h.lines
      BY DEF PaidSealed
    <2>1. wire[i].kind = "final" => phase # "early" /\ wire[i].h = hdrs
      <3>1. wire[i].kind = "final" => Committed(wire)
        BY DEF Committed
      <3>2. Says(wire, hdrs)
        BY DEF WritersInv, StreamInv, Stream
      <3>3. Committed(wire) => phase # "early"
        BY Zenon DEF WritersInv, StreamInv
      <3> QED BY <3>1, <3>2, <3>3 DEF Says
    <2> QED BY <2>1 DEF PaidInv, Bare
  <1>2. Spec => []PaidInv
    BY PaidInit, PaidStep, WritersHold, PTL DEF Spec
  <1> QED BY <1>1, <1>2, WritersHold, PTL
=============================================================================
