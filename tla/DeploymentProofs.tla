--------------------------- MODULE DeploymentProofs ---------------------------
(*****************************************************************************)
(* Proofs about Deployment, for every set of files, environment and payload:  *)
(* what the facilitator is asked for is what the running file says, it is     *)
(* asked with the credentials written beside its address, what names a        *)
(* payment is what the chain can spend once, a process gets nearer to its end *)
(* with every step it takes, and what it runs with can be depended on.        *)
(*****************************************************************************)
EXTENDS Deployment, SequenceTheorems, WellFoundedInduction, TLAPS

-----------------------------------------------------------------------------
(* Numbers.                                                                 *)

\* A set of numbers that is not empty has a least one.
LEMMA LeastOf ==
  ASSUME NEW T \in SUBSET Nat, T # {}
  PROVE  Min(T) \in T /\ \A y \in T : Min(T) <= y
  <1> DEFINE R == OpToRel(<, Nat)
  <1>1. PICK x \in T : \A y \in T : ~ (<<y, x>> \in R)
    BY NatLessThanWellFounded, WFMin
  <1>2. \A y \in T : <<y, x>> \in R <=> y < x
    BY DEF OpToRel
  <1>3. \A y \in T : ~ (y < x)
    BY <1>1, <1>2, Zenon
  <1> HIDE DEF R
  <1>4. x \in T /\ \A y \in T : x <= y
    BY <1>3
  <1> QED BY <1>4 DEF Min

\* Induction, about a set of numbers.
LEMMA ByCounting ==
  ASSUME NEW T \in SUBSET Nat, 0 \in T, \A n \in T : n + 1 \in T
  PROVE  \A n \in Nat : n \in T
  <1> DEFINE U == Nat \ T
  <1> SUFFICES ASSUME U # {} PROVE FALSE
    OBVIOUS
  <1>1. Min(U) \in U /\ \A y \in U : Min(U) <= y
    BY LeastOf
  <1> DEFINE m == Min(U)
  <1>2. m \in Nat /\ m # 0 /\ m \notin T
    BY <1>1
  <1> HIDE DEF m
  <1>3. m - 1 \in Nat /\ ~ (m <= m - 1) /\ (m - 1) + 1 = m
    BY <1>2
  <1>4. m - 1 \in T
    BY <1>1, <1>3 DEF m
  <1> QED BY <1>2, <1>3, <1>4

\* A number read digit by digit, from any number on.
Reads(h, a, d, n) ==
  h[0] = a /\ \A i \in 1 .. n : h[i] = 10 * h[i - 1] + d[i]

LEMMA ReadingGoesOn ==
  ASSUME NEW a \in Nat, NEW d \in [Nat -> Nat]
  PROVE  \A n \in Nat : \E h \in [Nat -> Nat] : Reads(h, a, d, n)
  <1> DEFINE T == {n \in Nat : \E h \in [Nat -> Nat] : Reads(h, a, d, n)}
  <1>1. 0 \in T
    <2> DEFINE h == [i \in Nat |-> a]
    <2>1. h \in [Nat -> Nat] /\ Reads(h, a, d, 0)
      BY DEF Reads
    <2> QED BY <2>1
  <1>2. ASSUME NEW n \in T PROVE n + 1 \in T
    <2>1. PICK h \in [Nat -> Nat] : Reads(h, a, d, n)
      OBVIOUS
    <2> DEFINE g == [i \in Nat |-> IF i = n + 1 THEN 10 * h[n] + d[n + 1] ELSE h[i]]
    <2>2. n \in Nat /\ 10 * h[n] + d[n + 1] \in Nat
      OBVIOUS
    <2>3. g \in [Nat -> Nat]
      BY <2>2
    <2>4. g[0] = a
      BY <2>1, <2>2 DEF Reads
    <2>5. ASSUME NEW i \in 1 .. n + 1 PROVE g[i] = 10 * g[i - 1] + d[i]
      <3>1. CASE i = n + 1
        <4>1. i - 1 = n /\ n # n + 1
          BY <2>2, <3>1
        <4> QED BY <2>2, <3>1, <4>1
      <3>2. CASE i # n + 1
        <4>1. i \in 1 .. n /\ i \in Nat /\ i - 1 \in Nat /\ i - 1 # n + 1
          BY <2>2, <3>2
        <4> QED BY <2>1, <3>2, <4>1 DEF Reads
      <3> QED BY <3>1, <3>2
    <2> HIDE DEF g
    <2>6. Reads(g, a, d, n + 1)
      BY <2>4, <2>5 DEF Reads
    <2> QED BY <2>2, <2>3, <2>6
  <1> HIDE DEF T
  <1>3. \A n \in Nat : n \in T
    BY <1>1, <1>2, ByCounting DEF T
  <1> QED BY <1>3 DEF T

\* Two readings of the same digits agree.
Alike(d, e, m) == \A i \in 1 .. m : d[i] = e[i]

LEMMA ReadingsAgree ==
  ASSUME NEW a, NEW m \in Nat, NEW g, NEW h, NEW d, NEW e,
         Reads(g, a, d, m), Reads(h, a, e, m), Alike(d, e, m)
  PROVE  \A i \in 0 .. m : g[i] = h[i]
  <1> DEFINE T == {i \in Nat : i \in 0 .. m => g[i] = h[i]}
  <1>1. 0 \in T
    BY DEF Reads
  <1>2. ASSUME NEW n \in T PROVE n + 1 \in T
    <2> SUFFICES ASSUME n + 1 \in 0 .. m PROVE g[n + 1] = h[n + 1]
      OBVIOUS
    <2>1. n \in 0 .. m /\ n + 1 \in 1 .. m /\ (n + 1) - 1 = n
      OBVIOUS
    <2>2. g[n] = h[n]
      BY <2>1
    <2> QED BY <2>1, <2>2 DEF Reads, Alike
  <1> HIDE DEF T
  <1>3. \A i \in Nat : i \in T
    BY <1>1, <1>2, ByCounting DEF T
  <1> QED BY <1>3 DEF T

\* There is a reading of endlessly many digits.
LEMMA ReadingExists ==
  ASSUME NEW a \in Nat, NEW d \in [Nat -> Nat]
  PROVE  \E h \in [Nat -> Nat] : \A n \in Nat : Reads(h, a, d, n)
  <1> DEFINE At(n) == CHOOSE h \in [Nat -> Nat] : Reads(h, a, d, n)
             g == [n \in Nat |-> At(n)[n]]
  <1>1. \A n \in Nat : At(n) \in [Nat -> Nat] /\ Reads(At(n), a, d, n)
    BY ReadingGoesOn
  <1> HIDE DEF At
  <1>2. g \in [Nat -> Nat]
    BY <1>1
  <1>3. g[0] = a
    BY <1>1 DEF Reads
  <1>4. ASSUME NEW i \in Nat, i # 0 PROVE g[i] = 10 * g[i - 1] + d[i]
    <2>1. i - 1 \in Nat /\ i \in 1 .. i /\ i - 1 \in 0 .. i - 1
      BY <1>4
    <2>2. Reads(At(i), a, d, i - 1)
      <3>1. \A j \in 1 .. i - 1 : j \in 1 .. i
        BY <2>1
      <3> QED BY <1>1, <3>1 DEF Reads
    <2>3. At(i)[i - 1] = At(i - 1)[i - 1]
      <3>1. Alike(d, d, i - 1)
        BY DEF Alike
      <3> QED BY <1>1, <2>1, <2>2, <3>1, ReadingsAgree
    <2>4. At(i)[i] = 10 * At(i)[i - 1] + d[i]
      BY <1>1, <2>1 DEF Reads
    <2> QED BY <2>1, <2>3, <2>4
  <1> HIDE DEF g
  <1>5. \A n \in Nat : Reads(g, a, d, n)
    <2>1. ASSUME NEW n \in Nat, NEW i \in 1 .. n PROVE i \in Nat /\ i # 0
      OBVIOUS
    <2> QED BY <1>3, <1>4, <2>1 DEF Reads
  <1> QED BY <1>2, <1>5

\* Tens[n] is ten to the power of n.
LEMMA TensAre ==
  /\ \A n \in Nat : Tens[n] \in Nat
  /\ Tens[0] = 1 /\ \A n \in Nat : Tens[n + 1] = 10 * Tens[n]
  <1> DEFINE Step(f) == [n \in Nat |-> IF n = 0 THEN 1 ELSE 10 * f[n - 1]]
             none == [n \in Nat |-> 0]
  <1>1. PICK h \in [Nat -> Nat] : \A n \in Nat : Reads(h, 1, none, n)
    <2>1. none \in [Nat -> Nat] /\ 1 \in Nat
      OBVIOUS
    <2> HIDE DEF none
    <2> QED BY <2>1, ReadingExists
  <1>2. h = Step(h)
    <2>1. \A n \in Nat : n # 0 => n \in 1 .. n /\ h[n] = 10 * h[n - 1] + none[n]
      BY <1>1 DEF Reads
    <2>2. \A n \in Nat : n # 0 => h[n] = 10 * h[n - 1]
      BY <2>1
    <2>3. h[0] = 1
      BY <1>1 DEF Reads
    <2> QED BY <2>2, <2>3
  <1>3. Tens = CHOOSE f : f = [n \in Nat |-> IF n = 0 THEN 1 ELSE 10 * f[n - 1]]
    BY DEF Tens
  <1>4. Tens = CHOOSE f : f = Step(f)
    BY <1>3
  <1> HIDE DEF Step
  <1>5. Tens = Step(Tens)
    BY <1>2, <1>4
  <1>6. Tens[0] = 1 /\ \A n \in Nat : n # 0 => Tens[n] = 10 * Tens[n - 1]
    BY <1>5 DEF Step
  <1>7. \A n \in Nat : Tens[n + 1] = 10 * Tens[n]
    <2>1. \A n \in Nat : n + 1 \in Nat /\ n + 1 # 0 /\ (n + 1) - 1 = n
      OBVIOUS
    <2> QED BY <1>6, <2>1
  <1> DEFINE T == {n \in Nat : Tens[n] \in Nat}
  <1>8. \A n \in Nat : n \in T
    <2>1. 0 \in T
      BY <1>6
    <2>2. \A n \in T : n + 1 \in T
      BY <1>7
    <2> HIDE DEF T
    <2> QED BY <2>1, <2>2, ByCounting DEF T
  <1> QED BY <1>6, <1>7, <1>8

LEMMA TensMultiply ==
  ASSUME NEW m \in Nat
  PROVE  \A k \in Nat : Tens[m + k] = Tens[m] * Tens[k]
  <1> DEFINE T == {k \in Nat : Tens[m + k] = Tens[m] * Tens[k]}
  <1>1. 0 \in T
    BY TensAre
  <1>2. ASSUME NEW k \in T PROVE k + 1 \in T
    <2>1. m + k \in Nat /\ m + (k + 1) = (m + k) + 1
      OBVIOUS
    <2>2. Tens[m + (k + 1)] = 10 * (Tens[m] * Tens[k])
      BY <2>1, TensAre
    <2>3. Tens[k + 1] = 10 * Tens[k] /\ Tens[k] \in Nat /\ Tens[m] \in Nat
      BY TensAre
    <2>4. \A x, y \in Nat : 10 * (x * y) = x * (10 * y)
      OBVIOUS
    <2> QED BY <2>2, <2>3, <2>4
  <1> HIDE DEF T
  <1>3. \A k \in Nat : k \in T
    BY <1>1, <1>2, ByCounting DEF T
  <1> QED BY <1>3 DEF T

LEMMA NumberReads ==
  ASSUME NEW s \in Seq(0 .. 9)
  PROVE  /\ Number(s) \in Nat
         /\ \E h : Reads(h, 0, s, Len(s)) /\ Number(s) = h[Len(s)]
  <1> DEFINE l == Len(s)
             Step(f) == [i \in 0 .. l |-> IF i = 0 THEN 0 ELSE 10 * f[i - 1] + s[i]]
             read == CHOOSE f : f = Step(f)
             d == [i \in Nat |-> IF i \in 1 .. l THEN s[i] ELSE 0]
  <1>1. l \in Nat /\ \A i \in 1 .. l : s[i] \in Nat
    BY LenProperties
  <1>2. d \in [Nat -> Nat]
    BY <1>1
  <1>3. \A i \in 1 .. l : d[i] = s[i]
    BY <1>1
  <1> HIDE DEF l, d
  <1>4. PICK h : Reads(h, 0, d, l) /\ h[l] \in Nat
    BY <1>1, <1>2, ReadingExists
  <1>5. \E g : g = Step(g)
    <2> DEFINE g == [i \in 0 .. l |-> h[i]]
    <2>1. h[0] = 0 /\ \A i \in 1 .. l : h[i] = 10 * h[i - 1] + s[i]
      BY <1>3, <1>4 DEF Reads
    <2>2. \A i \in 0 .. l : i # 0 => i \in 1 .. l /\ i - 1 \in 0 .. l
      BY <1>1
    <2>3. \A i \in 0 .. l : i # 0 => g[i - 1] = h[i - 1]
      BY <2>2
    <2>4. g = Step(g)
      BY <2>1, <2>2, <2>3
    <2> QED BY <2>4
  <1>6. Number(s) = read[l]
    BY DEF Number, l
  <1> HIDE DEF Step
  <1>7. read = Step(read)
    BY <1>5
  <1>8. Reads(read, 0, s, l)
    <2>1. 0 \in 0 .. l /\ \A i \in 1 .. l : i \in 0 .. l /\ i # 0
      BY <1>1
    <2> HIDE DEF read
    <2> QED BY <1>7, <2>1 DEF Reads, Step
  <1> HIDE DEF read
  <1>9. read[l] = h[l]
    <2>1. \A i \in 0 .. l : read[i] = h[i]
      <3>1. Alike(s, d, l)
        BY <1>3 DEF Alike
      <3> QED BY <1>1, <1>4, <1>8, <3>1, ReadingsAgree
    <2> QED BY <1>1, <2>1
  <1>10. Number(s) \in Nat
    BY <1>4, <1>6, <1>9
  <1>11. Reads(read, 0, s, Len(s)) /\ Number(s) = read[Len(s)]
    BY <1>6, <1>8 DEF l
  <1> QED BY <1>10, <1>11

\* A zero behind the digits is a factor of ten.
Zeros(k) == [i \in 1 .. k |-> 0]

LEMMA ZerosMultiply ==
  ASSUME NEW s \in Seq(0 .. 9), NEW k \in Nat
  PROVE  Number(s \o Zeros(k)) = Number(s) * Tens[k]
  <1> DEFINE z == Zeros(k)
             t == s \o z
             l == Len(s)
  <1>1. z \in Seq(0 .. 9) /\ Len(z) = k /\ \A i \in 1 .. k : z[i] = 0
    <2>1. z \in [1 .. k -> 0 .. 9]
      BY DEF Zeros
    <2>2. z \in Seq(0 .. 9) /\ Len(z) = k
      BY <2>1
    <2> QED BY <2>2 DEF Zeros
  <1>2. l \in Nat
    BY LenProperties
  <1> HIDE DEF z
  <1>3. /\ t \in Seq(0 .. 9) /\ Len(t) = l + k
        /\ \A i \in 1 .. l + k : t[i] = IF i <= l THEN s[i] ELSE z[i - l]
    BY <1>1, ConcatProperties
  <1>4. PICK h : Reads(h, 0, s, l) /\ Number(s) = h[l]
    BY NumberReads
  <1> HIDE DEF t
  <1>5. PICK g : Reads(g, 0, t, l + k) /\ Number(t) = g[l + k]
    BY <1>3, NumberReads
  <1>6. Number(s) \in Nat
    BY NumberReads
  <1> HIDE DEF l
  <1>7. g[l] = h[l]
    <2>1. \A i \in 1 .. l : i \in 1 .. l + k /\ t[i] = s[i]
      BY <1>2, <1>3
    <2>2. Reads(g, 0, t, l)
      BY <1>5, <2>1 DEF Reads
    <2>3. \A i \in 0 .. l : g[i] = h[i]
      <3>1. Alike(t, s, l)
        BY <2>1 DEF Alike
      <3> QED BY <1>2, <1>4, <2>2, <3>1, ReadingsAgree
    <2> QED BY <1>2, <2>3
  <1> DEFINE T == {j \in Nat : j <= k => g[l + j] = Number(s) * Tens[j]}
  <1>8. 0 \in T
    <2>1. l + 0 = l /\ Number(s) * 1 = Number(s)
      BY <1>2, <1>6
    <2> QED BY <1>4, <1>7, <2>1, TensAre
  <1>9. ASSUME NEW j \in T PROVE j + 1 \in T
    <2> SUFFICES ASSUME j + 1 <= k PROVE g[l + (j + 1)] = Number(s) * Tens[j + 1]
      OBVIOUS
    <2>1. /\ l + (j + 1) \in 1 .. l + k /\ (l + (j + 1)) - 1 = l + j
          /\ ~ (l + (j + 1) <= l) /\ (l + (j + 1)) - l = j + 1 /\ j + 1 \in 1 .. k
      BY <1>2
    <2>2. t[l + (j + 1)] = 0
      BY <1>1, <1>3, <2>1
    <2>3. g[l + (j + 1)] = 10 * g[l + j] + 0
      BY <1>5, <2>1, <2>2 DEF Reads
    <2>4. g[l + j] = Number(s) * Tens[j]
      OBVIOUS
    <2>5. Tens[j] \in Nat /\ Tens[j + 1] = 10 * Tens[j]
      BY TensAre
    <2>6. \A x, y \in Nat : 10 * (x * y) + 0 = x * (10 * y)
      OBVIOUS
    <2> QED BY <1>6, <2>3, <2>4, <2>5, <2>6
  <1> HIDE DEF T
  <1>10. \A j \in Nat : j \in T
    BY <1>8, <1>9, ByCounting DEF T
  <1>11. g[l + k] = Number(s) * Tens[k]
    BY <1>10 DEF T
  <1> QED BY <1>5, <1>11 DEF t, z

\* A written price comes to exactly its amount in the last decimals of an asset, for any
\* digits and any decimals that can express it (config.go parsePrice).
THEOREM PriceIsExact ==
  ASSUME NEW price, price # None, price.whole \in Seq(0 .. 9), price.frac \in Seq(0 .. 9),
         NEW decimals \in Nat, Len(price.frac) <= decimals
  PROVE  ParsePrice(price, decimals) * Tens[Len(price.frac)]
           = Number(price.whole \o price.frac) * Tens[decimals]
  <1> DEFINE s == price.whole \o price.frac
             f == Len(price.frac)
             k == decimals - f
  <1>1. s \in Seq(0 .. 9) /\ f \in Nat /\ k \in Nat /\ f + k = decimals /\ k + f = decimals
    BY ConcatProperties, LenProperties
  <1>2. ParsePrice(price, decimals) = Number(s \o Zeros(k))
    <2>1. ~ (Len(price.frac) > decimals)
      BY <1>1
    <2> QED BY <2>1 DEF ParsePrice, Zeros
  <1> HIDE DEF s, k, f
  <1>3. Number(s \o Zeros(k)) = Number(s) * Tens[k] /\ Number(s) \in Nat
    BY <1>1, ZerosMultiply, NumberReads
  <1>4. Tens[k + f] = Tens[k] * Tens[f] /\ Tens[k] \in Nat /\ Tens[f] \in Nat
    BY <1>1, TensMultiply, TensAre
  <1>5. \A x, y, z \in Nat : (x * y) * z = x * (y * z)
    OBVIOUS
  <1>6. (Number(s) * Tens[k]) * Tens[f] = Number(s) * Tens[decimals]
    <2>1. Tens[decimals] = Tens[k] * Tens[f]
      BY <1>1, <1>4
    <2> QED BY <1>3, <1>4, <1>5, <2>1
  <1> QED BY <1>2, <1>3, <1>6 DEF s, f

-----------------------------------------------------------------------------
(* What a file that is accepted is made into.                               *)

\* The payments an accepted file names, and the terms the gate is given for them.
LEMMA Loaded ==
  ASSUME NEW f \in Files, Load(f, Env) # None, Load(f, Env).payments # None
  PROVE  /\ "payments" \in DOMAIN f /\ f.payments # None
         /\ PaymentsFit(f.payments) /\ Load(f, Env).payments = Terms(f.payments)
  <1> DEFINE c == Layered(f, Env)
             full == [c EXCEPT !.keys = IF @ = {} THEN {[kid |-> "auto", bytes |-> 32]} ELSE @,
                               !.payments = IF @ = None THEN None ELSE Terms(@),
                               !.activity = IF @ = None THEN None ELSE Activity(@)]
  <1>1. Fits(c) /\ Load(f, Env) = full
    BY DEF Load
  <1>2. /\ "payments" \in DOMAIN c
        /\ c.payments = IF "payments" \in DOMAIN f THEN f.payments ELSE None
    BY DEF Layered, FromEnvironment, Defaults
  <1>3. full.payments = IF c.payments = None THEN None ELSE Terms(c.payments)
    <2> HIDE DEF c
    <2> QED BY <1>2
  <1> HIDE DEF c, full
  <1>4. c.payments # None
    BY <1>1, <1>3
  <1>5. PaymentsFit(c.payments)
    BY <1>1, <1>4 DEF Fits
  <1> QED BY <1>1, <1>2, <1>3, <1>4, <1>5

\* A rail with its defaults and what it inherits.
LEMMA RailIs ==
  ASSUME NEW p, NEW rl, rl = [k \in RailKeys |-> rl[k]]
  PROVE  LET t == Resolved(p, Filled(rl)) IN
         /\ t.network = rl.network /\ t.asset = rl.asset
         /\ t.method = Filled(rl).method /\ Filled(rl).network = rl.network
         /\ t.decimals = Places(rl) /\ Filled(rl).decimals = Places(rl)
         /\ t.payTo = IF rl.payTo # None THEN rl.payTo ELSE p.payTo
         /\ t.facilitator = (IF rl.facilitator # None THEN rl ELSE p).facilitator
         /\ t.headers = Headers((IF rl.facilitator # None THEN rl ELSE p).headers)
  <1> DEFINE g == [rl EXCEPT !.decimals = IF @ = 0 THEN 6 ELSE @,
                             !.method = IF @ = None THEN "eip3009" ELSE @]
             t == [g EXCEPT !.payTo = IF @ = None THEN p.payTo ELSE @,
                            !.facilitator = IF @ = None THEN p.facilitator ELSE @,
                            !.headers = Headers(IF g.facilitator = None THEN p.headers ELSE @)]
  <1>1. Filled(rl) = g /\ Resolved(p, Filled(rl)) = t
    BY DEF Filled, Resolved
  <1>2. DOMAIN rl = RailKeys
    OBVIOUS
  <1>3. /\ g.network = rl.network /\ g.asset = rl.asset /\ g.decimals = Places(rl)
        /\ g.payTo = rl.payTo /\ g.facilitator = rl.facilitator /\ g.headers = rl.headers
        /\ DOMAIN g = RailKeys
    BY <1>2 DEF RailKeys, Places
  <1> HIDE DEF g
  <1>4. /\ t.network = g.network /\ t.asset = g.asset /\ t.method = g.method
        /\ t.decimals = g.decimals
        /\ t.payTo = IF g.payTo = None THEN p.payTo ELSE g.payTo
        /\ t.facilitator = IF g.facilitator = None THEN p.facilitator ELSE g.facilitator
        /\ t.headers = Headers(IF g.facilitator = None THEN p.headers ELSE g.headers)
    BY <1>3 DEF RailKeys
  <1> HIDE DEF t
  <1> QED BY <1>1, <1>3, <1>4

\* The terms, and the file beside them.
TermsRead(p, t) ==
  /\ Len(p.rails) \in Nat /\ DOMAIN p.rails = 1 .. Len(p.rails)
  /\ Len(t.rails) = Len(p.rails) /\ DOMAIN t.rails = DOMAIN p.rails
  /\ Len(p.rules) \in Nat /\ DOMAIN p.rules = 1 .. Len(p.rules)
  /\ Len(t.rules) = Len(p.rules) /\ DOMAIN t.rules = DOMAIN p.rules
  /\ \A i \in DOMAIN p.rails :
       /\ p.rails[i] = [k \in RailKeys |-> p.rails[i][k]]
       /\ t.rails[i] = Resolved(p, Filled(p.rails[i]))
       /\ RailFits(Filled(p.rails[i]))
  /\ \A i, j \in DOMAIN p.rails : p.rails[i].network = p.rails[j].network => i = j
  /\ \A i \in DOMAIN p.rules :
       /\ t.rules[i] = RuleTerms(p.rules[i], t.rails)
       /\ \A j \in DOMAIN p.rails : ParsePrice(p.rules[i].price, Filled(p.rails[j]).decimals) # 0

LEMMA TermsAre ==
  ASSUME NEW f \in Files, "payments" \in DOMAIN f, f.payments # None, PaymentsFit(f.payments)
  PROVE  TermsRead(f.payments, Terms(f.payments))
  <1> DEFINE p == f.payments
             t == Terms(p)
             rails == FilledRails(p)
             resolved == [i \in DOMAIN p.rails |-> Resolved(p, Filled(p.rails[i]))]
  <1>1. /\ p.rails \in Seq(Range(p.rails)) /\ p.rules \in Seq(Range(p.rules))
        /\ \A rl \in Range(p.rails) : rl = [k \in RailKeys |-> rl[k]]
    BY DeploymentAssumption
  <1>2. /\ Len(p.rails) \in Nat /\ DOMAIN p.rails = 1 .. Len(p.rails)
        /\ Len(p.rules) \in Nat /\ DOMAIN p.rules = 1 .. Len(p.rules)
    BY <1>1, LenProperties
  <1>3. \A i \in DOMAIN p.rails : p.rails[i] = [k \in RailKeys |-> p.rails[i][k]]
    BY <1>1 DEF Range
  <1>4. t.rails = resolved
    BY DEF Terms
  <1>5. t.rules = [i \in DOMAIN p.rules |-> RuleTerms(p.rules[i], t.rails)]
    BY DEF Terms
  <1>6. DOMAIN t.rules = DOMAIN p.rules
        /\ \A i \in DOMAIN p.rules : t.rules[i] = RuleTerms(p.rules[i], t.rails)
    <2> HIDE DEF t, p
    <2> QED BY <1>5
  <1>7. /\ IsInjective([i \in DOMAIN rails |-> rails[i].network])
        /\ \A rl \in Range(rails) : RailFits(rl)
        /\ \A r \in Range(p.rules) : RuleFits(r, rails)
    <2>1. RailsFit(rails) /\ RulesFit(p.rules, rails)
      BY DEF PaymentsFit
    <2> HIDE DEF rails, t, p, resolved
    <2> QED BY <2>1 DEF RailsFit, RulesFit
  <1> HIDE DEF t, p
  <1>8. DOMAIN rails = DOMAIN p.rails /\ \A i \in DOMAIN p.rails : rails[i] = Filled(p.rails[i])
    BY DEF FilledRails
  <1> HIDE DEF rails
  <1>9. \A i \in DOMAIN p.rails : RailFits(Filled(p.rails[i]))
    BY <1>7, <1>8 DEF Range
  <1>10. \A i, j \in DOMAIN p.rails : p.rails[i].network = p.rails[j].network => i = j
    <2>1. \A i \in DOMAIN p.rails : rails[i].network = p.rails[i].network
      BY <1>3, <1>8, RailIs
    <2> QED BY <1>7, <1>8, <2>1 DEF IsInjective
  <1>11. \A i \in DOMAIN p.rules, j \in DOMAIN p.rails :
           ParsePrice(p.rules[i].price, Filled(p.rails[j]).decimals) # 0
    BY <1>7, <1>8 DEF Range, RuleFits
  <1>12. Len(t.rules) = Len(p.rules) /\ Len(t.rails) = Len(p.rails) /\ DOMAIN t.rails = DOMAIN p.rails
    <2>1. DOMAIN t.rails = 1 .. Len(p.rails)
      BY <1>2, <1>4
    <2>2. DOMAIN t.rules = 1 .. Len(p.rules)
      BY <1>2, <1>6
    <2> QED BY <1>2, <2>1, <2>2
  <1>13. \A i \in DOMAIN p.rails : t.rails[i] = Resolved(p, Filled(p.rails[i]))
    BY <1>4
  <1> HIDE DEF resolved
  <1>14. TermsRead(p, t)
    BY <1>2, <1>3, <1>6, <1>9, <1>10, <1>11, <1>12, <1>13 DEF TermsRead
  <1> QED BY <1>14 DEF t, p

\* A rail is found by its network, and by no other's.
Railed(rails) ==
  /\ Len(rails) \in Nat /\ DOMAIN rails = 1 .. Len(rails)
  /\ \A i, j \in DOMAIN rails : rails[i].network = rails[j].network => i = j

LEMMA RailFound ==
  ASSUME NEW rails, Railed(rails), NEW i \in DOMAIN rails, NEW n, n = rails[i].network
  PROVE  {j \in 1 .. Len(rails) : rails[j].network = n} = {i} /\ Min({i}) = i
  <1> USE DEF Railed
  <1>1. {j \in 1 .. Len(rails) : rails[j].network = n} = {i} /\ i \in Nat
    OBVIOUS
  <1>2. Min({i}) = i
    BY <1>1 DEF Min
  <1> QED BY <1>1, <1>2

\* The verifier of a rail talks to the rail's own facilitator.
LEMMA VerifierIs ==
  ASSUME NEW t, Len(t.rails) \in Nat, DOMAIN t.rails = 1 .. Len(t.rails),
         \A i, j \in DOMAIN t.rails : t.rails[i].network = t.rails[j].network => i = j,
         NEW i \in DOMAIN t.rails
  PROVE  VerifierOf(t, t.rails[i].network)
           = [base |-> Base(t.rails[i].facilitator), headers |-> t.rails[i].headers]
  <1> DEFINE n == t.rails[i].network
             T == {j \in 1 .. Len(t.rails) : Identity(t.rails[j]) = Identity(t.rails[i])}
  <1>1. RailOf(t, n) = t.rails[i]
    BY DEF RailOf, Rails, Range
  <1>2. T \in SUBSET Nat /\ T # {}
    OBVIOUS
  <1>3. SelectInSeq(t.rails, LAMBDA rl : Identity(rl) = Identity(RailOf(t, n))) = Min(T)
    <2>1. SelectInSeq(t.rails, LAMBDA rl : Identity(rl) = Identity(t.rails[i])) = Min(T)
      BY <1>2 DEF SelectInSeq
    <2> QED BY <1>1, <2>1
  <1>4. Min(T) \in T
    BY <1>2, LeastOf
  <1>5. Identity(t.rails[Min(T)]) = Identity(t.rails[i])
    BY <1>4
  <1>6. Base(t.rails[Min(T)].facilitator) = Base(t.rails[i].facilitator)
        /\ t.rails[Min(T)].headers = t.rails[i].headers
    BY <1>5, Zenon DEF Identity
  <1> HIDE DEF T
  <1> QED BY <1>3, <1>6 DEF VerifierOf

\* The rule and the rail that a reader of the file finds, and the facilitator's entry.
RuleIn(p, path) == p.rules[SelectInSeq(p.rules, LAMBDA r : Matches(r.paths, path))]
RailIn(p, network) == p.rails[SelectInSeq(p.rails, LAMBDA rl : rl.network = network)]
HomeIn(p, rl) == IF rl.facilitator # None THEN rl ELSE p

\* A payment the gate takes up is on a rule and a rail of the file: those that a
\* reader of the file would find.
OnOffer(f, path, echo, rule, req) ==
  /\ f \in Files /\ "payments" \in DOMAIN f /\ f.payments # None /\ PaymentsFit(f.payments)
  /\ rule = RouteOf(Terms(f.payments), path) /\ rule # None
  /\ req = MatchRail(echo, Accepts(Terms(f.payments), rule)) /\ req # None

ReadsAs(p, path, echo, req) ==
  LET r == RuleIn(p, path)
      rl == RailIn(p, req.network)
      home == HomeIn(p, rl)
  IN  /\ r \in Range(p.rules) /\ rl \in Range(p.rails)
      /\ req.amount = ParsePrice(r.price, Places(rl)) /\ req.amount # 0
      /\ Places(rl) \in 1 .. 36
      /\ req.asset = rl.asset /\ req.payTo = IF rl.payTo # None THEN rl.payTo ELSE p.payTo
      /\ echo.amount = req.amount /\ echo.asset.is = req.asset.is
      /\ echo.payTo.is = req.payTo.is
      /\ VerifierOf(Terms(p), req.network)
           = [base |-> Base(home.facilitator), headers |-> Headers(home.headers)]

LEMMA TakenUp ==
  ASSUME NEW f, NEW path, NEW echo, NEW rule, NEW req, OnOffer(f, path, echo, rule, req)
  PROVE  /\ ReadsAs(f.payments, path, echo, req)
         /\ req.scheme = "exact" /\ req.method \in {"eip3009", "permit2"}
  <1> DEFINE p == f.payments
             t == Terms(p)
             accepts == Accepts(t, rule)
  <1>0. /\ f \in Files /\ "payments" \in DOMAIN f /\ p # None /\ PaymentsFit(p)
        /\ rule = RouteOf(t, path) /\ rule # None
        /\ req = MatchRail(echo, accepts) /\ req # None
    BY Zenon DEF OnOffer
  <1>a. TermsRead(p, t)
    BY <1>0, TermsAre
  <1>5. rule = RouteOf(t, path) /\ rule # None /\ req = MatchRail(echo, accepts) /\ req # None
    BY <1>0, Zenon
  <1> HIDE DEF t, p
  <1>1. /\ Len(p.rails) \in Nat /\ DOMAIN p.rails = 1 .. Len(p.rails)
        /\ Len(t.rails) = Len(p.rails) /\ DOMAIN t.rails = DOMAIN p.rails
        /\ Len(p.rules) \in Nat /\ DOMAIN p.rules = 1 .. Len(p.rules)
        /\ Len(t.rules) = Len(p.rules) /\ DOMAIN t.rules = DOMAIN p.rules
    BY <1>a, Zenon DEF TermsRead
  <1>2. \A i \in DOMAIN p.rails :
          /\ p.rails[i] = [k \in RailKeys |-> p.rails[i][k]]
          /\ t.rails[i] = Resolved(p, Filled(p.rails[i]))
          /\ RailFits(Filled(p.rails[i]))
    BY <1>a, Zenon DEF TermsRead
  <1>3. \A i, j \in DOMAIN p.rails : p.rails[i].network = p.rails[j].network => i = j
    BY <1>a, Zenon DEF TermsRead
  <1>4. \A i \in DOMAIN p.rules :
          /\ t.rules[i].paths = p.rules[i].paths
          /\ t.rules[i].atomic = [n \in {rl.network : rl \in Range(t.rails)} |->
               ParsePrice(p.rules[i].price,
                          t.rails[SelectInSeq(t.rails, LAMBDA rl : rl.network = n)].decimals)]
          /\ \A j \in DOMAIN p.rails : ParsePrice(p.rules[i].price, Filled(p.rails[j]).decimals) # 0
    <2>1. ASSUME NEW i \in DOMAIN p.rules
          PROVE  /\ t.rules[i] = RuleTerms(p.rules[i], t.rails)
                 /\ \A j \in DOMAIN p.rails : ParsePrice(p.rules[i].price, Filled(p.rails[j]).decimals) # 0
      BY <1>a, Zenon DEF TermsRead
    <2>2. ASSUME NEW i \in DOMAIN p.rules
          PROVE  /\ t.rules[i].paths = p.rules[i].paths
                 /\ t.rules[i].atomic = [n \in {rl.network : rl \in Range(t.rails)} |->
                      ParsePrice(p.rules[i].price,
                                 t.rails[SelectInSeq(t.rails, LAMBDA rl : rl.network = n)].decimals)]
      <3> DEFINE r == p.rules[i]
                 all == t.rails
      <3>1. t.rules[i] = RuleTerms(r, all)
        BY <2>1
      <3> HIDE DEF r, all
      <3>2. /\ RuleTerms(r, all).paths = r.paths
            /\ RuleTerms(r, all).atomic = [n \in {rl.network : rl \in Range(all)} |->
                 ParsePrice(r.price, all[SelectInSeq(all, LAMBDA rl : rl.network = n)].decimals)]
        BY DEF RuleTerms
      <3> QED BY <3>1, <3>2, Zenon DEF r, all
    <2> QED BY <2>1, <2>2, Zenon
  \* The rule.
  <1> DEFINE R == {i \in 1 .. Len(p.rules) : Matches(p.rules[i].paths, path)}
             j == SelectInSeq(p.rules, LAMBDA x : Matches(x.paths, path))
  <1>6. R \in SUBSET Nat /\ j = IF R # {} THEN Min(R) ELSE 0
    BY DEF SelectInSeq
  <1>7. R = {i \in 1 .. Len(t.rules) : Matches(t.rules[i].paths, path)}
    BY <1>1, <1>4
  <1>8. SelectInSeq(t.rules, LAMBDA x : Matches(x.paths, path)) = IF R # {} THEN Min(R) ELSE 0
    BY <1>7 DEF SelectInSeq
  <1>9. j \in DOMAIN p.rules /\ rule = t.rules[j]
    <2>1. SelectInSeq(t.rules, LAMBDA x : Matches(x.paths, path)) = j
      BY <1>6, <1>8
    <2> HIDE DEF R, j
    <2>2. j # 0 /\ rule = t.rules[j]
      BY <1>5, <2>1 DEF RouteOf
    <2>3. R # {} /\ j = Min(R)
      BY <1>6, <2>2
    <2>4. j \in R
      BY <1>6, <2>3, LeastOf
    <2> QED BY <1>1, <2>2, <2>4 DEF R
  <1> HIDE DEF R, j
  \* The rail.
  <1> DEFINE A == {i \in 1 .. Len(accepts) :
                     accepts[i].network = echo.network /\ accepts[i].scheme = echo.scheme}
             i == SelectInSeq(accepts, LAMBDA q : q.network = echo.network /\ q.scheme = echo.scheme)
  <1>10. /\ DOMAIN accepts = DOMAIN t.rails
         /\ \A k \in DOMAIN t.rails : accepts[k] = Requirement(t.rails[k], rule)
    BY DEF Accepts
  <1>11. Len(accepts) = Len(t.rails)
    BY <1>1, <1>10
  <1>12. A \in SUBSET Nat /\ i = IF A # {} THEN Min(A) ELSE 0
    BY DEF SelectInSeq
  <1>13. /\ i # 0 /\ req = accepts[i]
         /\ req.asset.is = echo.asset.is /\ req.amount = echo.amount /\ req.payTo.is = echo.payTo.is
    <2> HIDE DEF accepts
    <2> QED BY <1>5 DEF MatchRail
  <1> HIDE DEF i, accepts
  <1>14. i \in DOMAIN p.rails
    <2>1. A # {} /\ i = Min(A)
      BY <1>12, <1>13
    <2> HIDE DEF A
    <2>2. i \in A
      BY <1>12, <2>1, LeastOf
    <2> QED BY <1>1, <1>11, <2>2 DEF A
  <1> HIDE DEF A
  <1> DEFINE rl == p.rails[i]
             tl == t.rails[i]
             home == HomeIn(p, rl)
  <1>15. /\ tl.network = rl.network /\ tl.asset = rl.asset
         /\ tl.method = Filled(rl).method /\ Filled(rl).decimals = Places(rl)
         /\ tl.decimals = Places(rl)
         /\ tl.payTo = IF rl.payTo # None THEN rl.payTo ELSE p.payTo
         /\ tl.facilitator = home.facilitator
         /\ tl.headers = Headers(home.headers)
    <2>1. tl = Resolved(p, Filled(rl)) /\ rl = [k \in RailKeys |-> rl[k]]
      BY <1>2, <1>14
    <2> HIDE DEF tl, rl
    <2> QED BY <2>1, RailIs DEF HomeIn
  <1>16. \A k, l \in DOMAIN t.rails : t.rails[k].network = t.rails[l].network => k = l
    <2>1. ASSUME NEW k \in DOMAIN p.rails PROVE t.rails[k].network = p.rails[k].network
      <3>1. /\ t.rails[k] = Resolved(p, Filled(p.rails[k]))
            /\ p.rails[k] = [x \in RailKeys |-> p.rails[k][x]]
        BY <1>2
      <3> QED BY <3>1, RailIs
    <2> QED BY <1>1, <1>3, <2>1
  <1>17. req = Requirement(tl, rule)
    BY <1>1, <1>10, <1>13, <1>14
  <1>18. /\ req.network = rl.network /\ req.scheme = "exact" /\ req.asset = tl.asset
         /\ req.amount = rule.atomic[tl.network] /\ req.payTo = tl.payTo /\ req.method = tl.method
    <2> HIDE DEF tl, rl
    <2> QED BY <1>15, <1>17 DEF Requirement
  <1>19. /\ SelectInSeq(p.rails, LAMBDA x : x.network = req.network) = i
         /\ SelectInSeq(t.rails, LAMBDA x : x.network = tl.network) = i
    <2>1. SelectInSeq(p.rails, LAMBDA x : x.network = req.network) = i
      <3> DEFINE T == {x \in 1 .. Len(p.rails) : p.rails[x].network = req.network}
      <3>1. SelectInSeq(p.rails, LAMBDA x : x.network = req.network) = IF T # {} THEN Min(T) ELSE 0
        BY DEF SelectInSeq
      <3>2. T = {i} /\ Min({i}) = i
        <4> DEFINE all == p.rails
                   n == req.network
        <4>1. Railed(all) /\ i \in DOMAIN all /\ n = all[i].network
          BY <1>1, <1>3, <1>14, <1>18 DEF Railed
        <4> HIDE DEF all, n
        <4>2. {k \in 1 .. Len(all) : all[k].network = n} = {i} /\ Min({i}) = i
          BY <4>1, RailFound
        <4> QED BY <4>2 DEF all, n
      <3> HIDE DEF T
      <3> QED BY <3>1, <3>2
    <2>2. SelectInSeq(t.rails, LAMBDA x : x.network = tl.network) = i
      <3> DEFINE T == {x \in 1 .. Len(t.rails) : t.rails[x].network = tl.network}
      <3>1. SelectInSeq(t.rails, LAMBDA x : x.network = tl.network) = IF T # {} THEN Min(T) ELSE 0
        BY DEF SelectInSeq
      <3>2. T = {i} /\ Min({i}) = i
        <4> DEFINE all == t.rails
                   n == tl.network
        <4>1. Railed(all) /\ i \in DOMAIN all /\ n = all[i].network
          BY <1>1, <1>14, <1>16 DEF Railed
        <4> HIDE DEF all, n
        <4>2. {k \in 1 .. Len(all) : all[k].network = n} = {i} /\ Min({i}) = i
          BY <4>1, RailFound
        <4> QED BY <4>2 DEF all, n
      <3> HIDE DEF T
      <3> QED BY <3>1, <3>2
    <2> QED BY <2>1, <2>2
  <1>20. req.amount = ParsePrice(p.rules[j].price, Places(rl)) /\ req.amount # 0
    <2>1. rule.atomic = [n \in {x.network : x \in Range(t.rails)} |->
               ParsePrice(p.rules[j].price,
                          t.rails[SelectInSeq(t.rails, LAMBDA x : x.network = n)].decimals)]
      BY <1>4, <1>9
    <2>2. tl.network \in {x.network : x \in Range(t.rails)}
      BY <1>1, <1>14 DEF Range
    <2>3. rule.atomic[tl.network] =
            ParsePrice(p.rules[j].price,
                       t.rails[SelectInSeq(t.rails, LAMBDA x : x.network = tl.network)].decimals)
      BY <2>1, <2>2
    <2>4. rule.atomic[tl.network] = ParsePrice(p.rules[j].price, tl.decimals)
      BY <1>19, <2>3
    <2>5. ParsePrice(p.rules[j].price, Filled(rl).decimals) # 0
      BY <1>4, <1>9, <1>14
    <2> HIDE DEF tl, rl
    <2> QED BY <1>15, <1>18, <2>4, <2>5
  <1>21. Places(rl) \in 1 .. 36 /\ req.method \in {"eip3009", "permit2"}
    <2>1. RailFits(Filled(rl))
      BY <1>2, <1>14
    <2> HIDE DEF tl, rl
    <2> QED BY <1>15, <1>18, <2>1 DEF RailFits
  <1>22. VerifierOf(t, req.network) = [base |-> Base(home.facilitator), headers |-> Headers(home.headers)]
    <2>1. VerifierOf(t, tl.network) = [base |-> Base(tl.facilitator), headers |-> tl.headers]
      BY <1>1, <1>14, <1>16, VerifierIs
    <2> HIDE DEF tl, rl, home
    <2> QED BY <1>15, <1>18, <2>1
  <1>23. rl \in Range(p.rails) /\ p.rules[j] \in Range(p.rules)
    BY <1>9, <1>14 DEF Range
  <1>24. rl = RailIn(p, req.network) /\ p.rules[j] = RuleIn(p, path)
    BY <1>19 DEF j, RailIn, RuleIn
  <1> HIDE DEF tl
  <1>25. ReadsAs(p, path, echo, req)
    <2> HIDE DEF rl, home, t
    <2>1. /\ req.asset = rl.asset /\ req.payTo = IF rl.payTo # None THEN rl.payTo ELSE p.payTo
          /\ echo.amount = req.amount /\ echo.asset.is = req.asset.is /\ echo.payTo.is = req.payTo.is
      BY <1>13, <1>15, <1>18
    <2> QED BY <1>20, <1>21, <1>22, <1>23, <1>24, <2>1, Zenon DEF ReadsAs, home, t
  <1> QED BY <1>18, <1>21, <1>25 DEF p

-----------------------------------------------------------------------------
(* A process runs with what its file and the environment make of each other, *)
(* and nobody is connected to one that is not running.                       *)

Running ==
  IF stage = "off" THEN open = [s \in Server |-> 0] /\ serving = {}
  ELSE written \in Files /\ cfg = Load(written, Env) /\ cfg # None

LEMMA RunningInit == DeploymentInit => Running
  BY DEF DeploymentInit, LifeInit, Running

LEMMA RunningStep == Running /\ [DeploymentNext]_deploymentVars => Running'
  <1> SUFFICES ASSUME Running, [DeploymentNext]_deploymentVars PROVE Running'
    OBVIOUS
  <1>1. ASSUME NEW how, Ends(how) PROVE Running'
    BY <1>1 DEF Ends, Running
  <1>2. ASSUME NEW f \in Files, Deploy(f) PROVE Running'
    <2>1. Start(Load(f, Env)) /\ written' = f
      BY <1>2 DEF Deploy
    <2>2. CASE Ends("error")
      BY <1>1, <2>2
    <2>3. CASE Load(f, Env) # Off /\ cfg' = Load(f, Env) /\ stage' = "loaded"
      <3>1. Off = None
        BY DeploymentAssumption
      <3> QED BY <2>1, <2>3, <3>1 DEF Running
    <2> QED BY <2>1, <2>2, <2>3 DEF Start
  \* A step of a running process that goes on running.
  <1>3. ASSUME stage # "off", stage' # "off", cfg' = cfg, written' = written PROVE Running'
    BY <1>3 DEF Running
  <1>4. ASSUME Run PROVE Running'
    <2>1. written' = written /\ LifeStep
      BY <1>4 DEF Run
    <2>2. CASE Runs
      <3>1. CASE \E how : Ends(how)
        BY <1>1, <3>1
      <3>2. CASE ~ \E how : Ends(how)
        <4>1. stage # "off" /\ stage' # "off" /\ cfg' = cfg
          BY <2>2, <3>2 DEF Runs, Bind, Serve, Watch, Fail, Stop, AdminDown, GateDown, Elapse, Exit
        <4> QED BY <1>3, <2>1, <4>1
      <3> QED BY <3>1, <3>2
    <2>3. CASE Signal
      <3>1. CASE \E how : Ends(how)
        BY <1>1, <3>1
      <3>2. CASE ~ \E how : Ends(how)
        BY <1>3, <2>1, <2>3, <3>2 DEF Signal, Exit
      <3> QED BY <3>1, <3>2
    <2>4. ASSUME NEW s \in Server, ServeFails(s) \/ Connect(s) \/ Finish(s) PROVE Running'
      <3>1. stage' = stage /\ cfg' = cfg
        BY <2>4 DEF ServeFails, Connect, Finish
      <3>2. stage # "off"
        <4>1. s \in serving \/ open[s] > 0
          BY <2>4 DEF ServeFails, Connect, Finish
        <4> QED BY <4>1 DEF Running
      <3> QED BY <1>3, <2>1, <3>1, <3>2
    <2> QED BY <2>1, <2>2, <2>3, <2>4 DEF LifeStep
  <1>5. ASSUME UNCHANGED <<lifeVars, written>> PROVE Running'
    BY <1>5 DEF lifeVars, process, Running
  <1>6. ASSUME NEW path \in Paths, NEW echo \in Echoes, NEW body \in Payloads, Present(path, echo, body)
        PROVE  Running'
    BY <1>5, <1>6 DEF Present
  <1> QED BY <1>2, <1>4, <1>5, <1>6 DEF DeploymentNext, deploymentVars

\* What is remembered of a payment.
NameTag(body, req) ==
  [id |-> ID(body, req), spends |-> Spends(body, req), plain |-> PlainKeys(body)]

\* The terms a payment meets are those of the file.
LEMMA PresentMeetsTheFile ==
  ASSUME Running, NEW path, NEW echo, NEW body, Present(path, echo, body)
  PROVE  LET rule == RouteOf(Terms(P), path)
             req == MatchRail(echo, Accepts(Terms(P), rule))
         IN  /\ written \in Files /\ "payments" \in DOMAIN written /\ P # None /\ PaymentsFit(P)
             /\ rule # None /\ req # None /\ ID(body, req) # None
             /\ asked' = [asked |-> TRUE, path |-> path, echo |-> echo, req |-> req,
                          of |-> VerifierOf(Terms(P), req.network)]
             /\ named' = named \cup {NameTag(body, req)}
             /\ written' = written
  <1>1. stage # "off"
    BY DEF Present, Running, Server
  <1>2. written \in Files /\ cfg = Load(written, Env) /\ cfg # None /\ cfg.payments # None
    BY <1>1 DEF Running, Present
  <1>3. "payments" \in DOMAIN written /\ P # None /\ PaymentsFit(P) /\ cfg.payments = Terms(P)
    BY <1>2, Loaded DEF P
  <1> QED BY <1>2, <1>3 DEF Present, NameTag

-----------------------------------------------------------------------------
(* What is asked of whom.                                                   *)

\* The two properties, as relations of what is asked to the file's payments.
MeetsTerms(p, a) ==
  LET q == a.req
      rl == RailIn(p, q.network)
      price == RuleIn(p, a.path).price
  IN  /\ q.amount * Tens[Len(price.frac)] = Number(price.whole \o price.frac) * Tens[Places(rl)]
      /\ q.asset = rl.asset
      /\ q.payTo = IF rl.payTo # None THEN rl.payTo ELSE p.payTo
      /\ a.echo.amount = q.amount
      /\ a.echo.asset.is = q.asset.is /\ a.echo.payTo.is = q.payTo.is
GoesHome(p, a) ==
  LET home == HomeIn(p, RailIn(p, a.req.network))
  IN  a.of = [base |-> Base(home.facilitator), headers |-> Headers(home.headers)]

LEMMA AskedMeans ==
  /\ AskedIsOffered <=> (asked # Nothing => MeetsTerms(P, asked))
  /\ CredentialsStayHome <=> (asked # Nothing => GoesHome(P, asked))
  /\ AskedIsOffered' <=> (asked' # Nothing => MeetsTerms(P', asked'))
  /\ CredentialsStayHome' <=> (asked' # Nothing => GoesHome(P', asked'))
  <1>1. AskedIsOffered <=> (asked # Nothing => MeetsTerms(P, asked))
    BY DEF AskedIsOffered, MeetsTerms, RailFor, RuleFor, RailIn, RuleIn
  <1>2. CredentialsStayHome <=> (asked # Nothing => GoesHome(P, asked))
    BY DEF CredentialsStayHome, GoesHome, RailFor, RailIn, HomeIn
  <1>3. AskedIsOffered' <=> (asked' # Nothing => MeetsTerms(P', asked'))
    BY DEF AskedIsOffered, MeetsTerms, RailFor, RuleFor, RailIn, RuleIn, P, Nothing,
           SelectInSeq
  <1>4. CredentialsStayHome' <=> (asked' # Nothing => GoesHome(P', asked'))
    BY DEF CredentialsStayHome, GoesHome, RailFor, RailIn, HomeIn, P, Nothing, SelectInSeq
  <1> QED BY <1>1, <1>2, <1>3, <1>4

LEMMA TakenUpMeets ==
  ASSUME NEW f, NEW path, NEW echo, NEW rule, NEW req, NEW a, OnOffer(f, path, echo, rule, req),
         a = [asked |-> TRUE, path |-> path, echo |-> echo, req |-> req,
              of |-> VerifierOf(Terms(f.payments), req.network)]
  PROVE  MeetsTerms(f.payments, a) /\ GoesHome(f.payments, a)
  <1> DEFINE p == f.payments
             rl == RailIn(p, req.network)
             price == RuleIn(p, path).price
  <1>1. /\ RuleIn(p, path) \in Range(p.rules) /\ rl \in Range(p.rails)
        /\ req.amount = ParsePrice(price, Places(rl)) /\ req.amount # 0
        /\ Places(rl) \in 1 .. 36 /\ req.asset = rl.asset
        /\ req.payTo = IF rl.payTo # None THEN rl.payTo ELSE p.payTo
        /\ echo.amount = req.amount /\ echo.asset.is = req.asset.is
        /\ echo.payTo.is = req.payTo.is
        /\ VerifierOf(Terms(p), req.network)
             = [base |-> Base(HomeIn(p, rl).facilitator), headers |-> Headers(HomeIn(p, rl).headers)]
    <2>1. ReadsAs(p, path, echo, req)
      BY TakenUp
    <2> HIDE DEF p
    <2> QED BY <2>1, Zenon DEF ReadsAs
  <1>2. /\ a.req = req /\ a.path = path /\ a.echo = echo
        /\ a.of = VerifierOf(Terms(p), req.network)
    OBVIOUS
  <1> HIDE DEF rl, price
  <1>3. price # None /\ ~ (Len(price.frac) > Places(rl))
    BY <1>1 DEF ParsePrice
  <1>4. price.whole \in Seq(0 .. 9) /\ price.frac \in Seq(0 .. 9)
    <2>1. f \in Files /\ "payments" \in DOMAIN f /\ f.payments # None
      BY Zenon DEF OnOffer
    <2>2. \A r \in Range(p.rules) : r.price # None =>
            r.price.whole \in Seq(0 .. 9) /\ r.price.frac \in Seq(0 .. 9)
      BY <2>1, DeploymentAssumption
    <2> HIDE DEF p
    <2> QED BY <1>1, <1>3, <2>2 DEF price
  <1>5. Len(price.frac) \in Nat /\ Places(rl) \in Nat /\ Len(price.frac) <= Places(rl)
    <2>1. Len(price.frac) \in Nat
      BY <1>4, LenProperties
    <2>2. Places(rl) \in 1 .. 36 /\ ~ (Len(price.frac) > Places(rl))
      BY <1>1, <1>3
    <2>3. \A x \in Nat, y \in 1 .. 36 : ~ (x > y) => y \in Nat /\ x <= y
      OBVIOUS
    <2> QED BY <2>1, <2>2, <2>3, Zenon
  <1>6. ParsePrice(price, Places(rl)) * Tens[Len(price.frac)]
          = Number(price.whole \o price.frac) * Tens[Places(rl)]
    BY <1>3, <1>4, <1>5, PriceIsExact
  <1> HIDE DEF p
  <1>7. MeetsTerms(p, a)
    BY <1>1, <1>2, <1>6 DEF MeetsTerms, rl, price
  <1>8. GoesHome(p, a)
    BY <1>1, <1>2 DEF GoesHome, rl
  <1> QED BY <1>1, <1>7, <1>8 DEF p

LEMMA AskedStep ==
  ASSUME Running, [DeploymentNext]_deploymentVars, AskedIsOffered, CredentialsStayHome
  PROVE  AskedIsOffered' /\ CredentialsStayHome'
  <1>1. ASSUME NEW path, NEW echo, NEW auths, Present(path, echo, auths)
        PROVE  AskedIsOffered' /\ CredentialsStayHome'
    <2>1. P' = P
      BY <1>1, PresentMeetsTheFile DEF P
    <2>2. MeetsTerms(P, asked') /\ GoesHome(P, asked')
      <3> DEFINE rule == RouteOf(Terms(P), path)
                 req == MatchRail(echo, Accepts(Terms(P), rule))
                 a == [asked |-> TRUE, path |-> path, echo |-> echo, req |-> req,
                       of |-> VerifierOf(Terms(P), req.network)]
      <3>1. OnOffer(written, path, echo, rule, req) /\ asked' = a
        BY <1>1, PresentMeetsTheFile, Zenon DEF P, OnOffer
      <3>2. a = [asked |-> TRUE, path |-> path, echo |-> echo, req |-> req,
                 of |-> VerifierOf(Terms(written.payments), req.network)]
        BY Zenon DEF P
      <3> HIDE DEF rule, req, a
      <3>3. MeetsTerms(written.payments, a) /\ GoesHome(written.payments, a)
        BY ONLY <3>1, <3>2, TakenUpMeets
      <3> QED BY <3>1, <3>3, Zenon DEF P
    <2> QED BY <2>1, <2>2, AskedMeans
  <1>2. ASSUME asked' = Nothing PROVE AskedIsOffered' /\ CredentialsStayHome'
    BY <1>2, AskedMeans DEF Nothing
  <1>3. CASE UNCHANGED deploymentVars
    BY <1>3, AskedMeans DEF deploymentVars, P, Nothing
  <1> QED BY <1>1, <1>2, <1>3 DEF DeploymentNext, Deploy, Run

LEMMA AskedInit == DeploymentInit => AskedIsOffered /\ CredentialsStayHome
  BY AskedMeans DEF DeploymentInit

Asking == Running /\ AskedIsOffered /\ CredentialsStayHome

\* The process runs on what its file and the environment come to, and asks for what
\* the file says of whom the file says: the inductive invariant of the two below.
THEOREM AskingHolds == DeploymentSpec => []Asking
  <1>1. DeploymentInit => Asking
    BY RunningInit, AskedInit DEF Asking
  <1>2. Asking /\ [DeploymentNext]_deploymentVars => Asking'
    BY RunningStep, AskedStep DEF Asking
  <1> QED BY <1>1, <1>2, PTL DEF DeploymentSpec

\* AskedIsOffered: whatever is deployed when, the facilitator is asked for the price
\* the running file writes, to the last digit of the token's, and for a client who
\* said so.
THEOREM AskedAsWritten == DeploymentSpec => []AskedIsOffered
  <1>1. Asking => AskedIsOffered
    BY DEF Asking
  <1> QED BY <1>1, AskingHolds, PTL

\* CredentialsStayHome: no credential is sent to a facilitator but its own.
THEOREM CredentialsAreKept == DeploymentSpec => []CredentialsStayHome
  <1>1. Asking => CredentialsStayHome
    BY DEF Asking
  <1> QED BY <1>1, AskingHolds, PTL

-----------------------------------------------------------------------------
(* What a payment is called.                                                *)

\* A name has in it what the chain goes by, in one spelling.
NameOf(m, n, a, from, nonce) ==
  [scheme |-> "exact", network |-> n, asset |-> a, key |-> AuthKeyFor(m), from |-> from, nonce |-> nonce]

Naming ==
  \A x \in named : x.plain =>
    \E m \in {"eip3009", "permit2"} : \E n, a, from, nonce :
      x.id = NameOf(m, n, a, from, nonce) /\ x.spends = <<n, a, m, from, nonce>>

\* An object whose keys are spelled as the fields are is read alike by everyone.
LEMMA ReadAlike ==
  ASSUME NEW object, NEW field, Plain(object)
  PROVE  AsSpelled(object, field) = Decoded(object, field)
  <1>1. {i \in 1 .. Len(object) : object[i].key = field /\ object[i].exact}
          = {i \in 1 .. Len(object) : object[i].key = field}
    BY DEF Plain
  <1> QED BY <1>1 DEF AsSpelled, Decoded, SelectLastInSeq

LEMMA NamedOnce ==
  ASSUME NEW body, NEW req, req.scheme = "exact", ID(body, req) # None, PlainKeys(body)
  PROVE  \E from, nonce :
         /\ ID(body, req) = NameOf(req.method, req.network, req.asset.is, from, nonce)
         /\ Spends(body, req) = <<req.network, req.asset.is, req.method, from, nonce>>
  <1> DEFINE key == AuthKeyFor(req.method)
             auths == Decoded(body, "payload")
             auth == auths[key]
             from == Decoded(auth, "from")
             nonce == Decoded(auth, "nonce")
  <1>1. auths # None /\ DOMAIN auths = {key} /\ ID(body, req) = Named(req, key, auth)
    BY DEF ID
  <1>2. AsSpelled(body, "payload") = auths
    BY ReadAlike DEF PlainKeys
  <1>3. Plain(auth)
    BY <1>1 DEF PlainKeys
  <1>4. AsSpelled(auth, "from") = from /\ AsSpelled(auth, "nonce") = nonce
    BY <1>3, ReadAlike
  <1>5. /\ from # None /\ nonce # None /\ Canonical(nonce) # None
        /\ ID(body, req) = [scheme |-> req.scheme, network |-> req.network, asset |-> req.asset.is,
                            key |-> key, from |-> from.is, nonce |-> Canonical(nonce)]
    BY <1>1 DEF Named
  <1>6. Canonical(nonce) = nonce.is
    BY <1>5 DEF Canonical
  <1>7. Spends(body, req) = <<req.network, req.asset.is, req.method, from.is, nonce.is>>
    BY <1>1, <1>2, <1>4, <1>5 DEF Spends
  <1>8. ID(body, req) = NameOf(req.method, req.network, req.asset.is, from.is, nonce.is)
    BY <1>5, <1>6 DEF NameOf
  <1> QED BY <1>7, <1>8

LEMMA NamingStep == Running /\ Naming /\ [DeploymentNext]_deploymentVars => Naming'
  <1> SUFFICES ASSUME Running, Naming, [DeploymentNext]_deploymentVars PROVE Naming'
    OBVIOUS
  <1>1. ASSUME NEW path, NEW echo, NEW body, Present(path, echo, body) PROVE Naming'
    <2> DEFINE rule == RouteOf(Terms(P), path)
               req == MatchRail(echo, Accepts(Terms(P), rule))
               new == NameTag(body, req)
    <2>1. /\ written \in Files /\ "payments" \in DOMAIN written /\ P # None /\ PaymentsFit(P)
          /\ rule # None /\ req # None /\ ID(body, req) # None /\ named' = named \cup {new}
      BY <1>1, PresentMeetsTheFile
    <2>2. req.scheme = "exact" /\ req.method \in {"eip3009", "permit2"}
      <3>1. OnOffer(written, path, echo, rule, req)
        BY <2>1, Zenon DEF P, OnOffer
      <3> HIDE DEF rule, req, new
      <3> QED BY ONLY <3>1, TakenUp
    <2> HIDE DEF rule, req
    <2>3. new.plain => \E n, a, from, nonce :
            new.id = NameOf(req.method, n, a, from, nonce) /\ new.spends = <<n, a, req.method, from, nonce>>
      <3>1. /\ new.id = ID(body, req) /\ new.spends = Spends(body, req)
            /\ new.plain = PlainKeys(body)
        BY DEF NameTag
      <3> HIDE DEF new
      <3> QED BY <2>1, <2>2, <3>1, NamedOnce, Zenon
    <2> HIDE DEF new
    <2> QED BY <2>1, <2>2, <2>3 DEF Naming
  <1>2. ASSUME named' = named PROVE Naming'
    BY <1>2 DEF Naming
  <1> QED BY <1>1, <1>2 DEF DeploymentNext, Deploy, Run, deploymentVars

\* OneSpendOneName: payments whose keys are spelled as the field names are have one name
\* if and only if the chain can spend one of them, across spellings of the values, orders
\* and repetitions of the members, payloads and deployments.
THEOREM NamesAreExact == DeploymentSpec => []OneSpendOneName
  <1>1. DeploymentInit => Naming
    BY DEF DeploymentInit, Naming
  <1>2. DeploymentSpec => []Naming
    <2>1. Asking => Running
      BY DEF Asking
    <2> QED BY <1>1, <2>1, AskingHolds, NamingStep, PTL DEF DeploymentSpec
  <1>3. Naming => OneSpendOneName
    <2> SUFFICES ASSUME Naming, NEW x \in named, NEW y \in named, x.plain, y.plain
                 PROVE  x.id = y.id <=> x.spends = y.spends
      BY DEF OneSpendOneName
    <2>1. PICK m, n, a, from, nonce :
            /\ m \in {"eip3009", "permit2"}
            /\ x.id = NameOf(m, n, a, from, nonce) /\ x.spends = <<n, a, m, from, nonce>>
      BY DEF Naming
    <2>2. PICK mm, nn, aa, ffrom, nnonce :
            /\ mm \in {"eip3009", "permit2"}
            /\ y.id = NameOf(mm, nn, aa, ffrom, nnonce) /\ y.spends = <<nn, aa, mm, ffrom, nnonce>>
      BY DEF Naming
    <2>3. AuthKeyFor(m) = AuthKeyFor(mm) <=> m = mm
      BY <2>1, <2>2 DEF AuthKeyFor
    <2>4. x.id = y.id <=> n = nn /\ a = aa /\ AuthKeyFor(m) = AuthKeyFor(mm) /\ from = ffrom /\ nonce = nnonce
      BY <2>1, <2>2 DEF NameOf
    <2>5. x.spends = y.spends <=> n = nn /\ a = aa /\ m = mm /\ from = ffrom /\ nonce = nnonce
      BY <2>1, <2>2
    <2> QED BY <2>3, <2>4, <2>5
  <1> QED BY <1>2, <1>3, PTL

-----------------------------------------------------------------------------
(* The life of a process.  Each accept loop has room in errCh for its one     *)
(* error, and each step the process takes by itself brings it nearer its end. *)

One(s) == IF s \in serving THEN 1 ELSE 0

LifeInv ==
  /\ errs \in Nat /\ grace \in Nat /\ serving \subseteq Server
  /\ errs + One("admin") + One("gate") <= 2
  /\ stage \in {"off", "loaded", "bound"} => errs = 0 /\ serving = {}
  /\ stage \in {"off", "loaded", "bound", "serving", "watching", "drain admin", "drain gate"}
  /\ stage # "off" => cfg.grace \in Nat

\* How many steps of its own a process has left at most, the drain's time among them.
ToGo ==
  IF stage = "off" THEN 0
  ELSE IF stage = "drain gate" THEN 1 + grace
  ELSE IF stage = "drain admin" THEN 2 + grace
  ELSE cfg.grace + (IF stage = "watching" THEN 3
                    ELSE IF stage = "serving" THEN 4
                    ELSE IF stage = "bound" THEN 5 ELSE 6)

MarchesOn == (Runs => ToGo' < ToGo) /\ (stage # "off" => ToGo' <= ToGo)

LEMMA GraceFits == ASSUME NEW c, Fits(c) PROVE c.grace \in 1 .. 3600
  BY SMT DEF Fits

\* The grace of a configuration that was accepted.
LEMMA GraceIs ==
  ASSUME NEW f, NEW e, Load(f, e) # None
  PROVE  Load(f, e).grace \in Nat
  <1> DEFINE c == Layered(f, e)
             full == [c EXCEPT !.keys = IF @ = {} THEN {[kid |-> "auto", bytes |-> 32]} ELSE @,
                               !.payments = IF @ = None THEN None ELSE Terms(@),
                               !.activity = IF @ = None THEN None ELSE Activity(@)]
  <1>1. Fits(c) /\ Load(f, e) = full
    BY DEF Load
  <1> HIDE DEF c
  <1>2. full.grace = c.grace
    OBVIOUS
  <1> HIDE DEF full
  <1> DEFINE Allowed == 1 .. 3600
  <1>3. c.grace \in Allowed
    <2>1. Fits(c)
      BY <1>1, Zenon
    <2> QED BY <2>1, GraceFits
  <1>4. Allowed \subseteq Nat
    OBVIOUS
  <1> HIDE DEF Allowed
  <1>5. c.grace \in Nat
    BY <1>3, <1>4, Zenon
  <1>6. Load(f, e).grace = c.grace
    BY <1>1, <1>2
  <1> QED BY <1>5, <1>6, Zenon

\* What is left, stage by stage.
LEMMA WhatIsLeft ==
  /\ stage = "off" => ToGo = 0
  /\ stage = "drain gate" => ToGo = 1 + grace
  /\ stage = "drain admin" => ToGo = 2 + grace
  /\ stage = "watching" => ToGo = cfg.grace + 3
  /\ stage = "serving" => ToGo = cfg.grace + 4
  /\ stage = "bound" => ToGo = cfg.grace + 5
  /\ stage = "loaded" => ToGo = cfg.grace + 6
  BY DEF ToGo

LEMMA LeftIsNatural == LifeInv => ToGo \in Nat /\ (stage # "off" => ToGo > 0)
  <1> SUFFICES ASSUME LifeInv PROVE ToGo \in Nat /\ (stage # "off" => ToGo > 0)
    OBVIOUS
  <1>1. /\ grace \in Nat /\ (stage # "off" => cfg.grace \in Nat)
        /\ stage \in {"off", "loaded", "bound", "serving", "watching", "drain admin", "drain gate"}
    BY DEF LifeInv
  <1>2. CASE stage = "off"
    BY <1>2, WhatIsLeft
  <1>3. CASE stage # "off"
    <2>1. \/ ToGo = 1 + grace \/ ToGo = 2 + grace \/ ToGo = cfg.grace + 3
          \/ ToGo = cfg.grace + 4 \/ ToGo = cfg.grace + 5 \/ ToGo = cfg.grace + 6
      BY <1>1, <1>3, WhatIsLeft
    <2>2. \A g \in Nat :
            /\ 1 + g \in Nat /\ 2 + g \in Nat /\ g + 3 \in Nat /\ g + 4 \in Nat
            /\ g + 5 \in Nat /\ g + 6 \in Nat
            /\ 1 + g > 0 /\ 2 + g > 0 /\ g + 3 > 0 /\ g + 4 > 0 /\ g + 5 > 0 /\ g + 6 > 0
      OBVIOUS
    <2> QED BY <1>1, <1>3, <2>1, <2>2, Zenon
  <1> QED BY <1>2, <1>3

LEMMA EndsInv ==
  ASSUME NEW how, Ends(how)
  PROVE  LifeInv' /\ ToGo' = 0
  BY DEF Ends, LifeInv, One, ToGo, Server

LEMMA StepInv ==
  ASSUME LifeInv, [DeploymentNext]_deploymentVars
  PROVE  LifeInv' /\ (deploymentVars' # deploymentVars => MarchesOn)
  <1>0. /\ errs \in Nat /\ grace \in Nat /\ ToGo \in Nat /\ (stage # "off" => ToGo > 0)
        /\ One("admin") \in {0, 1} /\ One("gate") \in {0, 1}
    BY LeftIsNatural DEF LifeInv, One
  <1>a. (LifeInv => ToGo \in Nat)'
    BY LeftIsNatural, PTL
  <1>b. ASSUME LifeInv', ToGo' < ToGo PROVE LifeInv' /\ MarchesOn
    BY <1>0, <1>a, <1>b DEF MarchesOn
  <1>c. ASSUME serving' \subseteq serving, errs' = errs
        PROVE  errs' + One("admin")' + One("gate")' <= 2
    <2>2. One("admin")' \in {0, 1} /\ One("gate")' \in {0, 1}
      BY DEF One
    <2>3. (One("admin") = 0 => One("admin")' = 0) /\ (One("gate") = 0 => One("gate")' = 0)
      BY <1>c DEF One
    <2>4. errs + One("admin") + One("gate") <= 2
      BY DEF LifeInv
    <2> HIDE DEF One
    <2> QED BY <1>0, <1>c, <2>2, <2>3, <2>4
  <1>1. ASSUME NEW how, Ends(how), stage # "off" PROVE LifeInv' /\ MarchesOn
    BY <1>0, <1>1, EndsInv DEF MarchesOn
  <1>2. ASSUME stage = "off", LifeInv' PROVE LifeInv' /\ MarchesOn
    BY <1>2 DEF MarchesOn, Runs, Bind, Serve, Watch, Fail, Stop, AdminDown, GateDown, Elapse
  <1>3. ASSUME NEW f \in Files, Deploy(f) PROVE LifeInv' /\ MarchesOn
    <2>1. stage = "off" /\ Start(Load(f, Env))
      BY <1>3 DEF Deploy, Start
    <2>2. ASSUME Ends("error") PROVE LifeInv'
      BY <2>2, EndsInv
    <2>3. ASSUME Load(f, Env) # Off, cfg' = Load(f, Env), stage' = "loaded",
                 UNCHANGED <<serving, errs, grace>>
          PROVE  LifeInv'
      <3>1. cfg'.grace \in Nat
        BY <2>3, GraceIs, DeploymentAssumption
      <3> QED BY <2>1, <2>3, <3>1 DEF LifeInv, One
    <2> QED BY <1>2, <2>1, <2>2, <2>3 DEF Start
  <1>4. ASSUME Bind PROVE LifeInv' /\ MarchesOn
    <2>1. stage = "loaded"
      BY <1>4 DEF Bind
    <2>2. ASSUME stage' = "bound", UNCHANGED <<cfg, serving, errs, grace>> PROVE LifeInv' /\ MarchesOn
      BY <2>1, <2>2 DEF LifeInv, One, MarchesOn, ToGo
    <2> QED BY <1>1, <1>4, <2>1, <2>2 DEF Bind, Exit
  <1>5. ASSUME Serve PROVE LifeInv' /\ MarchesOn
    <2>1. /\ stage = "bound" /\ stage' = "serving" /\ UNCHANGED <<cfg, errs, grace>>
          /\ serving' \subseteq Server /\ errs = 0 /\ cfg.grace \in Nat
      BY <1>5 DEF Serve, LifeInv, Server
    <2> QED BY <1>0, <2>1 DEF LifeInv, One, MarchesOn, ToGo
  <1>6. ASSUME Watch PROVE LifeInv' /\ MarchesOn
    BY <1>6 DEF Watch, LifeInv, One, MarchesOn, ToGo
  <1>7. ASSUME Fail PROVE LifeInv' /\ MarchesOn
    BY <1>1, <1>7 DEF Fail, Exit
  <1>8. ASSUME Stop PROVE LifeInv' /\ MarchesOn
    <2>1. /\ stage = "watching" /\ stage' \in {"drain gate", "drain admin"}
          /\ grace' = cfg.grace /\ UNCHANGED <<cfg, errs>> /\ serving' \subseteq serving
          /\ cfg.grace \in Nat
      BY <1>8 DEF Stop, LifeInv
    <2>2. LifeInv'
      BY <1>0, <1>c, <2>1 DEF LifeInv
    <2>3. ToGo = cfg.grace + 3 /\ ToGo' \in {1 + cfg.grace, 2 + cfg.grace}
      BY <2>1 DEF ToGo
    <2>4. \A g \in Nat : 1 + g < g + 3 /\ 2 + g < g + 3
      OBVIOUS
    <2>5. ToGo' = 1 + cfg.grace \/ ToGo' = 2 + cfg.grace
      BY <2>3
    <2>6. ToGo' < ToGo
      BY <2>1, <2>3, <2>4, <2>5, Zenon
    <2> QED BY <1>b, <2>2, <2>6
  <1>9. ASSUME AdminDown PROVE LifeInv' /\ MarchesOn
    <2>1. /\ stage = "drain admin" /\ stage' = "drain gate" /\ UNCHANGED <<cfg, errs, grace>>
          /\ serving' \subseteq serving
      BY <1>9 DEF AdminDown
    <2>2. LifeInv'
      BY <1>0, <1>c, <2>1 DEF LifeInv
    <2>3. ToGo = 2 + grace /\ ToGo' = 1 + grace
      BY <2>1 DEF ToGo
    <2>4. ToGo' < ToGo
      BY <1>0, <2>3
    <2> QED BY <1>b, <2>2, <2>4
  <1>10. ASSUME GateDown PROVE LifeInv' /\ MarchesOn
    BY <1>1, <1>10 DEF GateDown, Exit
  <1>11. ASSUME Elapse PROVE LifeInv' /\ MarchesOn
    <2>1. /\ stage \in {"drain admin", "drain gate"} /\ grace > 0 /\ grace' = grace - 1
          /\ UNCHANGED <<cfg, stage, serving, errs>>
      BY <1>11 DEF Elapse
    <2>2. LifeInv'
      <3>1. \A g \in Nat : g > 0 => g - 1 \in Nat
        OBVIOUS
      <3>2. grace' \in Nat
        BY <1>0, <2>1, <3>1, Zenon
      <3> QED BY <1>c, <2>1, <3>2 DEF LifeInv
    <2>3. \/ ToGo = 2 + grace /\ ToGo' = 2 + grace'
          \/ ToGo = 1 + grace /\ ToGo' = 1 + grace'
      BY <2>1 DEF ToGo
    <2>4. \A g \in Nat : 2 + (g - 1) < 2 + g /\ 1 + (g - 1) < 1 + g
      OBVIOUS
    <2>5. ToGo' < ToGo
      BY <1>0, <2>1, <2>3, <2>4, Zenon
    <2> QED BY <1>b, <2>2, <2>5
  \* A step of the world's.
  <1>12. ASSUME UNCHANGED <<cfg, stage, grace>>, LifeInv' PROVE LifeInv' /\ MarchesOn
    <2>1. ToGo' = ToGo
      BY <1>12 DEF ToGo
    <2>2. ~ Runs
      <3>1. Runs => stage' # stage \/ grace' # grace
        <4>1. ~ Elapse /\ Runs => stage' # stage
          BY DEF Runs, Bind, Serve, Watch, Fail, Stop, AdminDown, GateDown, Exit, Ends
        <4>2. \A g \in Nat : g - 1 # g
          OBVIOUS
        <4>3. Elapse => grace' # grace
          BY <1>0, <4>2, Zenon DEF Elapse
        <4> QED BY <4>1, <4>3
      <3> QED BY <1>12, <3>1
    <2> QED BY <1>0, <1>12, <2>1, <2>2 DEF MarchesOn
  <1>13. ASSUME Signal PROVE LifeInv' /\ MarchesOn
    <2>1. ASSUME UNCHANGED <<stage, cfg, serving, errs, grace>> PROVE LifeInv' /\ MarchesOn
      BY <1>12, <2>1 DEF LifeInv, One
    <2> QED BY <1>1, <1>13, <2>1 DEF Signal, Exit
  <1>14. ASSUME NEW s \in Server, ServeFails(s) PROVE LifeInv' /\ MarchesOn
    <2>1. /\ s \in serving /\ serving' = serving \ {s} /\ errs' = errs + 1
          /\ UNCHANGED <<cfg, stage, grace>> /\ s \in {"admin", "gate"}
      BY <1>14 DEF ServeFails, Server
    <2>2. One("admin")' + One("gate")' = One("admin") + One("gate") - 1
      BY <2>1 DEF One
    <2>3. errs' + One("admin")' + One("gate")' <= 2 /\ errs' \in Nat
      <3>1. One("admin")' \in {0, 1} /\ One("gate")' \in {0, 1}
        BY DEF One
      <3>2. errs + One("admin") + One("gate") <= 2
        BY DEF LifeInv
      <3> HIDE DEF One
      <3> QED BY <1>0, <2>1, <2>2, <3>1, <3>2
    <2>4. stage \notin {"off", "loaded", "bound"}
      BY <2>1 DEF LifeInv
    <2>5. LifeInv'
      BY <2>1, <2>3, <2>4 DEF LifeInv
    <2> QED BY <1>12, <2>1, <2>5
  <1>15. ASSUME UNCHANGED <<cfg, stage, grace, serving, errs>> PROVE LifeInv' /\ MarchesOn
    <2>1. LifeInv'
      BY <1>15 DEF LifeInv, One
    <2> QED BY <1>12, <1>15, <2>1
  <1>16. ASSUME NEW s \in Server, Connect(s) \/ Finish(s) PROVE LifeInv' /\ MarchesOn
    BY <1>15, <1>16 DEF Connect, Finish
  <1>17. ASSUME Run PROVE LifeInv' /\ MarchesOn
    BY <1>17, <1>4, <1>5, <1>6, <1>7, <1>8, <1>9, <1>10, <1>11, <1>13, <1>14, <1>16
       DEF Run, LifeStep, Runs
  <1>18. ASSUME NEW path, NEW echo, NEW auths, Present(path, echo, auths)
         PROVE  LifeInv' /\ MarchesOn
    BY <1>15, <1>18 DEF Present, lifeVars, process
  <1>19. CASE UNCHANGED deploymentVars
    BY <1>15, <1>19 DEF deploymentVars, lifeVars, process
  <1> QED BY <1>3, <1>17, <1>18, <1>19 DEF DeploymentNext

LEMMA LifeHolds == DeploymentSpec => []LifeInv
  <1>1. DeploymentInit => LifeInv
    BY DEF DeploymentInit, LifeInit, LifeInv, One
  <1>2. LifeInv /\ [DeploymentNext]_deploymentVars => LifeInv'
    BY StepInv
  <1> QED BY <1>1, <1>2, PTL DEF DeploymentSpec

\* "A Serve goroutine must never block on this channel": a loop that still accepts finds
\* room in errCh for the error it may end with (main.go run).
THEOREM ListenersNeverBlock == DeploymentSpec => [](\A s \in serving : errs < 2)
  <1>1. LifeInv => \A s \in serving : errs < 2
    <2> SUFFICES ASSUME LifeInv, NEW s \in serving PROVE errs < 2
      OBVIOUS
    <2>1. s \in {"admin", "gate"} /\ errs \in Nat /\ errs + One("admin") + One("gate") <= 2
      BY DEF LifeInv, Server
    <2>2. One("admin") \in {0, 1} /\ One("gate") \in {0, 1} /\ (One("admin") = 1 \/ One("gate") = 1)
      BY <2>1 DEF One
    <2> QED BY <2>1, <2>2
  <1> QED BY <1>1, LifeHolds, PTL

\* A process only gets nearer to its end: every step of its own, or of its clock, takes
\* one from what is left, and no step of the world's (a connection, a failing listener,
\* another signal) adds to it.  A drain is therefore over within its grace and two steps,
\* for any grace and any connections: what StopsWhenAsked rests on (main.go run).
THEOREM ProcessesMarchOn ==
  DeploymentSpec => [](ToGo \in Nat) /\ [][MarchesOn]_deploymentVars
  <1>1. LifeInv => ToGo \in Nat
    BY LeftIsNatural
  <1>2. LifeInv /\ [DeploymentNext]_deploymentVars => [MarchesOn]_deploymentVars
    BY StepInv
  <1> QED BY <1>1, <1>2, LifeHolds, PTL DEF DeploymentSpec
-----------------------------------------------------------------------------
(* What the rest of the gate takes for granted of its configuration: a pass  *)
(* lives and a session outlives it (PassChain's assumption), something signs *)
(* it, and a payment asked for is never nothing, never to nobody's address   *)
(* and never entrusted to a facilitator over a wire anyone reads.            *)

Fair(t) ==
  /\ t.rails # <<>> /\ t.timeout > 0
  /\ \A i, j \in DOMAIN t.rails : t.rails[i].network = t.rails[j].network => i = j
  /\ \A i \in DOMAIN t.rails :
       LET rl == t.rails[i] IN
       /\ rl.payTo # None /\ (FamilyOf[rl.network] = "eip155" => rl.payTo.is \in Evm)
       /\ FacilitatorFits(rl.facilitator) /\ DOMAIN rl.headers \cap Reserved = {}
       /\ \A j \in DOMAIN t.rules : t.rules[j].atomic[rl.network] # 0

Dependable(c) ==
  /\ c.keys # {} /\ \A k \in c.keys : k.bytes >= 16
  /\ c.passTTL >= 1 /\ c.maxSession >= c.passTTL
  /\ c.payments # None => Fair(c.payments)

\* The fields of a configuration, before and after Load fills in its three.
LEMMA LoadedFields ==
  ASSUME NEW f, NEW e, Load(f, e) # None
  PROVE  LET c == Layered(f, e)
             full == Load(f, e)
         IN  /\ Fits(c)
             /\ full.passTTL = c.passTTL /\ full.maxSession = c.maxSession
             /\ full.keys = IF c.keys = {} THEN {[kid |-> "auto", bytes |-> 32]} ELSE c.keys
  <1> DEFINE c == Layered(f, e)
             full == [c EXCEPT !.keys = IF @ = {} THEN {[kid |-> "auto", bytes |-> 32]} ELSE @,
                               !.payments = IF @ = None THEN None ELSE Terms(@),
                               !.activity = IF @ = None THEN None ELSE Activity(@)]
  <1>1. Fits(c) /\ Load(f, e) = full
    BY DEF Load
  <1>2. "keys" \in DOMAIN c
    BY DEF Layered, Defaults
  <1> HIDE DEF c
  <1>3. /\ full.passTTL = c.passTTL /\ full.maxSession = c.maxSession
        /\ full.keys = IF c.keys = {} THEN {[kid |-> "auto", bytes |-> 32]} ELSE c.keys
    BY <1>2
  <1> HIDE DEF full
  <1> QED BY <1>1, <1>3 DEF c

\* The one price a rail is looked up by is its own.
LEMMA PriceFound ==
  ASSUME NEW f \in Files, "payments" \in DOMAIN f, f.payments # None, PaymentsFit(f.payments),
         NEW i \in DOMAIN f.payments.rails, NEW j \in DOMAIN f.payments.rules
  PROVE  LET t == Terms(f.payments) IN t.rules[j].atomic[t.rails[i].network] # 0
  <1> DEFINE p == f.payments
             t == Terms(p)
             n == t.rails[i].network
             T == {k \in 1 .. Len(t.rails) : t.rails[k].network = n}
  <1>1. /\ DOMAIN p.rails = 1 .. Len(p.rails) /\ Len(t.rails) = Len(p.rails) /\ Len(p.rails) \in Nat
        /\ DOMAIN t.rails = DOMAIN p.rails
        /\ \A k \in DOMAIN p.rails : /\ p.rails[k] = [key \in RailKeys |-> p.rails[k][key]]
                                     /\ t.rails[k] = Resolved(p, Filled(p.rails[k]))
        /\ \A k, l \in DOMAIN p.rails : p.rails[k].network = p.rails[l].network => k = l
        /\ t.rules[j].atomic = [m \in {rl.network : rl \in Range(t.rails)} |->
             ParsePrice(p.rules[j].price,
                        t.rails[SelectInSeq(t.rails, LAMBDA rl : rl.network = m)].decimals)]
        /\ ParsePrice(p.rules[j].price, Filled(p.rails[i]).decimals) # 0
    <2>1. TermsRead(p, t) /\ i \in DOMAIN p.rails /\ j \in DOMAIN p.rules
      BY TermsAre
    <2> HIDE DEF p, t
    <2>2. t.rules[j] = RuleTerms(p.rules[j], t.rails)
      BY <2>1, Zenon DEF TermsRead
    <2>3. t.rules[j].atomic = [m \in {rl.network : rl \in Range(t.rails)} |->
             ParsePrice(p.rules[j].price,
                        t.rails[SelectInSeq(t.rails, LAMBDA rl : rl.network = m)].decimals)]
      BY <2>2 DEF RuleTerms
    <2> QED BY <2>1, <2>3, Zenon DEF TermsRead
  <1> HIDE DEF p, t
  <1>2. ASSUME NEW k \in DOMAIN p.rails
        PROVE  /\ t.rails[k].network = p.rails[k].network
               /\ t.rails[k].decimals = Filled(p.rails[k]).decimals
    <2> DEFINE rl == p.rails[k]
    <2>1. rl = [key \in RailKeys |-> rl[key]] /\ t.rails[k] = Resolved(p, Filled(rl))
      BY <1>1
    <2> HIDE DEF rl
    <2>2. /\ Resolved(p, Filled(rl)).network = rl.network
          /\ Resolved(p, Filled(rl)).decimals = Places(rl) /\ Filled(rl).decimals = Places(rl)
      BY <2>1, RailIs
    <2> QED BY <2>1, <2>2 DEF rl
  <1>3. i \in DOMAIN p.rails
    BY DEF p
  <1>4. T = {i} /\ Min(T) = i
    <2>1. \A k, l \in DOMAIN t.rails : t.rails[k].network = t.rails[l].network => k = l
      BY <1>1, <1>2
    <2>2. Len(t.rails) \in Nat /\ DOMAIN t.rails = 1 .. Len(t.rails) /\ i \in DOMAIN t.rails
      BY <1>1, <1>3
    <2> DEFINE all == t.rails
    <2> HIDE DEF all
    <2>3. /\ {k \in 1 .. Len(all) : all[k].network = all[i].network} = {i} /\ Min({i}) = i
      <3>1. Railed(all) /\ i \in DOMAIN all
        BY <2>1, <2>2 DEF all, Railed
      <3> QED BY <3>1, RailFound
    <2> QED BY <2>3 DEF all
  <1>5. SelectInSeq(t.rails, LAMBDA rl : rl.network = n) = i
    BY <1>4 DEF SelectInSeq
  <1>6. n \in {rl.network : rl \in Range(t.rails)}
    BY <1>1, <1>3 DEF Range
  <1>7. t.rules[j].atomic[n] = ParsePrice(p.rules[j].price, t.rails[i].decimals)
    BY <1>1, <1>5, <1>6
  <1> QED BY <1>1, <1>2, <1>3, <1>7 DEF t, p

LEMMA TermsAreFair ==
  ASSUME NEW f \in Files, "payments" \in DOMAIN f, f.payments # None, PaymentsFit(f.payments)
  PROVE  Fair(Terms(f.payments))
  <1> DEFINE p == f.payments
             t == Terms(p)
             rails == FilledRails(p)
  <1>1. /\ Len(p.rails) \in Nat /\ DOMAIN p.rails = 1 .. Len(p.rails)
        /\ Len(t.rails) = Len(p.rails) /\ DOMAIN t.rails = DOMAIN p.rails
        /\ DOMAIN t.rules = DOMAIN p.rules
        /\ \A k \in DOMAIN p.rails : /\ p.rails[k] = [key \in RailKeys |-> p.rails[k][key]]
                                     /\ t.rails[k] = Resolved(p, Filled(p.rails[k]))
                                     /\ RailFits(Filled(p.rails[k]))
        /\ \A k, l \in DOMAIN p.rails : p.rails[k].network = p.rails[l].network => k = l
    <2>1. TermsRead(p, t)
      BY TermsAre
    <2> HIDE DEF p, t
    <2> QED BY <2>1, Zenon DEF TermsRead
  <1>2. \A i \in DOMAIN p.rails, j \in DOMAIN p.rules : t.rules[j].atomic[t.rails[i].network] # 0
    BY PriceFound
  <1>3. /\ p.payTo # None /\ PayToFits(p.payTo, rails) /\ rails # <<>>
        /\ p.facilitator # None /\ FacilitatorFits(p.facilitator) /\ HeadersFit(p.headers)
    <2>1. DefaultsFit(p, rails) /\ RailsFit(rails)
      BY DEF PaymentsFit
    <2> HIDE DEF rails, t, p
    <2> QED BY <2>1 DEF DefaultsFit, RailsFit
  <1>4. t.timeout > 0
    <2>1. TimeoutFits(p.timeout)
      BY DEF PaymentsFit
    <2>2. t.timeout = IF p.timeout = 0 THEN 300 ELSE p.timeout
      BY DEF Terms
    <2>3. \A x : TimeoutFits(x) => x = 0 \/ x > 0
      BY DEF TimeoutFits
    <2>4. 300 > 0
      OBVIOUS
    <2> HIDE DEF t, p
    <2> QED BY <2>1, <2>2, <2>3, <2>4, Zenon
  <1> HIDE DEF p, t
  <1>5. DOMAIN rails = DOMAIN p.rails /\ \A i \in DOMAIN p.rails : rails[i] = Filled(p.rails[i])
    BY DEF FilledRails
  <1> HIDE DEF rails
  <1>6. t.rails # <<>>
    <2>1. DOMAIN p.rails # {}
      BY <1>1, <1>3, <1>5
    <2> QED BY <1>1, <2>1
  <1>7. ASSUME NEW i \in DOMAIN t.rails
        PROVE  /\ t.rails[i].payTo # None
               /\ FamilyOf[t.rails[i].network] = "eip155" => t.rails[i].payTo.is \in Evm
               /\ FacilitatorFits(t.rails[i].facilitator)
               /\ DOMAIN t.rails[i].headers \cap Reserved = {}
    <2> DEFINE rl == p.rails[i]
               g == Filled(rl)
               tl == t.rails[i]
    <2>1. rl = [key \in RailKeys |-> rl[key]] /\ tl = Resolved(p, g) /\ RailFits(g) /\ rails[i] = g
      BY <1>1, <1>5
    <2>2. /\ tl.network = rl.network /\ g.network = rl.network
          /\ tl.payTo = IF rl.payTo # None THEN rl.payTo ELSE p.payTo
          /\ tl.facilitator = (IF rl.facilitator # None THEN rl ELSE p).facilitator
          /\ tl.headers = Headers((IF rl.facilitator # None THEN rl ELSE p).headers)
      <3> HIDE DEF rl, tl
      <3> QED BY <2>1, RailIs
    <2>3. g.payTo = rl.payTo /\ g.facilitator = rl.facilitator /\ g.headers = rl.headers
      <3> HIDE DEF rl
      <3> QED BY <2>1 DEF Filled, RailKeys
    <2>4. rails[i] \in Range(rails) /\ g \in Range(<<g>>)
      BY <1>1, <1>5 DEF Range
    <2> HIDE DEF rl, g, tl
    <2>5. tl.payTo # None
      BY <1>3, <2>2
    <2>6. FamilyOf[tl.network] = "eip155" => tl.payTo.is \in Evm
      <3>1. rl.payTo # None /\ FamilyOf[g.network] = "eip155" => rl.payTo.is \in Evm
        BY <2>1, <2>3, <2>4 DEF RailFits, PayToFits
      <3>2. FamilyOf[g.network] = "eip155" => p.payTo.is \in Evm
        BY <1>3, <2>1, <2>4 DEF PayToFits
      <3> QED BY <2>2, <3>1, <3>2
    <2>7. FacilitatorFits(tl.facilitator)
      <3>1. rl.facilitator # None => FacilitatorFits(rl.facilitator)
        BY <2>1, <2>3 DEF RailFits
      <3> QED BY <1>3, <2>2, <3>1, Zenon
    <2>8. DOMAIN tl.headers \cap Reserved = {}
      <3>1. ASSUME NEW list, HeadersFit(list) PROVE DOMAIN Headers(list) \cap Reserved = {}
        BY <3>1 DEF HeadersFit, Headers
      <3>2. rl.facilitator # None => HeadersFit(rl.headers)
        BY <2>1, <2>3 DEF RailFits
      <3> QED BY <1>3, <2>2, <3>1, <3>2, Zenon
    <2> QED BY <2>5, <2>6, <2>7, <2>8 DEF tl
  <1>8. \A k, l \in DOMAIN t.rails : t.rails[k].network = t.rails[l].network => k = l
    <2>1. ASSUME NEW k \in DOMAIN p.rails PROVE t.rails[k].network = p.rails[k].network
      <3> DEFINE rl == p.rails[k]
      <3>1. rl = [key \in RailKeys |-> rl[key]] /\ t.rails[k] = Resolved(p, Filled(rl))
        BY <1>1
      <3> HIDE DEF rl
      <3>2. Resolved(p, Filled(rl)).network = rl.network
        BY <3>1, RailIs
      <3> QED BY <3>1, <3>2 DEF rl
    <2> QED BY <1>1, <2>1
  <1>9. Fair(t)
    BY <1>1, <1>2, <1>4, <1>6, <1>7, <1>8 DEF Fair
  <1> QED BY <1>9 DEF t, p

\* A process runs with a configuration the rest can depend on, whatever file it was
\* started with: the refusals of Config.validate and the defaults and inheritance of
\* Load leave, together, no rail without an address the operator can be paid at, no
\* rail of another's terms and no free way through a priced rule (config.go Load).
THEOREM ProcessesAreDependable == DeploymentSpec => [](stage # "off" => Dependable(cfg))
  <1>1. Running => (stage # "off" => Dependable(cfg))
    <2> SUFFICES ASSUME Running, stage # "off" PROVE Dependable(cfg)
      OBVIOUS
    <2>1. written \in Files /\ cfg = Load(written, Env) /\ cfg # None
      BY DEF Running
    <2> DEFINE c == Layered(written, Env)
    <2>2. /\ Fits(c) /\ cfg.passTTL = c.passTTL /\ cfg.maxSession = c.maxSession
          /\ cfg.keys = IF c.keys = {} THEN {[kid |-> "auto", bytes |-> 32]} ELSE c.keys
      BY <2>1, LoadedFields
    <2> HIDE DEF c
    <2>3. /\ c.passTTL >= 1 /\ c.maxSession >= c.passTTL
          /\ \A k \in c.keys : k.bytes >= 16
      BY <2>2 DEF Fits
    <2>4. cfg.keys # {} /\ \A k \in cfg.keys : k.bytes >= 16
      <3> DEFINE auto == [kid |-> "auto", bytes |-> 32]
      <3>1. auto.bytes >= 16
        OBVIOUS
      <3>2. cfg.keys = IF c.keys = {} THEN {auto} ELSE c.keys
        BY <2>2
      <3> HIDE DEF auto
      <3> QED BY <2>3, <3>1, <3>2, Zenon
    <2>5. cfg.payments # None => Fair(cfg.payments)
      BY <2>1, Loaded, TermsAreFair
    <2> QED BY <2>2, <2>3, <2>4, <2>5 DEF Dependable
  <1>2. DeploymentSpec => []Running
    BY RunningInit, RunningStep, PTL DEF DeploymentSpec
  <1> QED BY <1>1, <1>2, PTL
===============================================================================
