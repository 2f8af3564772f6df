----------------------------- MODULE Configuration -----------------------------
(********************************************************************************)
(* config/config.go: what a configuration file, the environment and the         *)
(* defaults make of each other, what is refused, and the terms of payment an    *)
(* accepted one means.  A file is a function from the keys it sets.  Names that *)
(* are compared without their case (addresses, tokens) are spelled: `is` is the *)
(* name, `as` the way it is written.  Times are in seconds.                     *)
(********************************************************************************)
EXTENDS Bypass, FiniteSets

CONSTANTS
  None,      \* a key that is not set, or empty
  Loopback,  \* hosts that are unambiguously local
  FamilyOf,  \* FamilyOf[n]: "eip155", another namespace, or "none" if n is not CAIP-2
  Evm,       \* the words that are EVM addresses
  Reserved   \* header names the verifier's own requests own

ScopeAll == "all"

-----------------------------------------------------------------------------
(* The file and the environment.                                                *)

Defaults ==
  [listen |-> 8080, admin |-> None, upstream |-> None, passTTL |-> 60, maxSession |-> 1800,
   grace |-> 5, difficulty |-> 14, renewDifficulty |-> 6, keys |-> {}, exempt |-> {},
   payments |-> None, activity |-> None]

\* applyEnv: these keys alone have a variable, and a set one wins over the file.
FromEnvironment == {"listen", "admin", "upstream", "keys"}
Layered(file, env) ==
  LET set == DOMAIN env \cap FromEnvironment
  IN  [k \in set \cup DOMAIN file \cup DOMAIN Defaults |->
         IF k \in set THEN env[k] ELSE IF k \in DOMAIN file THEN file[k] ELSE Defaults[k]]

-----------------------------------------------------------------------------
(* [payments].                                                                  *)

\* checkFacilitatorURL: plaintext to this machine alone, and nothing to log.
FacilitatorFits(url) ==
  /\ url.scheme \in {"http", "https"}
  /\ url.scheme = "http" => url.host \in Loopback
  /\ ~ url.credentials

\* parseHeaderList: entries whose variables are set, in names that are the
\* operator's to set; of two entries for a name the later one stands.
HeadersFit(list) ==
  \A e \in Range(list) : e.name # None /\ e.value # None /\ e.name \notin Reserved
Headers(list) ==
  [n \in {e.name : e \in Range(list)} |->
     list[SelectLastInSeq(list, LAMBDA e : e.name = n)].value]

\* checkPayTo: an address somebody controls, on the rails that can be checked.
PayToFits(addr, rails) ==
  (\E rl \in Range(rails) : FamilyOf[rl.network] = "eip155") => addr.is \in Evm

\* The two defaults of a rail, filled in before anything is read of it.
Filled(rl) ==
  [rl EXCEPT !.decimals = IF @ = 0 THEN 6 ELSE @,
             !.method = IF @ = None THEN "eip3009" ELSE @]

RailFits(rl) ==
  /\ rl.network # None /\ FamilyOf[rl.network] # "none"
  /\ rl.asset # None /\ rl.domain
  /\ rl.decimals \in 1 .. 36
  /\ rl.payTo # None => PayToFits(rl.payTo, <<rl>>)
  /\ IF rl.facilitator # None THEN FacilitatorFits(rl.facilitator) /\ HeadersFit(rl.headers)
                              ELSE rl.headers = <<>>
  /\ rl.method \in {"eip3009", "permit2"}

\* A slip: a rail takes the default for the address and for the headers, each if
\* it has none of its own.
ResolvedApart(p, rl) ==
  [rl EXCEPT !.payTo = IF @ = None THEN p.payTo ELSE @,
             !.facilitator = IF @ = None THEN p.facilitator ELSE @,
             !.headers = Headers(IF @ = <<>> THEN p.headers ELSE @)]

\* What a rail inherits: the recipient, and the facilitator and its headers as a unit.
Resolved(p, rl) ==
  [rl EXCEPT !.payTo = IF @ = None THEN p.payTo ELSE @,
             !.facilitator = IF @ = None THEN p.facilitator ELSE @,
             !.headers = Headers(IF rl.facilitator = None THEN p.headers ELSE @)]

Number(digits) ==
  LET read[i \in 0 .. Len(digits)] == IF i = 0 THEN 0 ELSE 10 * read[i - 1] + digits[i]
  IN  read[Len(digits)]

\* A price in digits with a point among them, in units of an asset's last decimal;
\* 0 if it cannot be expressed in them, or is nothing.
ParsePrice(price, decimals) ==
  IF price = None \/ Len(price.frac) > decimals THEN 0
  ELSE Number(price.whole \o price.frac \o [i \in 1 .. decimals - Len(price.frac) |-> 0])

RuleFits(r, rails) ==
  /\ r.name \notin {None, ScopeAll}
  /\ r.paths # {} /\ \A pat \in r.paths : pat.pre # <<>> /\ Head(pat.pre) = "/"
  /\ \A rl \in Range(rails) : ParsePrice(r.price, rl.decimals) # 0
  /\ r.ttl >= 1

FilledRails(p) == [i \in DOMAIN p.rails |-> Filled(p.rails[i])]

\* What rails inherit, if they do.
DefaultsFit(p, rails) ==
  /\ p.payTo # None /\ PayToFits(p.payTo, rails)
  /\ p.facilitator # None /\ FacilitatorFits(p.facilitator) /\ HeadersFit(p.headers)

RailsFit(rails) ==
  /\ rails # <<>>
  /\ IsInjective([i \in DOMAIN rails |-> rails[i].network])
  /\ \A rl \in Range(rails) : RailFits(rl)

RulesFit(rules, rails) ==
  /\ rules # <<>>
  /\ IsInjective([i \in DOMAIN rules |-> rules[i].name])
  /\ \A r \in Range(rules) : RuleFits(r, rails)

TimeoutFits(seconds) == seconds \in 0 .. 3600

PaymentsFit(p) ==
  /\ DefaultsFit(p, FilledRails(p)) /\ RailsFit(FilledRails(p))
  /\ TimeoutFits(p.timeout) /\ RulesFit(p.rules, FilledRails(p))

\* A rule, with its price on every rail.
RuleTerms(r, rails) ==
  [name |-> r.name, paths |-> r.paths, ttl |-> r.ttl,
   atomic |-> [n \in {rl.network : rl \in Range(rails)} |->
     ParsePrice(r.price, rails[SelectInSeq(rails, LAMBDA rl : rl.network = n)].decimals)]]

\* What the gate is given: rails with everything they inherit, and priced rules.
Terms(p) ==
  LET rails == [i \in DOMAIN p.rails |-> Resolved(p, Filled(p.rails[i]))]
  IN  [rails |-> rails,
       timeout |-> IF p.timeout = 0 THEN 300 ELSE p.timeout,
       rules |-> [i \in DOMAIN p.rules |-> RuleTerms(p.rules[i], rails)]]

-----------------------------------------------------------------------------
(* [activity] and the rest.                                                     *)

Activity(a) == [ttl |-> IF a.ttl = 0 THEN 600 ELSE a.ttl,
                maxIps |-> IF a.maxIps = 0 THEN 8192 ELSE a.maxIps]
ActivityFits(a) == Activity(a).ttl \in 10 .. 86400 /\ Activity(a).maxIps \in 16 .. 1000000

\* Config.validate.  Pages, the public hosts' form and the crawlers' names are left out.
Fits(c) ==
  /\ c.admin # c.listen
  /\ c.upstream # None
  /\ c.passTTL >= 1 /\ c.maxSession >= c.passTTL
  /\ c.grace \in 1 .. 3600
  /\ c.difficulty \in 4 .. 255 /\ c.renewDifficulty \in 0 .. c.difficulty
  /\ \A pat \in c.exempt : pat.pre # <<>> /\ Head(pat.pre) = "/"
  /\ \A k \in c.keys : k.kid # None /\ k.bytes >= 16
  /\ c.payments # None => PaymentsFit(c.payments)
  /\ c.activity # None => ActivityFits(c.activity)

\* Load: a configuration, or None; a key it does not know is refused.  Without a key
\* of its own it gets one for the life of the process.
Load(file, env) ==
  LET c == Layered(file, env)
  IN  IF ~ (DOMAIN file \subseteq DOMAIN Defaults /\ Fits(c)) THEN None
      ELSE [c EXCEPT !.keys = IF @ = {} THEN {[kid |-> "auto", bytes |-> 32]} ELSE @,
                     !.payments = IF @ = None THEN None ELSE Terms(@),
                     !.activity = IF @ = None THEN None ELSE Activity(@)]
================================================================================
