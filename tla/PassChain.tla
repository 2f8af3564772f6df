------------------------------ MODULE PassChain ------------------------------
(***************************************************************************)
(* Proof-of-work passes: gate/endpoints.go serveChallenge and serveAnswer,  *)
(* challenge.go Issue and Verify, token.go Mint and Verify, gate.go         *)
(* mayRenew, validPassAt and setPassCookie.  Nothing is stored: challenges  *)
(* and passes are signed and live with the clients, who may keep, copy,     *)
(* share, replay and reorder them.  So the state is every challenge issued  *)
(* and every pass minted, and any request may present any of them at any    *)
(* gate of the fleet (the gates share the keys; signatures are perfect).    *)
(*                                                                         *)
(* Instants are ticks, TicksPerSecond to a second: clocks and ttls are      *)
(* finer than a second, every signed timestamp is whole seconds.           *)
(***************************************************************************)
EXTENDS Integers, FiniteSets

CONSTANTS
  Gate,            \* instances of the fleet
  Aud, Net,        \* HTTP authorities, client network prefixes
  AnyNet,          \* the prefix of a pass that is bound to none
  NoAud, NoNet,    \* those of a request with no Host, of a client with no known address
  NoPass, NoChallenge,
  Ahead,           \* Ahead[g]: how far g's clock runs ahead of the slowest
  PassTTL,         \* PassTTL[g], pass_ttl: gates may be mid-rollout
  MaxSession,      \* MaxSession[g], max_session
  Skew,            \* skew and clockSkew, 60 s, in ticks
  TicksPerSecond,
  MaxTime,         \* bound: the clock stops here
  MaxIssued, MaxMinted  \* bounds: challenges and passes in the world

ASSUME PassAssumption ==
  /\ Ahead \in [Gate -> Nat]
  /\ PassTTL \in [Gate -> Nat] /\ MaxSession \in [Gate -> Nat]
  /\ TicksPerSecond \in Nat \ {0}
  /\ \A g \in Gate :  \* config.go: pass_ttl at least 1 s, max_session >= pass_ttl
       TicksPerSecond <= PassTTL[g] /\ PassTTL[g] <= MaxSession[g]
  /\ Skew \in Nat /\ MaxTime \in Nat
  /\ MaxIssued \in Nat /\ MaxMinted \in Nat
  /\ AnyNet \notin Net

VARIABLES
  now,         \* the slowest clock of the fleet
  challenges,  \* every challenge issued
  passes,      \* every pass minted
  reply        \* the last answer request, and what became of it

vars == <<now, challenges, passes, reply>>

Seconds(t) == t \div TicksPerSecond   \* Unix()
Instant(s) == s * TicksPerSecond      \* time.Unix(s, 0)
Clock(g) == now + Ahead[g]

Challenge == [kind : {"admit", "renew"}, aud : Aud, ts : Nat, ttl : Nat]

\* `of' is history: the challenge a pass was minted for.  rt is 0 when absent.
Pass == [kind : {"pow", "paid"}, aud : Aud, net : Net \cup {AnyNet},
         iat : Nat, exp : Nat, rt : Nat, of : Challenge \cup {NoChallenge}]

Outcomes == {"none", "malformed", "stale", "no_pass", "bad_pow",
             "window_elapsed", "error", "ok"}

TypeOK ==
  /\ now \in Nat
  /\ challenges \subseteq Challenge
  /\ passes \subseteq Pass
  /\ reply.outcome \in Outcomes

\* Unix time has begun.
Init ==
  /\ now = TicksPerSecond
  /\ challenges = {} /\ passes = {}
  /\ reply = [outcome |-> "none"]

-----------------------------------------------------------------------------
(* Passes.                                                                  *)

\* RootAt: the admission a pass descends from.
RootAt(p) == IF p.rt = 0 THEN p.iat ELSE p.rt

\* A slip: a pass is good for ever.
ValidForever(p, aud, net, at) ==
  /\ p # NoPass
  /\ p.iat <= Seconds(at + Skew)
  /\ p.aud = aud
  /\ p.kind = "pow" => p.net = net

\* keyring.Verify's time bounds, and validPassAt's audience and prefix.
ValidPassAt(p, aud, net, at) ==
  /\ p # NoPass
  /\ Seconds(at) < p.exp
  /\ p.iat <= Seconds(at + Skew)
  /\ p.aud = aud
  /\ p.kind = "pow" => p.net = net

\* Slips: any pass is renewed, and a chain has no end.
RenewsPaid(g, p, aud, net, at) ==
  /\ ValidPassAt(p, aud, net, at)
  /\ at - Instant(RootAt(p)) < MaxSession[g]
RenewsForever(g, p, aud, net, at) ==
  /\ ValidPassAt(p, aud, net, at)
  /\ p.kind = "pow"

\* mayRenew: only a live proof-of-work pass, inside the session of its root.
MayRenew(g, p, aud, net, at) ==
  /\ ValidPassAt(p, aud, net, at)
  /\ p.kind = "pow"
  /\ at - Instant(RootAt(p)) < MaxSession[g]

\* Pass.validate, as Mint applies it to a pass dated iat.
Mintable(p) ==
  /\ p.aud # NoAud
  /\ p.kind = "pow" => p.net # NoNet
  /\ p.iat > 0 /\ p.exp > p.iat /\ p.rt <= p.iat

-----------------------------------------------------------------------------
(* GET /.anteroom/challenge.                                                *)

Issued(g, p, aud, net) ==
  [kind |-> IF MayRenew(g, p, aud, net, Clock(g)) THEN "renew" ELSE "admit",
   aud |-> aud, ts |-> Seconds(Clock(g)), ttl |-> PassTTL[g]]

ServeChallenge(g, p, aud, net) ==
  /\ Cardinality(challenges) < MaxIssued
  /\ challenges' = challenges \cup {Issued(g, p, aud, net)}
  /\ UNCHANGED <<now, passes, reply>>

-----------------------------------------------------------------------------
(* POST /.anteroom/answer.                                                  *)

Stale(c, at) ==
  at - Instant(c.ts) > c.ttl \/ Instant(c.ts) - at > Skew

\* The advertised deadline, deadline_unix_ms, and the instant enforced.
Deadline(c) == Instant(c.ts) + c.ttl

\* The pass setPassCookie mints, carrying the root of the pass it renews.
Minted(g, p, net, c) ==
  [kind |-> "pow", aud |-> c.aud, net |-> net,
   iat |-> Seconds(Clock(g)), exp |-> Seconds(Deadline(c)),
   rt |-> IF c.kind = "renew" THEN RootAt(p) ELSE 0, of |-> c]

\* A slip: a renewal judged when its answer arrives.
OutcomeJudgedLate(g, p, aud, net, c, solved) ==
  CASE c.aud # aud -> "malformed"
    [] c.aud = aud /\ Stale(c, Clock(g)) -> "stale"
    [] OTHER ->
       IF c.kind = "renew" /\ ~ MayRenew(g, p, aud, net, Clock(g))
       THEN "no_pass"
       ELSE IF ~ solved THEN "bad_pow"
       ELSE IF Deadline(c) <= Clock(g) THEN "window_elapsed"
       ELSE IF ~ Mintable(Minted(g, p, net, c)) THEN "error"
       ELSE "ok"

\* serveAnswer's checks, in its order.  The renewal is judged at the instant
\* the challenge was issued.
Outcome(g, p, aud, net, c, solved) ==
  CASE c.aud # aud -> "malformed"
    [] c.aud = aud /\ Stale(c, Clock(g)) -> "stale"
    [] OTHER ->
       IF c.kind = "renew" /\ ~ MayRenew(g, p, aud, net, Instant(c.ts))
       THEN "no_pass"
       ELSE IF ~ solved THEN "bad_pow"
       ELSE IF Deadline(c) <= Clock(g) THEN "window_elapsed"
       ELSE IF ~ Mintable(Minted(g, p, net, c)) THEN "error"
       ELSE "ok"

ServeAnswer(g, p, aud, net, c, solved) ==
  LET o == Outcome(g, p, aud, net, c, solved)
  IN  /\ c \in challenges
      /\ o = "ok" => Cardinality(passes) < MaxMinted
      /\ passes' = IF o = "ok" THEN passes \cup {Minted(g, p, net, c)} ELSE passes
      /\ reply' = [outcome |-> o, early |-> Clock(g) < Deadline(c),
                   entitled |-> /\ solved /\ c.aud = aud /\ aud # NoAud /\ net # NoNet
                                /\ c.kind = "renew" =>
                                     /\ MayRenew(g, p, aud, net, Instant(c.ts))
                                     /\ RootAt(p) <= Seconds(Clock(g))]
      /\ UNCHANGED <<now, challenges>>

\* servePaidGrant's pass, for whatever is left of a grant.
MintPaid(g, aud, exp) ==
  LET p == [kind |-> "paid", aud |-> aud, net |-> AnyNet, rt |-> 0,
            iat |-> Seconds(Clock(g)), exp |-> exp, of |-> NoChallenge]
  IN  /\ Mintable(p) /\ Cardinality(passes) < MaxMinted
      /\ passes' = passes \cup {p}
      /\ UNCHANGED <<now, challenges, reply>>

Tick ==
  /\ now < MaxTime
  /\ now' = now + 1
  /\ UNCHANGED <<challenges, passes, reply>>

\* A request presents any pass there is, or none, from any network.
Request(g) ==
  \E p \in passes \cup {NoPass}, aud \in Aud, net \in Net :
    \/ ServeChallenge(g, p, aud, net)
    \/ \E c \in challenges, solved \in BOOLEAN :
         ServeAnswer(g, p, aud, net, c, solved)

Next ==
  \/ \E g \in Gate : Request(g)
  \/ \E g \in Gate, aud \in Aud, exp \in 1 .. Seconds(MaxTime) : MintPaid(g, aud, exp)
  \/ Tick

Spec == Init /\ [][Next]_vars

-----------------------------------------------------------------------------
(* What the passes promise.                                                 *)

PowPasses == {p \in passes : p.kind = "pow"}
Renewed(p) == p.rt # 0

\* A renewal chain starts from an admission solved at the same authority, from
\* the same network: neither a paid pass nor a pass from elsewhere is ever
\* turned into one (mayRenew: a paid pass must never be renewable).
RootedInAdmission ==
  \A p \in PowPasses : Renewed(p) =>
    \E q \in PowPasses : /\ ~ Renewed(q) /\ q.iat = p.rt
                         /\ q.aud = p.aud /\ q.net = p.net

\* Cheap renewals carry an admission no further than max_session: whatever is
\* shared, replayed or answered late, at gates with whatever clocks, no pass
\* outlives its root's session by more than one pass (docs/operating.md: at the
\* cap the visitor solves admission once more).
SessionCapped ==
  \A p \in PowPasses : Renewed(p) =>
    \E g, h \in Gate :
      Instant(p.exp) < Instant(p.rt) + MaxSession[g] + PassTTL[h]

\* A chain never has a gap: every renewal was earned by a pass of the chain, not
\* from its own challenge, that was live at the instant the challenge was issued.  Once all of them have
\* expired the visitor pays admission, however many challenges are kept.
UnbrokenChain ==
  \A p \in PowPasses : Renewed(p) =>
    \E q \in PowPasses : /\ q.of # p.of
                         /\ RootAt(q) = p.rt /\ q.aud = p.aud /\ q.net = p.net
                         /\ p.of.ts < q.exp /\ Instant(q.iat) <= Instant(p.of.ts) + Skew

\* The advertised deadline is the one enforced: a solution with everything that
\* was asked of it, arriving before the deadline it was given at any gate whose
\* clock has come to the admission it descends from, gets its pass
\* (serveChallenge's comment on DeadlineMs).
DeadlineHonoured == reply.outcome # "none" /\ reply.early /\ reply.entitled =>
                      reply.outcome = "ok"
==============================================================================
