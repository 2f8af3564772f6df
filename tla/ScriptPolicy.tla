----------------------------- MODULE ScriptPolicy ------------------------------
(*******************************************************************************)
(* gate/inject.go planCSP: how, or whether, the renewal script may be put      *)
(* into a page, given the Content-Security-Policies it is served under; and    *)
(* what a browser makes of them (external: CSP Level 3).                       *)
(*                                                                             *)
(* A header value is a sequence of policies, a policy gives each directive     *)
(* it names once the set of its sources.                                       *)
(*******************************************************************************)
EXTENDS Integers, Sequences

\* 'none', 'self', somebody else's host, 'unsafe-inline', 'strict-dynamic', a
\* nonce or hash of the operator's, and the nonce or hash the gate may add.
Source == {"none", "self", "host", "inline", "dynamic", "nonce", "hash",
           "our-nonce", "our-hash"}
Flag == {"allow-scripts", "allow-same-origin"}

\* What a policy does not name.
Unset == {"unset"}
Policy == [elem : SUBSET Source \cup {Unset}, script : SUBSET Source \cup {Unset},
           default : SUBSET Source \cup {Unset}, sandbox : SUBSET Flag \cup {Unset}]

-----------------------------------------------------------------------------
\* effective: the directive that governs script elements is script-src-elem, else
\* script-src, else default-src; a policy with none of them restricts nothing.
\* The slip forgets that there is a directive for elements.
GoverningNoElem(p) == IF p.script # Unset THEN "script" ELSE "default"
Governing(p) == IF p.elem # Unset THEN "elem"
                ELSE IF p.script # Unset THEN "script" ELSE "default"

Sources(p) == p[Governing(p)]
Restricting(p) == Sources(p) # Unset
SandboxBlocks(p) == p.sandbox # Unset /\ p.sandbox # Flag

HasNonceOrHash(p) == Sources(p) \cap {"nonce", "hash", "our-nonce", "our-hash"} # {}

\* rewrite: the source joins the governing directive of every policy that
\* restricts scripts.  The slip lets the site's own scripts in with it.
RewriteSelf(ps, src) ==
  [i \in DOMAIN ps |-> IF Restricting(ps[i])
                       THEN [ps[i] EXCEPT ![Governing(ps[i])] = @ \cup {src, "self"}]
                       ELSE ps[i]]
Rewrite(ps, src) ==
  [i \in DOMAIN ps |-> IF Restricting(ps[i])
                       THEN [ps[i] EXCEPT ![Governing(ps[i])] = @ \cup {src}]
                       ELSE ps[i]]

Set(ps) == {ps[i] : i \in DOMAIN ps}

\* planCSP, in the order of its rules.  Report-only policies veto nothing, and
\* are given what the enforcing ones are.
Plan(enforce, report, meta) ==
  LET enforcing == {p \in Set(enforce) : Restricting(p)}
      fixed     == {p \in Set(meta) : Restricting(p)}
      As(mode)  == [mode |-> mode, enforce |-> enforce, report |-> report]
      With(mode, src) ==
        [mode |-> mode, enforce |-> Rewrite(enforce, src), report |-> Rewrite(report, src)]
  IN  IF \/ \E p \in Set(enforce) \cup Set(meta) : SandboxBlocks(p)
         \/ \E p \in enforcing \cup fixed : "none" \in Sources(p)
      THEN As("skip")
      ELSE IF \A p \in enforcing \cup fixed : "self" \in Sources(p)
      THEN As("external")
      ELSE IF fixed # {}
      THEN As("skip")
      ELSE IF \E p \in enforcing : "dynamic" \in Sources(p)
      THEN With("nonced", "our-nonce")
      ELSE IF \A p \in enforcing : "inline" \in Sources(p) /\ ~ HasNonceOrHash(p)
      THEN As("inline")
      ELSE With("hashed", "our-hash")

-----------------------------------------------------------------------------
(* The browser.  A script element is inline, or loaded from the site itself or *)
(* from the host the operator names; it may carry the nonce or match the hash  *)
(* of a source; and a script that is already running may have made it.         *)

Script == [from : {"inline", "self", "host"}, made : BOOLEAN,
           bears : {"", "nonce", "hash", "our-nonce", "our-hash"}]

\* The list of sources script elements are held to.
InForce(p) == IF p.elem # Unset THEN p.elem
              ELSE IF p.script # Unset THEN p.script ELSE p.default

\* A hash vouches for no file: none of the elements states its integrity.
Vouched(s, sources) ==
  s.bears \in sources /\ (s.bears \in {"hash", "our-hash"} => s.from = "inline")

\* 'unsafe-inline' is void beside a nonce, a hash or 'strict-dynamic'; under the
\* last a host counts for nothing, and what a running script makes is trusted.
Permits(sources, s) ==
  \/ sources = Unset
  \/ Vouched(s, sources)
  \/ "dynamic" \in sources /\ s.made /\ s.from # "inline"
  \/ "dynamic" \notin sources /\ s.from # "inline" /\ s.from \in sources
  \/ /\ s.from = "inline" /\ "inline" \in sources
     /\ sources \cap {"nonce", "hash", "our-nonce", "our-hash", "dynamic"} = {}

\* Policies intersect: a script runs when each lets it.
Runs(s, ps) == \A p \in Set(ps) : Permits(InForce(p), s)

\* The element a plan inserts, and the renewal script itself: the same, or one
\* that the inline loader makes.
Element(mode) ==
  CASE mode = "external" -> [from |-> "self", bears |-> "", made |-> FALSE]
    [] mode = "nonced" -> [from |-> "inline", bears |-> "our-nonce", made |-> FALSE]
    [] OTHER -> [from |-> "inline", bears |-> "our-hash", made |-> FALSE]
RenewScript(mode) == [from |-> "self", bears |-> "", made |-> mode # "external"]

\* The scripts of the operator's pages.
Operators == {s \in Script : s.bears \notin {"our-nonce", "our-hash"}}
================================================================================
