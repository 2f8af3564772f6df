--------------------------- MODULE ResponseWriters ---------------------------
(*****************************************************************************)
(* One admitted response on its way from the upstream to the client, through *)
(* the writer the ladder chose: injector (injector.go), which holds the      *)
(* start of a document to insert the renewal script, or paidWriter (pay.go), *)
(* which seals paid content.  What the policies a document is served under   *)
(* make of the script is ScriptPolicy's part.  The reverse proxy drives      *)
(* either: it announces informational responses on the shared header map,    *)
(* then the final header, then chunks of the body, each followed by a flush. *)
(*                                                                           *)
(* A body is a sequence of the pieces the scanners recognise; offsets count  *)
(* pieces, and a piece arrives whole.  Protocol upgrades leave both writers  *)
(* by hijacking the connection and are not modelled.                         *)
(*****************************************************************************)
EXTENDS ScriptPolicy, SequencesExt

CONSTANTS
  Pages,      \* what the upstream may send: bodies, and the policies beside them
  Budget,     \* headBudget
  MaxEarly    \* informational responses at most: a bound of the model

\* "open" starts a document, "head" is an opening <head> tag, "end" is </head> or
\* <body, "blank" is space before the document, "text" anything else.
Pieces == {"open", "head", "end", "blank", "text"}

\* Policies: in the headers, in those that only report, and in the head itself.
Csp == [enforce : Seq(Policy), report : Seq(Policy), meta : Seq(Policy)]
NoCsp == [enforce |-> <<>>, report |-> <<>>, meta |-> <<>>]

\* The nonce is drawn for this response: no page can know it beforehand.
ASSUME WritersAssumption ==
  /\ Pages \subseteq [body : Seq(Pieces), csp : Csp]
  /\ \A d \in Pages : \A p \in Set(d.csp.enforce) \cup Set(d.csp.meta) :
       "our-nonce" \notin InForce(p)
  /\ Budget \in Nat \ {0} /\ MaxEarly \in Nat

VARIABLES
  resp,      \* the response: its writer, and what the upstream will send
  phase,     \* "early", "body", "over", or "cut": broken off
  early,     \* informational responses so far
  fed,       \* pieces of the body the writer was given
  hdrs,      \* the header map the writers share with the server: the lines in
             \* it, and the policies
  buf,       \* injector: body held back
  resolved,  \* injector: the decision is made
  held,      \* paidWriter: pass cookies kept out of informational responses
  sealed,    \* paidWriter
  wire       \* what the client has been sent

vars == <<resp, phase, early, fed, hdrs, buf, resolved, held, sealed, wire>>
Injecting == resp.writer = "inject"

\* Header lines that matter here.  The gate's: its pass, its receipt, its seal and
\* no-store.  The upstream's: its cookie, byte count, caching, receipt and offer.
Gates == {"pass", "receipt", "seal", "no-store"}
Upstreams == {"cookie", "length", "public", "their-receipt", "offer"}

\* A document to inject into, or paid content.
Injected == [writer : {"inject"}, page : Pages, html : BOOLEAN, granted : {FALSE},
             sends : {{}, {"length", "public"}}]
Paid == [writer : {"paid"}, page : {d \in Pages : d.csp = NoCsp}, html : {TRUE},
         granted : BOOLEAN, sends : {{}, Upstreams}]

Doc == resp.page.body

TypeOK ==
  /\ resp \in Injected \cup Paid /\ phase \in {"early", "body", "over", "cut"}
  /\ early \in 0..MaxEarly /\ fed \in 0..Len(Doc)
  /\ hdrs.lines \subseteq Gates \cup Upstreams /\ held \subseteq {"pass"}
  /\ resolved \in BOOLEAN /\ sealed \in BOOLEAN
  /\ \A i \in DOMAIN wire : wire[i].kind \in {"info", "final", "body", "tag", "flush"}

Init ==
  /\ resp \in Injected \cup Paid
  /\ phase = "early" /\ early = 0 /\ fed = 0
  /\ hdrs = [lines |-> IF resp.granted THEN {"pass"} ELSE {}, enforce |-> <<>>, report |-> <<>>]
  /\ buf = <<>> /\ resolved = FALSE /\ held = {} /\ sealed = FALSE
  /\ wire = <<>>

-----------------------------------------------------------------------------
(* The server's own writer.  A body or a flush with no header sent sends the *)
(* header as it stands; a second final header is ignored.                    *)

Committed(w) == \E i \in DOMAIN w : w[i].kind = "final"
Header(w, h) == IF Committed(w) THEN w ELSE Append(w, [kind |-> "final", h |-> h])
Body(w, h, ps) ==
  IF ps = <<>> THEN w
  ELSE Header(w, h) \o [i \in DOMAIN ps |-> [kind |-> "body", piece |-> ps[i]]]
Flushed(w, h) == Append(Header(w, h), [kind |-> "flush"])
Tag(w) == Append(w, [kind |-> "tag"])

-----------------------------------------------------------------------------
(* injector.                                                                 *)

\* A slip: blanks alone are no document.
LooksDecided(b) ==
  LET i == SelectInSeq(b, LAMBDA p : p # "blank")
  IN  i # 0 /\ b[i] \in {"open", "head"}

\* looksLikeDocument: still undecided while only blanks have come.
LooksLikeDocument(b) ==
  LET i == SelectInSeq(b, LAMBDA p : p # "blank")
  IN  i = 0 \/ b[i] \in {"open", "head"}

\* Offsets, -1 if not there yet: just past the first opening <head>; the head's end.
InsertionPoint(b) == LET i == SelectInSeq(b, LAMBDA p : p = "head") IN IF i = 0 THEN -1 ELSE i
HeadEnd(b) == SelectInSeq(b, LAMBDA p : p = "end") - 1

\* A slip: what was held when a document is given up is lost.
GiveUpEmpty(b) ==
  /\ wire' = Header(wire, hdrs)
  /\ buf' = <<>> /\ resolved' = TRUE /\ UNCHANGED hdrs

\* giveUp: emit what was held, unmodified.
GiveUp(b) ==
  /\ wire' = Body(Header(wire, hdrs), hdrs, b)
  /\ buf' = <<>> /\ resolved' = TRUE /\ UNCHANGED hdrs

\* The headers of a document with a tag in it.
Rewritten(plan) ==
  LET dated == hdrs.lines \ {"length"}
  IN  [lines |-> IF plan.mode = "nonced" THEN (dated \ {"public"}) \cup {"no-store"} ELSE dated,
       enforce |-> plan.enforce, report |-> plan.report]

InsertTag(b, point, h) ==
  /\ hdrs' = h
  /\ wire' = Body(Tag(Body(Header(wire, h), h, SubSeq(b, 1, point))),
                  h, SubSeq(b, point + 1, Len(b)))
  /\ buf' = <<>> /\ resolved' = TRUE

\* A slip: a document that is too long is only noticed while it is buffered.
DecideUnmeasured(b) ==
  LET plan == Plan(hdrs.enforce, hdrs.report, resp.page.csp.meta)
  IN  IF InsertionPoint(b) < 0 \/ HeadEnd(b) < 0 \/ plan.mode = "skip"
      THEN GiveUp(b)
      ELSE InsertTag(b, InsertionPoint(b), Rewritten(plan))

\* decide: insert, or give up for want of the whole picture, or by policy.
Decide(b) ==
  LET point == InsertionPoint(b)
      end == HeadEnd(b)
      plan == Plan(hdrs.enforce, hdrs.report, resp.page.csp.meta)
  IN  IF point < 0 \/ end < 0 \/ end > Budget \/ plan.mode = "skip"
      THEN GiveUp(b)
      ELSE InsertTag(b, point, Rewritten(plan))

\* WriteHeader: a response that may not be rewritten passes from here on.
InjectorHeader(h) ==
  /\ hdrs' = h /\ buf' = <<>> /\ resolved' = ~resp.html
  /\ wire' = IF resp.html THEN wire ELSE Header(wire, h)

\* Write.
InjectorWrite(ps) ==
  LET b == buf \o ps
  IN  IF resolved THEN wire' = Body(wire, hdrs, ps) /\ UNCHANGED <<hdrs, buf, resolved>>
      ELSE IF ~LooksLikeDocument(b) THEN GiveUp(b)
      ELSE IF HeadEnd(b) >= 0 \/ Len(b) >= Budget THEN Decide(b)
      ELSE buf' = b /\ UNCHANGED <<hdrs, resolved, wire>>

-----------------------------------------------------------------------------
(* paidWriter.                                                               *)

\* A slip: the seal is put next to what the upstream said, not in its place.
SealAdding(lines) == lines \cup held \cup {"seal"}

\* seal.  A settlement of this very request has a receipt to state.
Seal(lines) ==
  ((lines \cup held) \ {"public", "their-receipt", "offer"})
    \cup {"seal"} \cup (IF resp.granted THEN {"receipt"} ELSE {})

\* holdPassCookies.
Held(lines) == lines \cap {"pass"}

-----------------------------------------------------------------------------
(* The reverse proxy's calls.                                                *)

\* An informational response: its headers join the map, which is cleared after.
Inform(more) ==
  /\ phase = "early" /\ early < MaxEarly
  /\ early' = early + 1
  /\ LET all == hdrs.lines \cup more
         kept == IF Injecting THEN {} ELSE Held(all)
     IN  /\ wire' = Append(wire, [kind |-> "info", h |-> [hdrs EXCEPT !.lines = all \ kept]])
         /\ held' = held \cup kept
  /\ hdrs' = [hdrs EXCEPT !.lines = {}]
  /\ UNCHANGED <<resp, phase, fed, buf, resolved, sealed>>

Announce ==
  /\ phase = "early" /\ phase' = "body"
  /\ LET csp == resp.page.csp
         h == [lines |-> hdrs.lines \cup resp.sends,
               enforce |-> csp.enforce, report |-> csp.report]
         paid == [h EXCEPT !.lines = Seal(@)]
     IN  IF Injecting THEN InjectorHeader(h) /\ UNCHANGED sealed
         ELSE /\ hdrs' = paid /\ sealed' = TRUE
              /\ wire' = Header(wire, paid)
              /\ UNCHANGED <<buf, resolved>>
  /\ UNCHANGED <<resp, early, fed, held>>

Chunk(n) ==
  /\ phase = "body" /\ n <= Len(Doc) - fed
  /\ fed' = fed + n
  /\ LET ps == SubSeq(Doc, fed + 1, fed + n)
     IN  IF Injecting THEN InjectorWrite(ps)
         ELSE wire' = Body(wire, hdrs, ps) /\ UNCHANGED <<hdrs, buf, resolved>>
  /\ UNCHANGED <<resp, phase, early, held, sealed>>

\* Flush is a no-op while a document is held.
Flush ==
  /\ phase = "body" /\ (Injecting => resolved)
  /\ (wire = <<>> \/ Last(wire).kind # "flush")
  /\ wire' = Flushed(wire, hdrs)
  /\ UNCHANGED <<resp, phase, early, fed, hdrs, buf, resolved, held, sealed>>

\* The body is over, and servePoWUpstream finishes the injector.
Finish ==
  /\ phase = "body" /\ fed = Len(Doc) /\ phase' = "over"
  /\ IF Injecting /\ ~resolved THEN Decide(buf)
     ELSE wire' = Header(wire, hdrs) /\ UNCHANGED <<hdrs, buf, resolved>>
  /\ UNCHANGED <<resp, early, fed, held, sealed>>

\* The upstream breaks off, or the client goes: the proxy aborts the handler, nothing
\* finishes the injector, and what it holds goes with the connection.
Abort ==
  /\ phase = "body" /\ phase' = "cut"
  /\ UNCHANGED <<resp, early, fed, hdrs, buf, resolved, held, sealed, wire>>

Next ==
  \/ \E more \in {{}, {"cookie"}} : Inform(more)
  \/ Announce \/ Flush \/ Finish \/ Abort
  \/ \E n \in 1..Len(Doc) : Chunk(n)

Spec == Init /\ [][Next]_vars

-----------------------------------------------------------------------------
Tagged == \E i \in DOMAIN wire : wire[i].kind = "tag"

\* What is sent up to a place, and that it is the start of the body, piece by piece.
Bodies(w, i) == {j \in 1..i : w[j].kind = "body"}
Carries(w, n) ==
  /\ Cardinality(Bodies(w, Len(w))) = n
  /\ \A i \in DOMAIN w :
       w[i].kind = "body" => w[i].piece = Doc[Cardinality(Bodies(w, i))]

\* Nothing of a body is lost, repeated or reordered on the way: the client has
\* exactly what the upstream wrote but for what is still held, less than the
\* budget, whatever the chunks, and all of it once the response is over (one that
\* was cut is cut for the client too).
BodyIntact ==
  /\ Carries(wire, fed - Len(buf))
  /\ buf = SubSeq(Doc, fed - Len(buf) + 1, fed) /\ Len(buf) < Budget
  /\ phase = "over" => fed = Len(Doc) /\ buf = <<>>

Final == wire[SelectInSeq(wire, LAMBDA e : e.kind = "final")].h

\* The policies a browser holds the page to.
Served == Final.enforce \o resp.page.csp.meta
Written == resp.page.csp.enforce \o resp.page.csp.meta

\* A page is only touched when the whole picture was seen: once, just past an
\* opening <head>, in a document whose head ends within the budget, and under
\* headers that no longer give the old length; a page with a nonce in it, or its
\* policies with one, is stored by nobody.
TagIsEarned ==
  Tagged =>
    /\ \E i \in DOMAIN wire :
         /\ wire[i].kind = "tag" /\ Cardinality(Bodies(wire, i)) = InsertionPoint(Doc)
         /\ \A j \in DOMAIN wire : wire[j].kind = "tag" => j = i
    /\ HeadEnd(Doc) \in 0..Budget
    /\ resp.html /\ "length" \notin Final.lines
    /\ (\E p \in Set(Served) : "our-nonce" \in InForce(p)) =>
          "public" \notin Final.lines /\ "no-store" \in Final.lines

\* Where it is put the element is let in by every policy the browser holds the
\* page to, those in its head included, as they stand on the wire.  Out of it is
\* a policy with both 'self' and 'strict-dynamic': see RenewalLoads.
ElementRuns ==
  Tagged /\ (\A p \in Set(Written) : ~ {"self", "dynamic"} \subseteq InForce(p)) =>
    Runs(Element(Plan(resp.page.csp.enforce, <<>>, resp.page.csp.meta).mode), Served)

\* The gate loosens nothing of the operator's to get its script in: none of the
\* page's own scripts runs that its policies kept out; and a policy that said
\* nothing of scripts still says nothing.
NothingLoosened ==
  Committed(wire) =>
    /\ \A s \in Operators : Runs(s, Served) => Runs(s, Written)
    /\ \A p \in Set(resp.page.csp.enforce) : InForce(p) = Unset => p \in Set(Final.enforce)

\* "Our script must satisfy every enforcing one" (planCSP), and the script is
\* renew.js, which the inline loader only asks for.
RenewalLoads ==
  Tagged => Runs(RenewScript(Plan(resp.page.csp.enforce, <<>>, resp.page.csp.meta).mode), Served)

\* A nonce or hash "disables unsafe-inline, killing the operator's own inline
\* scripts" (planCSP): whatever is inserted, the page's own scripts still run.
OperatorsScriptsRun ==
  Tagged => \A s \in Operators : Runs(s, Written) => Runs(s, Served)

\* The other side of it, which has no symptom: a document whose head has both its
\* ends within the budget is never left without the script, however it arrives,
\* where every policy that restricts scripts allows the site's own.
NotSilentlyBare ==
  phase = "over" /\ Injecting /\ resp.html
    /\ (\A p \in Set(Written) : ~ SandboxBlocks(p) /\
          (InForce(p) # Unset => "self" \in InForce(p) /\ "none" \notin InForce(p)))
    /\ LooksLikeDocument(Doc)
    /\ HeadEnd(Doc) \in 0..(Budget - 1)
    /\ InsertionPoint(Doc) \in 1..HeadEnd(Doc)
  => Tagged

\* Paid content goes out sealed, once, with nothing of the upstream's to the
\* contrary; the pass that was bought is on the final response and on no other.
PaidSealed ==
  ~Injecting =>
    \A i \in DOMAIN wire :
      /\ wire[i].kind = "info" => "pass" \notin wire[i].h.lines
      /\ wire[i].kind = "final" =>
           /\ "seal" \in wire[i].h.lines
           /\ wire[i].h.lines \cap {"public", "their-receipt", "offer"} = {}
           /\ resp.granted <=> "pass" \in wire[i].h.lines
           /\ resp.granted <=> "receipt" \in wire[i].h.lines
=============================================================================
