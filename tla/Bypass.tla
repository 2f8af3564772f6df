-------------------------------- MODULE Bypass ---------------------------------
(*****************************************************************************)
(* bypass/bypass.go: which traffic is never challenged, and the question     *)
(* under it, whose traffic it is when trusted proxies stand before the gate. *)
(* Paths and patterns are sequences of characters, addresses model values;   *)
(* a range of addresses is the set of them.                                  *)
(*****************************************************************************)
EXTENDS Integers, Sequences, SequencesExt

\* A pattern: its text, or the texts around its one `*`.
Pattern == [pre : Seq(STRING), star : BOOLEAN, post : Seq(STRING)]

\* matchGlob.
MatchGlob(pat, s) ==
  IF pat.star
  THEN Len(s) >= Len(pat.pre) + Len(pat.post) /\ IsPrefix(pat.pre, s) /\ IsSuffix(pat.post, s)
  ELSE s = pat.pre

Matches(pats, s) == \E pat \in pats : MatchGlob(pat, s)

\* What a hop says that is no address, and an address that cannot be told.
Garbage == "garbage"
NoAddress == "none"

\* A slip: the walk begins at the left end, which anybody may write.
ClientIPLeft(peer, hops, trusted) ==
  LET i == SelectInSeq(hops, LAMBDA h : h \notin trusted)
  IN  IF peer \notin trusted \/ i = 0 THEN peer
      ELSE IF hops[i] = Garbage THEN peer ELSE hops[i]

\* ClientIP: the peer, unless it is a trusted proxy; then the rightmost hop of
\* X-Forwarded-For that is not, as long as what is read is an address.
ClientIP(peer, hops, trusted) ==
  LET i == SelectLastInSeq(hops, LAMBDA h : h \notin trusted)
  IN  IF peer \notin trusted \/ i = 0 THEN peer
      ELSE IF hops[i] = Garbage THEN peer ELSE hops[i]
================================================================================
