------------------------------- MODULE PageCache -------------------------------
(*****************************************************************************)
(* gate/waitpage.go pageSource: the operator's header.html and footer.html,  *)
(* kept in memory and revalidated by a stat.  "Edits are live instantly" is  *)
(* the promise; the hazard is that the stat that dates an entry and the read *)
(* that fills it are two calls with no lock around them, made by any number  *)
(* of requests while the operator replaces the file.                         *)
(*                                                                           *)
(* A file is the number of its current version and the form of it.  Date and *)
(* size stand for the version: no two versions of a file have both alike.    *)
(*****************************************************************************)
EXTENDS Integers

CONSTANTS
  Request,     \* requests being shown the wait page
  Page,        \* header.html and footer.html
  MaxVersion   \* bound: the operator edits a file no more often than this

ASSUME PageAssumption == MaxVersion \in Nat

VARIABLES
  file,     \* file[p]: the version on disk, and what kind of file that is
  pages,    \* pages[p]: the entry of the cache
  reader    \* reader[q]: the read request q is in the middle of

pageVars == <<file, pages, reader>>

Version == 0 .. MaxVersion

\* A readable page, one over maxPageBytes, or none (no file, or a directory).
Form == {"page", "huge", "gone"}

NotCached == [body |-> -1]
CachedPage == [body : Version, date : Version]

\* What a read returns: a version of the file, or the embedded default.
Default == -1

\* date is the version at the request's stat, body the one it read.
Reading == [at : {"idle", "consult", "read", "store", "served"}, page : Page,
            date : Version, body : Version \cup {Default}]
Nowhere(p) == [at |-> "idle", page |-> p, date |-> 0, body |-> Default]

PageTypeOK ==
  /\ file \in [Page -> [version : Version, form : Form]]
  /\ pages \in [Page -> {NotCached} \cup CachedPage]
  /\ reader \in [Request -> Reading]

PageInit ==
  /\ file \in [Page -> [version : {0}, form : Form]]
  /\ pages = [p \in Page |-> NotCached]
  /\ \E p \in Page : reader = [q \in Request |-> Nowhere(p)]

-----------------------------------------------------------------------------
Serve(q, body) == reader' = [reader EXCEPT ![q].at = "served", ![q].body = body]

\* The stat: no page there, or too large a one, and the default is served.
StatPage(q, p) ==
  /\ reader[q].at \in {"idle", "served"}
  /\ LET seen == [page |-> p, date |-> file[p].version, body |-> Default,
                  at |-> IF file[p].form = "page" THEN "consult" ELSE "served"]
     IN  reader' = [reader EXCEPT ![q] = seen]
  /\ UNCHANGED <<file, pages>>

\* The first lock section.  An entry dated as the stat is served; any other, and
\* none, sends the request to the file.  The slip takes any entry for current.
AnyEntry(p, date) == pages[p] # NotCached
Fresh(p, date) == pages[p] # NotCached /\ pages[p].date = date

ConsultPage(q) ==
  LET p == reader[q].page
  IN  /\ reader[q].at = "consult"
      /\ IF Fresh(p, reader[q].date)
         THEN Serve(q, pages[p].body)
         ELSE reader' = [reader EXCEPT ![q].at = "read"]
      /\ UNCHANGED <<file, pages>>

\* os.ReadFile, under no lock: whatever is there by now, the default if nothing.
ReadPage(q) ==
  LET now == file[reader[q].page]
  IN  /\ reader[q].at = "read"
      /\ IF now.form = "gone" THEN Serve(q, Default)
         ELSE reader' = [reader EXCEPT ![q].at = "store", ![q].body = now.version]
      /\ UNCHANGED <<file, pages>>

\* The second lock section: what was read, dated by the stat before the read.
\* The slip dates it by a stat of its own.
StoreRedated(q) ==
  LET p == reader[q].page
  IN  /\ reader[q].at = "store"
      /\ pages' = [pages EXCEPT ![p] = [body |-> reader[q].body,
                                        date |-> file[p].version]]
      /\ Serve(q, reader[q].body)
      /\ UNCHANGED file

StorePage(q) ==
  /\ reader[q].at = "store"
  /\ pages' = [pages EXCEPT ![reader[q].page] = [body |-> reader[q].body,
                                                 date |-> reader[q].date]]
  /\ Serve(q, reader[q].body)
  /\ UNCHANGED file

\* The operator replaces the file, or takes it away, at any time.
EditFile(p) ==
  /\ file[p].version < MaxVersion
  /\ \E f \in Form : file' = [file EXCEPT ![p] = [version |-> file[p].version + 1,
                                                  form |-> f]]
  /\ UNCHANGED <<pages, reader>>

PageNext ==
  \/ \E q \in Request, p \in Page : StatPage(q, p)
  \/ \E q \in Request : ConsultPage(q) \/ ReadPage(q) \/ StorePage(q)
  \/ \E p \in Page : EditFile(p)

PageSpec == PageInit /\ [][PageNext]_pageVars

-----------------------------------------------------------------------------
\* An edit is live at once: whatever the other requests did to the cache, a page
\* served is one the disk held at or after the stat of the request it is served
\* to, and never a version replaced before that request came.
EditsAreLive ==
  \A q \in Request :
    reader[q].at = "served" /\ reader[q].body # Default =>
      reader[q].date <= reader[q].body /\ reader[q].body <= file[reader[q].page].version
================================================================================
