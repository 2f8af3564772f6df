------------------------------ MODULE ActivityLog ------------------------------
(****************************************************************************)
(* activity.go: the bounded map of challenge activity by address that the   *)
(* admin endpoint lists for an auto-banner, with gate/activity.go, which    *)
(* says which outcomes of a request are held against its address.           *)
(****************************************************************************)
EXTENDS Integers, FiniteSets

CONSTANTS
  Ip, NoIp,    \* addresses; a request whose address cannot be told
  Cap, Ttl,
  MaxInstant, MaxEvents  \* bounds of the model

ASSUME ActivityAssumption ==
  /\ NoIp \notin Ip
  /\ Cap \in Nat \ {0} /\ Ttl \in Nat \ {0}
  /\ MaxInstant \in Nat /\ MaxEvents \in Nat

VARIABLES
  instant,
  entries,   \* address -> entry, of the addresses tracked
  did,       \* what each address did since its entry was opened: history
  noted      \* how many events were noted: the model's bound

activityVars == <<instant, entries, did, noted>>

Faults == {"malformed", "stale", "bad_pow", "window_elapsed", "walled"}
Answers == (Faults \ {"walled"}) \cup {"error", "ok_admit", "ok_renew"}

\* A slip: whatever is not a success is a failure.
CountsRest(o) == CASE o = "ok_admit" -> "admits"
                   [] o = "ok_renew" -> "renews"
                   [] OTHER -> "failed"

\* noteAnswer and recordDecision: what an outcome counts as.
Counts(o) == CASE o \in Faults -> "failed"
               [] o = "ok_admit" -> "admits"
               [] o = "ok_renew" -> "renews"
               [] OTHER -> "nothing"

Kind == {"failed", "admits", "renews"}
ActivityEntry == [firstSeen : 0..MaxInstant, lastSeen : 0..MaxInstant,
          failed : Nat, admits : Nat, renews : Nat]

ActivityTypeOK ==
  /\ instant \in 0..MaxInstant
  /\ DOMAIN entries \subseteq Ip
  /\ \A ip \in DOMAIN entries : entries[ip] \in ActivityEntry
  /\ \A ip \in DOMAIN entries : entries[ip].firstSeen <= entries[ip].lastSeen

NoActivity == [ip \in {} |-> 0]
Nothing == [k \in Kind |-> 0]

ActivityInit ==
  /\ instant = 0 /\ entries = NoActivity
  /\ did = NoActivity /\ noted = 0

-----------------------------------------------------------------------------

\* The entries every pruning walk keeps.
LiveIps == {ip \in DOMAIN entries : instant - entries[ip].lastSeen <= Ttl}

Prune == /\ entries' = [ip \in LiveIps |-> entries[ip]]
         /\ did' = [ip \in LiveIps |-> did[ip]]

Quietest(ips) == {ip \in ips : \A o \in ips : entries[ip].lastSeen <= entries[o].lastSeen}

\* A slip: the expired go and then one more, room or no room.
MakeRoomTwice == {LiveIps \ {ip} : ip \in Quietest(LiveIps)}

\* makeRoom: whom to keep.  The expired go; if none is, one of the quietest, the
\* one a walk over a map happens to meet first.
MakeRoom == IF Cardinality(LiveIps) < Cap THEN {LiveIps}
            ELSE {LiveIps \ {ip} : ip \in Quietest(LiveIps)}

FreshEntry == [firstSeen |-> instant, lastSeen |-> instant, failed |-> 0, admits |-> 0, renews |-> 0]

Bump(e, k) == [e EXCEPT ![k] = @ + 1, !.lastSeen = instant]

\* record, under the log's lock.
Record(ip, k) ==
  IF ip \in DOMAIN entries
  THEN entries' = [entries EXCEPT ![ip] = Bump(@, k)]
  ELSE \E keep \in IF Cardinality(DOMAIN entries) >= Cap THEN MakeRoom
                   ELSE {DOMAIN entries} :
         entries' = [i \in keep \cup {ip} |->
                       IF i = ip THEN Bump(FreshEntry, k) ELSE entries[i]]

\* History: what a client did is by its nature a fault, a success, or neither.
Meant(o) == CASE o \in Faults -> [Nothing EXCEPT !.failed = 1]
              [] o = "ok_admit" -> [Nothing EXCEPT !.admits = 1]
              [] o = "ok_renew" -> [Nothing EXCEPT !.renews = 1]
              [] OTHER -> Nothing

Remember(ip, o) ==
  did' = [i \in DOMAIN entries' |->
            LET before == IF i \in DOMAIN entries THEN did[i] ELSE Nothing
            IN  [k \in Kind |-> before[k] + IF i = ip THEN Meant(o)[k] ELSE 0]]

Note(ip, o) ==
  /\ noted < MaxEvents
  /\ IF ip \in Ip /\ Counts(o) # "nothing"
     THEN Record(ip, Counts(o)) /\ noted' = noted + 1
     ELSE UNCHANGED <<entries, noted>>
  /\ Remember(ip, o)
  /\ UNCHANGED instant

NoteAnswer(ip, o) == o \in Answers /\ Note(ip, o)

\* recordDecision: d is how the ladder answered, walled or not.
RecordDecision(ip, walled) == Note(ip, IF walled THEN "walled" ELSE "served")

\* The admin endpoint's Snapshot, and Len behind the anteroom_tracked_ips gauge:
\* reading the log prunes it.
ReadLog == Prune /\ UNCHANGED <<instant, noted>>

ActivityTick == instant < MaxInstant /\ instant' = instant + 1 /\ UNCHANGED <<entries, did, noted>>

ActivityNext ==
  \/ \E ip \in Ip \cup {NoIp} :
       \/ \E o \in Answers : NoteAnswer(ip, o)
       \/ \E walled \in BOOLEAN : RecordDecision(ip, walled)
  \/ ReadLog \/ ActivityTick

ActivitySpec == ActivityInit /\ [][ActivityNext]_activityVars

-----------------------------------------------------------------------------
\* What an entry says is exactly what its address did since the entry was
\* opened: nothing the gate failed at is held against a client, no event is lost
\* while the address is tracked, and the kinds never mix.
Exact ==
  \A ip \in DOMAIN entries : \A k \in Kind :
    entries[ip][k] = did[ip][k]

\* An address spraying the log costs others as little as it can: an entry that is
\* not expired is only dropped when every entry is live and the map is full, one
\* at a time, and none quieter is kept.
DropsOnlyTheQuietest ==
  [][LET gone == {ip \in DOMAIN entries \ DOMAIN entries' : instant - entries[ip].lastSeen <= Ttl}
     IN  gone # {} =>
           /\ Cardinality(DOMAIN entries) = Cap
           /\ \A ip \in DOMAIN entries : instant - entries[ip].lastSeen <= Ttl
           /\ \E ip \in gone : gone = {ip} /\ \A o \in DOMAIN entries :
                                 entries[ip].lastSeen <= entries[o].lastSeen]_activityVars
=============================================================================
