------------------------------ MODULE Ledgers ------------------------------
(* The ledgers a deployment keeps beside its calls: sign-offs on artifacts      *)
(* (hallpass/approvals.py), seats on channels (hallpass/seats.py) and the audit *)
(* trail as it is queried (hallpass/audit.py).                                  *)
LOCAL INSTANCE Integers
LOCAL INSTANCE FiniteSets
LOCAL INSTANCE SequencesExt
LOCAL INSTANCE TLC

(* separation_of_duties: scopes are pairs, the authority and the artifact.      *)
SeparationOfDuties(scopes) ==
  {s.artifact : s \in {x \in scopes : x.may = "author"}}
    \cap {s.artifact : s \in {x \in scopes : x.may = "approve"}}

(* record of one artifact's ledger: the author is whom the caller names, and    *)
(* is not kept.  A second sign-off of an approver replaces the first.           *)
Approve(ledger, sign) ==
  IF sign.approver = sign.author THEN ledger ELSE sign.approver :> sign.at @@ ledger

Approvers(ledger) == DOMAIN ledger
Approved(ledger, minimum) == Cardinality(DOMAIN ledger) >= minimum

-----------------------------------------------------------------------------
(* Seats: one holder of a role on a channel, whoever was bound last.            *)
Bind(seats, place, subject) == place :> subject @@ seats
Holder(seats, place, nobody) == IF place \in DOMAIN seats THEN seats[place] ELSE nobody
Unbind(seats, place) == [p \in DOMAIN seats \ {place} |-> seats[p]]
SeatsOf(seats, channel) == {p \in DOMAIN seats : p.channel = channel}
HeldBy(seats, subject) == {p \in DOMAIN seats : seats[p] = subject}

-----------------------------------------------------------------------------
(* The audit trail is the order of the inserts; `at` is what the event says.    *)
(* A filter is a function from some columns to the values asked for.            *)
Matches(event, filter, since) ==
  /\ \A column \in DOMAIN filter : event[column] = filter[column]
  /\ event.at >= since

Query(trail, filter, since, limit) ==
  LET hits  == Reverse(SelectSeq(trail, LAMBDA e : Matches(e, filter, since)))
      asked == IF limit < 0 THEN 0 ELSE limit
  IN  SubSeq(hits, 1, IF asked < Len(hits) THEN asked ELSE Len(hits))

(* The sink in memory: it appends, and drops the oldest past its capacity.      *)
Remember(events, event, capacity) ==
  IF Len(events) + 1 > capacity THEN Tail(Append(events, event)) ELSE Append(events, event)
=============================================================================
