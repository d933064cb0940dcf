--------------------------- MODULE MCControlPlane ---------------------------
(* Three deployments: two operators at work while the ledgers change once, one *)
(* without an audit sink, and no operator while the ledgers change several     *)
(* times.                                                                      *)
EXTENDS ControlPlane, Integers, SequencesExt, TLC

CONSTANTS ann, bot, lead, spare, gating, revoking, working, op1, op2

Symmetry == Permutations(Operators)

MCFirstRoles ==
  [r \in Roles |->
     IF r = lead THEN [scopes |-> {gating, revoking}, holders |-> {ann}]
     ELSE [scopes |-> {}, holders |-> {}]]

MCScopeOf ==
  [a \in Actions |-> IF a \in {"pending_gates", "decide_gate"} THEN gating ELSE revoking]

MCWired == Actions \ {"queue_depth"}

MCDeployments ==
  {[operators |-> {op1, op2}, changes |-> 1, audited |-> TRUE],
   [operators |-> {op1}, changes |-> 1, audited |-> FALSE],
   [operators |-> {}, changes |-> 3, audited |-> TRUE]}

-----------------------------------------------------------------------------
(* The ledgers, on every short history.                                        *)
L == INSTANCE Ledgers

Signs == [approver : {"a", "b", "c"}, author : {"a", "b"}, at : {1}]
Ledger(signs) == FoldLeft(L!Approve, <<>>, signs)

(* While every sign-off names the same author (approvals.py, record), the       *)
(* author is never among the approvers, and an artifact is approved when that   *)
(* many others signed, however often.                                          *)
ASSUME AuthorNeverApproves ==
  \A author \in {"a", "b"}, signs \in BoundedSeq({s.approver : s \in Signs}, 3), n \in 0..3 :
    LET ledger == Ledger([i \in DOMAIN signs |->
                            [approver |-> signs[i], author |-> author, at |-> i]])
        others == Range(signs) \ {author}
    IN  /\ L!Approvers(ledger) = others
        /\ L!Approved(ledger, n) <=> Cardinality(others) >= n

(* The ledger does not keep the author (approvals.py, record): when the caller  *)
(* names another one for a later version, two principals approve who each wrote *)
(* a version of it.                                                            *)
ASSUME AuthorsMayApproveEachOther ==
  \E signs \in BoundedSeq(Signs, 2) :
    /\ L!Approved(Ledger(signs), 2)
    /\ L!Approvers(Ledger(signs)) \subseteq {signs[i].author : i \in DOMAIN signs}

(* separation_of_duties of approvals.py is asked of one role at a time: a       *)
(* conflict never goes away as scopes are added, and two roles without one may  *)
(* have one together.                                                          *)
Duties == SUBSET [may : {"author", "approve"}, artifact : {"x", "y"}]
ASSUME ConflictsOnlyGrow ==
  /\ \A s, t \in Duties : L!SeparationOfDuties(s) \subseteq L!SeparationOfDuties(s \cup t)
  /\ \E s, t \in Duties : /\ L!SeparationOfDuties(s) = {} /\ L!SeparationOfDuties(t) = {}
                          /\ L!SeparationOfDuties(s \cup t) # {}

(* Seats (seats.py): the two directions of the table agree, each channel's part *)
(* of it too; an unbind is of the place, whoever sits there by then.            *)
Places == [channel : {"c", "d"}, role : {"r"}]
SeatTables == UNION {[places -> {"a", "b"}] : places \in SUBSET Places}
ASSUME SeatsAgree ==
  \A seats \in SeatTables, p \in Places, s \in {"a", "b"} :
    LET bound == L!Bind(seats, p, s) IN
    /\ \A q \in Places : (q \in L!HeldBy(bound, s)) <=> (L!Holder(bound, q, "none") = s)
    /\ \A t \in {"a", "b"} \ {s} : L!HeldBy(bound, t) = L!HeldBy(seats, t) \ {p}
    /\ p \in L!SeatsOf(bound, p.channel)
    /\ L!Unbind(bound, p) = L!Unbind(seats, p)

(* query of audit.py answers the events that match and have fewer than `limit`  *)
(* matching ones after them, the last recorded first, a negative limit asking   *)
(* for none; and what the sink in memory keeps is the end of the trail.         *)
Events == [subject : {"a", "b"}, at : {1, 2}]
Filters == {<<>>, [subject |-> "a"]}
Later(trail, i, filter, since) ==
  {j \in (i + 1)..Len(trail) : L!Matches(trail[j], filter, since)}
ASSUME QueriesAreTheNewest ==
  \A trail \in BoundedSeq(Events, 3), filter \in Filters, since \in 1..2, limit \in -1..3 :
    LET found == {i \in DOMAIN trail :
                    /\ L!Matches(trail[i], filter, since)
                    /\ Cardinality(Later(trail, i, filter, since)) < limit}
        order == SetToSortSeq(found, LAMBDA i, j : i > j)
    IN  L!Query(trail, filter, since, limit) = [n \in DOMAIN order |-> trail[order[n]]]

ASSUME MemoryKeepsTheLatest ==
  \A trail \in BoundedSeq(Events, 3), capacity \in 0..4 :
    FoldLeft(LAMBDA kept, e : L!Remember(kept, e, capacity), <<>>, trail)
      = SubSeq(trail, IF Len(trail) > capacity THEN Len(trail) - capacity + 1 ELSE 1, Len(trail))
=============================================================================
