--------------------------- MODULE IncidentLifecycle ---------------------------
(***************************************************************************)
(* The transitions the domain model allows an incident: open to            *)
(* acknowledged, again by whoever takes it over, and from either to        *)
(* resolved, which is final.  A row may come loose: then nothing is        *)
(* promised about it any more.  In IncidentResponse the rows come loose    *)
(* that a command reads in the middle of another one, and no others.       *)
(***************************************************************************)
CONSTANTS Incidents, Operators, None

VARIABLES incident,  \* incident[i]: the row of incident i, or None
          loose      \* incidents about which nothing is promised

vars == <<incident, loose>>

Row == [status : {"open", "acknowledged", "resolved"},
        acknowledgedBy : Operators \cup {None}, resolvedBy : Operators \cup {None}]

Init == incident = [i \in Incidents |-> None] /\ loose = {}

Open(i) ==
    /\ incident[i] = None
    /\ incident' = [incident EXCEPT ![i] =
                      [status |-> "open", acknowledgedBy |-> None, resolvedBy |-> None]]
    /\ UNCHANGED loose

Unresolved(i) == incident[i] # None /\ incident[i].status # "resolved"

Acknowledge(i, o) ==
    /\ Unresolved(i)
    /\ incident' = [incident EXCEPT ![i].status = "acknowledged", ![i].acknowledgedBy = o]
    /\ UNCHANGED loose

\* Resolving an open incident acknowledges it on the way.
Resolve(i, o) ==
    /\ Unresolved(i)
    /\ incident' = [incident EXCEPT ![i].status = "resolved", ![i].resolvedBy = o,
                      ![i].acknowledgedBy = IF @ = None THEN o ELSE @]
    /\ UNCHANGED loose

Loosen(i) ==
    /\ loose' = loose \cup {i}
    /\ UNCHANGED incident

\* Any change to a row that came loose.
Drift(i) ==
    /\ i \in loose
    /\ \E row \in Row : incident' = [incident EXCEPT ![i] = row]
    /\ UNCHANGED loose

Next == \E i \in Incidents :
           \/ Open(i)
           \/ \E o \in Operators : Acknowledge(i, o) \/ Resolve(i, o)
           \/ Loosen(i)
           \/ Drift(i)

Spec == Init /\ [][Next]_vars
=============================================================================
