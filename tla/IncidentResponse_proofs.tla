------------------------ MODULE IncidentResponse_proofs ------------------------
(***************************************************************************)
(* Theorems about IncidentResponse, for every number of alerts and of      *)
(* commands, and whether commands are cut off or not.                      *)
(***************************************************************************)
EXTENDS IncidentResponse, TLAPS

\* The entity an acknowledgement or a resolution saves is a row, and it names an
\* acknowledger if the one it was made from did so when it was not open.
LEMMA HandledRow ==
    ASSUME NEW row \in IncidentRow, NEW c \in Commands,
           NEW kind \in {"acknowledge", "resolve"}
    PROVE  /\ Handled(row, c, kind) \in IncidentRow
           /\ Handled(row, c, kind).status = Target(kind)
           /\ Handled(row, c, kind).acknowledgedBy \in {row.acknowledgedBy, c}
           /\ Handled(row, c, kind).resolvedBy \in {row.resolvedBy, c}
           /\ (row.status # "open" => row.acknowledgedBy # None)
                 => Handled(row, c, kind).acknowledgedBy # None
<1>1. CASE kind = "acknowledge"
  BY <1>1, NoneAssumption DEF Handled, IncidentRow, Statuses, Target
<1>2. CASE kind # "acknowledge"
  BY <1>2, NoneAssumption DEF Handled, IncidentRow, Statuses, Target
<1> QED
  BY <1>1, <1>2

\* An UPDATE writes a row; and if the row is still the one the entity was compared
\* to, the row becomes the entity.
LEMMA UpdatedRow ==
    ASSUME NEW row \in IncidentRow, NEW entity \in IncidentRow, NEW columns
    PROVE  /\ Updated(row, entity, columns) \in IncidentRow
           /\ Updated(row, entity, columns).status =
                IF "status" \in columns THEN entity.status ELSE row.status
           /\ Updated(row, entity, columns).acknowledgedBy =
                IF "acknowledgedBy" \in columns THEN entity.acknowledgedBy ELSE row.acknowledgedBy
           /\ Updated(row, entity, columns).resolvedBy =
                IF "resolvedBy" \in columns THEN entity.resolvedBy ELSE row.resolvedBy
  BY DEF Updated, IncidentRow

LEMMA UpdatedByDiff ==
    ASSUME NEW row \in IncidentRow, NEW entity \in IncidentRow
    PROVE  Updated(row, entity, Diff(entity, row)) = entity
  BY DEF Updated, Diff, Columns, IncidentRow

\* The tables and the commands as TypeOK describes them, and a command that was
\* cut off is over.
IInv == TypeOK /\ \A c \in cut : cpc[c] = "done"

LEMMA IInvInit == Init => IInv
  BY NoneAssumption, NoRowAssumption DEF Init, IInv, TypeOK, InFlight

\* Every step of a command keeps the tables in their domains.
LEMMA IInvStep == IInv /\ [Next]_vars => IInv'
<1> SUFFICES ASSUME IInv, [Next]_vars PROVE IInv'
  OBVIOUS
<1> USE NoneAssumption, NoRowAssumption
    DEF IInv, TypeOK, Engaged, InFlight, Handling, Saving, Goto, history, commandVars, Kinds
<1>1. ASSUME NEW c \in Commands, NEW a \in Alerts, NEW kind \in {"create", "raise"},
             RaiseAlert(c, a, kind)
      PROVE  IInv'
  <2>1. PICK severity \in Severities, pc \in {"incident", "audit", "action"} :
          /\ alerts' = [alerts EXCEPT ![a] = [severity |-> severity, status |-> "open"]]
          /\ cpc' = [cpc EXCEPT ![c] = pc]
          /\ pc = "action" => kind = "create"
    BY <1>1 DEF RaiseAlert
  <2>2. [severity |-> severity, status |-> "open"] \in AlertRow
    BY DEF AlertRow, Statuses
  <2>3. alerts' \in [Alerts -> AlertRow \cup {None}] /\ alerts'[a] # None
    BY <2>1, <2>2
  <2>4. /\ cpc[c] = "idle" /\ alerts[a] = None
        /\ ckind' = [ckind EXCEPT ![c] = kind] /\ calert' = [calert EXCEPT ![c] = a]
        /\ UNCHANGED <<incidents, actions, audit, events, cent, cdiff, cut, contended>>
    BY <1>1 DEF RaiseAlert
  <2>5. \A b \in Alerts : alerts[b] # None => alerts'[b] # None
    BY <2>1, <2>3
  <2>6. ASSUME NEW d \in Commands, cpc'[d] \in InFlight PROVE Engaged(d)'
    <3>1. CASE d = c
      BY <3>1, <2>1, <2>3, <2>4
    <3>2. CASE d # c
      BY <3>2, <2>1, <2>4, <2>5, <2>6
    <3> QED
      BY <3>1, <3>2
  <2>7. TypeOK'
    BY <2>1, <2>3, <2>4, <2>5, <2>6
  <2> QED
    BY <2>1, <2>4, <2>7
<1>2. ASSUME NEW c \in Commands, OpenIncident(c) PROVE IInv'
  <2>1. Fresh \in IncidentRow
    BY DEF Fresh, IncidentRow, Statuses
  <2> QED
    BY <1>2, <2>1 DEF OpenIncident
<1>3. ASSUME NEW c \in Commands, NEW a \in Alerts, NEW kind \in {"acknowledge", "resolve"},
             LoadIncident(c, a, kind)
      PROVE  IInv'
  <2>1. incidents[a] \in IncidentRow /\ alerts[a] # None
    BY <1>3 DEF LoadIncident, MayHandle
  <2>2. Handled(incidents[a], c, kind) \in IncidentRow
    BY <2>1, HandledRow
  <2>3. cent' \in [Commands -> IncidentRow \cup {None}] /\ cent'[c] # None
    BY <1>3, <2>2 DEF LoadIncident
  <2>4. contended' \subseteq Alerts
    BY <1>3 DEF LoadIncident
  <2>5. /\ cpc[c] = "idle" /\ cpc' = [cpc EXCEPT ![c] = "save"]
        /\ ckind' = [ckind EXCEPT ![c] = kind] /\ calert' = [calert EXCEPT ![c] = a]
        /\ UNCHANGED <<alerts, incidents, actions, audit, events, cdiff, cut>>
    BY <1>3 DEF LoadIncident
  <2>6. incidents[a] # None
    BY <1>3 DEF LoadIncident, MayHandle
  <2>7. \A d \in Commands \ {c} : /\ cpc'[d] = cpc[d] /\ ckind'[d] = ckind[d]
                                  /\ calert'[d] = calert[d] /\ cent'[d] = cent[d]
    BY <1>3, <2>5 DEF LoadIncident
  <2>8. ASSUME NEW d \in Commands, cpc'[d] \in InFlight PROVE Engaged(d)'
    <3>1. CASE d = c
      BY <3>1, <2>1, <2>3, <2>5, <2>6
    <3>2. CASE d # c
      BY <3>2, <2>5, <2>7, <2>8
    <3> QED
      BY <3>1, <3>2
  <2>9. TypeOK'
    BY <2>3, <2>4, <2>5, <2>8
  <2> QED
    BY <2>5, <2>9
<1>4. ASSUME NEW c \in Commands, NEW a \in Alerts, Reject(c, a) PROVE IInv'
  BY <1>4 DEF Reject
<1>5. ASSUME NEW c \in Commands, SaveIncident(c) PROVE IInv'
  <2> DEFINE row == Updated(incidents[calert[c]], cent[c], cdiff[c])
  <2>1. calert[c] \in Alerts /\ incidents[calert[c]] \in IncidentRow /\ cent[c] \in IncidentRow
    BY <1>5 DEF SaveIncident
  <2>2. row \in IncidentRow
    BY <2>1, UpdatedRow
  <2>3. incidents' = [incidents EXCEPT ![calert[c]] = row]
    BY <1>5 DEF SaveIncident
  <2> HIDE DEF row
  <2> QED
    BY <1>5, <2>1, <2>2, <2>3 DEF SaveIncident
<1>5a. ASSUME NEW c \in Commands, SelectIncident(c) PROVE IInv'
  BY <1>5a DEF SelectIncident, Diff
<1>6. ASSUME NEW c \in Commands, UpdateAlert(c) PROVE IInv'
  <2> DEFINE row == [alerts[calert[c]] EXCEPT !.status = Target(ckind[c])]
  <2>1. calert[c] \in Alerts /\ alerts[calert[c]] \in AlertRow
    BY <1>6 DEF UpdateAlert
  <2>2. row \in AlertRow
    BY <2>1 DEF AlertRow, Target, Statuses
  <2>3. alerts' = [alerts EXCEPT ![calert[c]] = row]
    BY <1>6 DEF UpdateAlert
  <2> HIDE DEF row
  <2> QED
    BY <1>6, <2>1, <2>2, <2>3 DEF UpdateAlert
<1>7. ASSUME NEW c \in Commands, RecordAction(c) PROVE IInv'
  <2>1. By(c, ActionOf(ckind[c])) \in [action : ActionNames, by : Commands, alert : Alerts]
    BY <1>7 DEF RecordAction, By, ActionOf, ActionNames
  <2> QED
    BY <1>7, <2>1 DEF RecordAction
<1>8. ASSUME NEW c \in Commands, RecordAudit(c) PROVE IInv'
  <2>1. By(c, EntryOf(ckind[c])) \in [action : EntryNames, by : Commands, alert : Alerts]
    BY <1>8 DEF RecordAudit, By, EntryOf, EntryNames
  <2> QED
    BY <1>8, <2>1 DEF RecordAudit
<1>8a. ASSUME NEW c \in Commands, RecordIncidentAudit(c) PROVE IInv'
  BY <1>8a DEF RecordIncidentAudit, By, EntryNames
<1>9. ASSUME NEW c \in Commands, Publish(c) PROVE IInv'
  <2>1. EventsOf(c) \subseteq [topic : {"alert.raised", "incident.updated"}, alert : Alerts,
                               status : Statuses]
    BY <1>9 DEF Publish, EventsOf, Statuses, Target
  <2> QED
    BY <1>9, <2>1 DEF Publish
<1>10. ASSUME NEW c \in Commands, Abort(c) PROVE IInv'
  BY <1>10 DEF Abort
<1>11. CASE Finished \/ UNCHANGED vars
  BY <1>11 DEF Finished, vars
<1> QED
  BY <1>1, <1>2, <1>3, <1>4, <1>5, <1>5a, <1>6, <1>7, <1>8, <1>8a, <1>9, <1>10, <1>11
  DEF Next, Step

\* Every row, entry, event and in-memory entity stays in its domain, and no
\* command works on an alert or an incident that is not there.
THEOREM TypeCorrect == Spec => []TypeOK
<1>1. IInv => TypeOK
  BY DEF IInv
<1> QED
  BY <1>1, IInvInit, IInvStep, PTL DEF Spec

-----------------------------------------------------------------------------

\* A save writes its columns of one row, which stays a row.
LEMMA SavedRow ==
    ASSUME IInv, NEW c \in Commands, SaveIncident(c)
    PROVE  /\ cpc[c] = "write" /\ cpc'[c] = "update"
           /\ \A d \in Commands \ {c} : cpc'[d] = cpc[d]
           /\ UNCHANGED <<alerts, actions, audit, events, ckind, calert, cent, cdiff>>
           /\ UNCHANGED <<cut, contended>>
           /\ ckind[c] \in {"acknowledge", "resolve"}
           /\ calert[c] \in Alerts
           /\ incidents[calert[c]] \in IncidentRow /\ incidents'[calert[c]] \in IncidentRow
           /\ cent[c] \in IncidentRow
           /\ incidents'[calert[c]] = Updated(incidents[calert[c]], cent[c], cdiff[c])
           /\ \A b \in Alerts \ {calert[c]} : incidents'[b] = incidents[b]
           /\ \A b \in Alerts : incidents[b] = None <=> incidents'[b] = None
<1> USE DEF IInv, TypeOK
<1>1. /\ cpc[c] = "write" /\ cpc'[c] = "update"
      /\ \A d \in Commands \ {c} : cpc'[d] = cpc[d]
      /\ UNCHANGED <<alerts, actions, audit, events, ckind, calert, cent, cdiff>>
      /\ UNCHANGED <<cut, contended>>
      /\ ckind[c] \in {"acknowledge", "resolve"}
      /\ calert[c] \in Alerts /\ incidents[calert[c]] \in IncidentRow /\ cent[c] \in IncidentRow
  BY DEF SaveIncident, Goto, history, Engaged, InFlight, Handling, Saving
<1>2. incidents' = [incidents EXCEPT ![calert[c]] =
                     Updated(incidents[calert[c]], cent[c], cdiff[c])]
  BY DEF SaveIncident
<1>3. Updated(incidents[calert[c]], cent[c], cdiff[c]) \in IncidentRow
  BY <1>1, UpdatedRow
<1> DEFINE row == Updated(incidents[calert[c]], cent[c], cdiff[c])
<1> HIDE DEF row
<1>4. /\ incidents'[calert[c]] = row
      /\ \A b \in Alerts \ {calert[c]} : incidents'[b] = incidents[b]
  BY <1>1, <1>2 DEF row
<1> QED
  BY <1>1, <1>3, <1>4, NoRowAssumption DEF row

\* A command that was issued keeps its subject and its kind; it leaves a
\* statement by executing it or by being cut off there; and what is over stays
\* over.
LEMMA CommandFrame ==
    ASSUME IInv, [Next]_vars, NEW c \in Commands
    PROVE  /\ cpc[c] # "idle" => calert'[c] = calert[c] /\ ckind'[c] = ckind[c]
           /\ cut \subseteq cut'
           /\ cpc[c] = "done" => cpc'[c] = "done"
           /\ cpc[c] = "incident" => cpc'[c] = "incident" \/ OpenIncident(c) \/ c \in cut'
           /\ cpc[c] = "update" => cpc'[c] = "update" \/ UpdateAlert(c) \/ c \in cut'
           /\ cpc[c] = "action" => cpc'[c] = "action" \/ RecordAction(c) \/ c \in cut'
<1> USE DEF IInv, TypeOK, Goto, history, commandVars
<1>1. ASSUME NEW d \in Commands, NEW a \in Alerts, NEW kind,
             RaiseAlert(d, a, kind) \/ LoadIncident(d, a, kind)
      PROVE  /\ cpc[d] = "idle" /\ cut' = cut
             /\ \A e \in Commands \ {d} :
                   calert'[e] = calert[e] /\ ckind'[e] = ckind[e] /\ cpc'[e] = cpc[e]
  BY <1>1 DEF RaiseAlert, LoadIncident
<1>2. ASSUME NEW d \in Commands,
             Step(d) \/ Abort(d) \/ \E a \in Alerts : Reject(d, a)
      PROVE  /\ UNCHANGED <<calert, ckind>> /\ cut \subseteq cut'
             /\ cpc[d] # "done"
             /\ \A e \in Commands \ {d} : cpc'[e] = cpc[e]
             /\ cpc[d] \in {"incident", "update", "action"} =>
                  OpenIncident(d) \/ UpdateAlert(d) \/ RecordAction(d) \/ d \in cut'
  BY <1>2 DEF Step, OpenIncident, SelectIncident, SaveIncident, UpdateAlert, RecordAction,
              RecordAudit, RecordIncidentAudit, Publish, Abort, Reject, InFlight
<1>3. ASSUME NEW d \in Commands
      PROVE  /\ OpenIncident(d) => cpc[d] = "incident"
             /\ UpdateAlert(d) => cpc[d] = "update"
             /\ RecordAction(d) => cpc[d] = "action"
  BY DEF OpenIncident, UpdateAlert, RecordAction
<1>4. CASE Finished \/ UNCHANGED vars
  BY <1>4 DEF Finished, vars
<1> QED
  BY <1>1, <1>2, <1>3, <1>4 DEF Next

\* What a step may do to the tables of alerts and incidents.
LEMMA RowFrame ==
    ASSUME IInv, [Next]_vars
    PROVE  \/ UNCHANGED <<alerts, incidents>>
           \/ \E c \in Commands, a \in Alerts, kind \in {"create", "raise"} : RaiseAlert(c, a, kind)
           \/ \E c \in Commands : OpenIncident(c) \/ SaveIncident(c) \/ UpdateAlert(c)
  BY DEF Next, Step, LoadIncident, Reject, SelectIncident, RecordAction, RecordAudit,
         RecordIncidentAudit, Publish, Abort, Finished, vars

\* Only a command that raised a critical alert stands between the two inserts.
LEMMA EscalationStep == IInv /\ EscalationComplete /\ [Next]_vars => EscalationComplete'
<1> DEFINE Missing(a) == alerts[a] # None /\ alerts[a].severity = "critical" /\ incidents[a] = None
           Coming(a, c) == /\ calert[c] = a /\ ckind[c] \in {"create", "raise"}
                           /\ cpc[c] = "incident" \/ c \in cut
<1> SUFFICES ASSUME IInv, EscalationComplete, [Next]_vars, NEW a \in Alerts, Missing(a)'
             PROVE  \E c \in Commands : Coming(a, c)'
  BY DEF EscalationComplete
<1>1. CASE Missing(a)
  <2> PICK c \in Commands : Coming(a, c)
    BY <1>1 DEF EscalationComplete
  <2>1. ~OpenIncident(c)
    BY NoneAssumption, NoRowAssumption
    DEF OpenIncident, IInv, TypeOK, Fresh, IncidentRow, Statuses
  <2>2. cpc[c] # "idle" /\ (c \in cut => c \in cut')
    BY CommandFrame DEF IInv
  <2> QED
    BY <2>1, <2>2, CommandFrame
<1>2. CASE ~Missing(a)
  <2>1. ASSUME NEW d \in Commands, NEW b \in Alerts, NEW kind \in {"create", "raise"},
               RaiseAlert(d, b, kind)
        PROVE  \E c \in Commands : Coming(a, c)'
    <3>1. a = b
      BY <1>2, <2>1 DEF RaiseAlert, IInv, TypeOK
    <3>2. Coming(a, d)'
      BY <2>1, <3>1 DEF RaiseAlert, IInv, TypeOK, Goto
    <3> QED
      BY <3>2
  <2>2. ASSUME NEW d \in Commands, OpenIncident(d) \/ SaveIncident(d) PROVE FALSE
    <3>1. OpenIncident(d) => /\ Missing(a)' => Missing(a)
      BY NoRowAssumption DEF OpenIncident, IInv, TypeOK, Fresh, IncidentRow, Statuses
    <3>2. SaveIncident(d) => /\ Missing(a)' => Missing(a)
      BY SavedRow
    <3> QED
      BY <1>2, <2>2, <3>1, <3>2
  <2>3. ASSUME NEW d \in Commands, UpdateAlert(d) PROVE FALSE
    <3>1. alerts'[a] # None => alerts[a] # None /\ alerts'[a].severity = alerts[a].severity
      BY <2>3 DEF UpdateAlert, IInv, TypeOK, Engaged, InFlight, AlertRow
    <3> QED
      BY <1>2, <2>3, <3>1 DEF UpdateAlert
  <2> QED
    BY <1>2, <2>1, <2>2, <2>3, RowFrame
<1> QED
  BY <1>1, <1>2

\* Whoever raised a critical alert without its incident is about to open it, or
\* was cut off between the two inserts.
THEOREM EscalationIsComplete == Spec => []EscalationComplete
<1>1. Init => EscalationComplete
  BY DEF Init, EscalationComplete
<1> QED
  BY <1>1, IInvInit, IInvStep, EscalationStep, PTL DEF Spec

-----------------------------------------------------------------------------

\* Every command that took an incident out of "open" updates the alert next, or
\* was cut off.
LEMMA FollowStep == IInv /\ AlertFollowsIncident /\ [Next]_vars => AlertFollowsIncident'
<1> DEFINE Behind(a) == /\ incidents[a] # None /\ incidents[a].status # "open"
                        /\ alerts[a].status = "open"
           Coming(a, c) == calert[c] = a /\ (cpc[c] = "update" \/ c \in cut)
<1> SUFFICES ASSUME IInv, AlertFollowsIncident, [Next]_vars, NEW a \in Alerts, Behind(a)'
             PROVE  \E c \in Commands : Coming(a, c)'
  BY DEF AlertFollowsIncident
<1>1. ASSUME NEW c \in Commands, UpdateAlert(c), calert[c] = a PROVE FALSE
  BY <1>1 DEF UpdateAlert, Target, AlertRow, Engaged, InFlight, IInv, TypeOK
<1>2. CASE Behind(a)
  <2> PICK c \in Commands : Coming(a, c)
    BY <1>2 DEF AlertFollowsIncident
  <2>1. cpc[c] # "idle" /\ (c \in cut => c \in cut')
    BY CommandFrame DEF IInv
  <2> QED
    BY <1>1, <2>1, CommandFrame
<1>3. CASE ~Behind(a)
  <2>1. ASSUME NEW d \in Commands, NEW b \in Alerts, NEW kind, RaiseAlert(d, b, kind) PROVE FALSE
    BY <1>3, <2>1 DEF RaiseAlert, IInv, TypeOK
  <2>2. ASSUME NEW d \in Commands, OpenIncident(d) PROVE FALSE
    BY <1>3, <2>2 DEF OpenIncident, Fresh, IInv, TypeOK
  <2>3. ASSUME NEW d \in Commands, SaveIncident(d) PROVE Coming(a, d)'
    <3>1. calert[d] = a
      BY <1>3, <2>3, SavedRow
    <3> QED
      BY <2>3, <3>1, SavedRow
  <2>4. ASSUME NEW d \in Commands, UpdateAlert(d) PROVE FALSE
    BY <1>1, <1>3, <2>4 DEF UpdateAlert, IInv, TypeOK
  <2> QED
    BY <1>3, <2>1, <2>2, <2>3, <2>4, RowFrame
<1> QED
  BY <1>2, <1>3

\* In whatever order acknowledgements and resolutions overlap, a handled incident
\* does not leave its alert open, unless a command was cut off before it told
\* the alert.
THEOREM AlertsFollow == Spec => []AlertFollowsIncident
<1>1. Init => AlertFollowsIncident
  BY DEF Init, AlertFollowsIncident
<1> QED
  BY <1>1, IInvInit, IInvStep, FollowStep, PTL DEF Spec

-----------------------------------------------------------------------------

\* An incident is opened once, by the one command that raised its alert, and the
\* alert is open until then.
OpeningInv ==
    /\ IInv
    /\ \A a \in Alerts : alerts[a] # None /\ incidents[a] = None => alerts[a].status = "open"
    /\ \A c \in Commands : cpc[c] = "incident" => incidents[calert[c]] = None
    /\ \A c, d \in Commands :
          cpc[c] = "incident" /\ cpc[d] = "incident" /\ calert[c] = calert[d] => c = d

LEMMA OpeningStep == OpeningInv /\ [Next]_vars => OpeningInv'
<1> SUFFICES ASSUME OpeningInv, [Next]_vars PROVE OpeningInv'
  OBVIOUS
<1>0. IInv' /\ IInv
  BY IInvStep DEF OpeningInv
<1> USE <1>0 DEF OpeningInv, IInv, TypeOK, Goto
<1>1. ASSUME NEW c \in Commands, NEW a \in Alerts, NEW kind \in {"create", "raise"},
             RaiseAlert(c, a, kind)
      PROVE  OpeningInv'
  <2>1. /\ alerts[a] = None /\ incidents[a] = None
        /\ calert'[c] = a /\ incidents' = incidents
        /\ alerts'[a].status = "open"
        /\ \A b \in Alerts \ {a} : alerts'[b] = alerts[b]
        /\ \A d \in Commands \ {c} : cpc'[d] = cpc[d] /\ calert'[d] = calert[d]
    BY <1>1 DEF RaiseAlert
  <2>2. \A d \in Commands \ {c} : cpc[d] = "incident" => calert[d] # a /\ calert[d] \in Alerts
    BY <2>1 DEF Engaged, InFlight
  <2> QED
    BY <2>1, <2>2
<1>2. ASSUME NEW c \in Commands, OpenIncident(c) PROVE OpeningInv'
  <2>1. /\ calert[c] \in Alerts /\ cpc[c] = "incident" /\ cpc'[c] # "incident"
        /\ \A d \in Commands \ {c} : cpc'[d] = cpc[d]
        /\ UNCHANGED <<calert, alerts>>
        /\ \A b \in Alerts \ {calert[c]} : incidents'[b] = incidents[b]
    BY <1>2 DEF OpenIncident, Engaged, InFlight
  <2>2. incidents'[calert[c]] # None
    BY <1>2, <2>1, NoRowAssumption DEF OpenIncident, Fresh, IncidentRow, Statuses
  <2>3. \A d \in Commands \ {c} : cpc[d] = "incident" =>
           calert[d] \in Alerts \ {calert[c]}
    BY <2>1 DEF Engaged, InFlight
  <2> QED
    BY <2>1, <2>2, <2>3
<1>3. ASSUME NEW c \in Commands, SaveIncident(c) PROVE OpeningInv'
  <2>1. /\ UNCHANGED <<alerts, calert>> /\ cpc'[c] = "update"
        /\ \A d \in Commands \ {c} : cpc'[d] = cpc[d]
        /\ \A b \in Alerts : incidents[b] = None <=> incidents'[b] = None
    BY <1>3, SavedRow
  <2>2. \A d \in Commands : cpc[d] = "incident" => calert[d] \in Alerts
    BY DEF Engaged, InFlight
  <2> QED
    BY <2>1, <2>2
<1>4. ASSUME NEW c \in Commands, UpdateAlert(c) PROVE OpeningInv'
  <2>1. /\ UNCHANGED <<incidents, calert>> /\ cpc'[c] = "action"
        /\ \A d \in Commands \ {c} : cpc'[d] = cpc[d]
        /\ incidents[calert[c]] # None
        /\ \A b \in Alerts \ {calert[c]} : alerts'[b] = alerts[b]
    BY <1>4 DEF UpdateAlert, Engaged, InFlight, Handling, Saving
  <2> QED
    BY <2>1
<1>5. ASSUME NEW c \in Commands, NEW a \in Alerts, NEW kind,
             LoadIncident(c, a, kind) \/ Reject(c, a)
      PROVE  OpeningInv'
  <2>1. /\ UNCHANGED <<alerts, incidents>> /\ cpc'[c] # "incident"
        /\ \A d \in Commands \ {c} : cpc'[d] = cpc[d] /\ calert'[d] = calert[d]
    BY <1>5 DEF LoadIncident, Reject
  <2> QED
    BY <2>1
<1>6. ASSUME NEW c \in Commands,
             \/ SelectIncident(c) \/ RecordAction(c) \/ RecordAudit(c)
             \/ RecordIncidentAudit(c) \/ Publish(c) \/ Abort(c)
      PROVE  OpeningInv'
  <2>1. /\ UNCHANGED <<alerts, incidents, calert>> /\ cpc'[c] # "incident"
        /\ \A d \in Commands \ {c} : cpc'[d] = cpc[d]
    BY <1>6 DEF SelectIncident, RecordAction, RecordAudit, RecordIncidentAudit, Publish, Abort
  <2> QED
    BY <2>1
<1>7. CASE Finished \/ UNCHANGED vars
  BY <1>7 DEF Finished, vars, commandVars
<1> QED
  BY <1>1, <1>2, <1>3, <1>4, <1>5, <1>6, <1>7 DEF Next, Step

LEMMA OpeningInit == Init => OpeningInv
  BY IInvInit DEF Init, OpeningInv

-----------------------------------------------------------------------------

\* A row names its acknowledger once it is not open; the entity a command is
\* about to save is not open and does.  The columns its UPDATE leaves alone are
\* filled in already.
AcknowledgerInv ==
    /\ OpeningInv
    /\ \A a \in Alerts : incidents[a] # None =>
          (incidents[a].status = "open" <=> incidents[a].acknowledgedBy = None)
    /\ \A c \in Commands : cpc[c] \in Saving =>
          cent[c].status # "open" /\ cent[c].acknowledgedBy # None
    /\ \A c \in Commands : cpc[c] = "write" =>
          /\ "status" \notin cdiff[c] => incidents[calert[c]].status # "open"
          /\ "acknowledgedBy" \notin cdiff[c] => incidents[calert[c]].acknowledgedBy # None

LEMMA AcknowledgerStep == AcknowledgerInv /\ [Next]_vars => AcknowledgerInv'
<1> SUFFICES ASSUME AcknowledgerInv, [Next]_vars PROVE AcknowledgerInv'
  OBVIOUS
<1>0. OpeningInv' /\ OpeningInv /\ IInv
  BY OpeningStep DEF AcknowledgerInv, OpeningInv
<1> USE DEF AcknowledgerInv, Goto, Saving
<1>1. ASSUME NEW c \in Commands, NEW a \in Alerts, NEW kind \in {"acknowledge", "resolve"},
             LoadIncident(c, a, kind)
      PROVE  AcknowledgerInv'
  <2>1. incidents[a] \in IncidentRow
    BY <1>0, <1>1 DEF LoadIncident, MayHandle, IInv, TypeOK
  <2>2. Handled(incidents[a], c, kind).acknowledgedBy # None
        /\ Handled(incidents[a], c, kind).status # "open"
    BY <1>1, <2>1, HandledRow DEF LoadIncident, MayHandle, Target
  <2>3. /\ cent'[c].acknowledgedBy # None /\ cent'[c].status # "open"
        /\ \A d \in Commands \ {c} :
              cent'[d] = cent[d] /\ cpc'[d] = cpc[d] /\ calert'[d] = calert[d]
        /\ cpc'[c] = "save" /\ UNCHANGED <<incidents, cdiff>>
    BY <1>0, <1>1, <2>2 DEF LoadIncident, IInv, TypeOK
  <2>4. \A d \in Commands : cpc'[d] = "write" =>
           /\ d # c /\ cpc[d] = "write" /\ calert'[d] = calert[d]
    BY <2>3
  <2> QED
    BY <1>0, <2>3, <2>4
<1>2. ASSUME NEW c \in Commands, SelectIncident(c) PROVE AcknowledgerInv'
  <2>1. /\ cpc[c] = "save" /\ cpc'[c] = "write"
        /\ \A d \in Commands \ {c} : cpc'[d] = cpc[d] /\ cdiff'[d] = cdiff[d]
        /\ UNCHANGED <<incidents, calert, cent>>
        /\ cdiff'[c] = Diff(cent[c], incidents[calert[c]])
    BY <1>0, <1>2 DEF SelectIncident, IInv, TypeOK
  <2> QED
    BY <1>0, <2>1 DEF Diff, Columns
<1>2a. ASSUME NEW c \in Commands, SaveIncident(c) PROVE AcknowledgerInv'
  <2> DEFINE row == incidents'[calert[c]]
  <2>1. /\ row.status # "open" /\ row.acknowledgedBy # None
        /\ \A d \in Commands : cpc'[d] = "write" => cpc[d] = "write" /\ cent'[d] = cent[d]
    BY <1>2a, <1>0, SavedRow, UpdatedRow
  <2>2. ASSUME NEW a \in Alerts, incidents'[a] # None
        PROVE  incidents'[a].status = "open" <=> incidents'[a].acknowledgedBy = None
    BY <1>2a, <1>0, <2>1, <2>2, SavedRow
  <2>3. ASSUME NEW d \in Commands, cpc'[d] = "write"
        PROVE  /\ "status" \notin cdiff'[d] => incidents'[calert'[d]].status # "open"
               /\ "acknowledgedBy" \notin cdiff'[d] =>
                    incidents'[calert'[d]].acknowledgedBy # None
    <3>1. calert[d] \in Alerts
      BY <1>0, <2>1, <2>3 DEF IInv, TypeOK, Engaged, InFlight
    <3> QED
      BY <1>2a, <1>0, <2>1, <2>3, <3>1, SavedRow
  <2>4. \A d \in Commands : cpc'[d] \in Saving =>
           cent'[d].status # "open" /\ cent'[d].acknowledgedBy # None
    BY <1>2a, <1>0, SavedRow
  <2> QED
    BY <1>0, <2>2, <2>3, <2>4
<1>3. ASSUME NEW c \in Commands, OpenIncident(c) PROVE AcknowledgerInv'
  <2>1. /\ incidents[calert[c]] = None /\ calert[c] \in Alerts
        /\ incidents' = [incidents EXCEPT ![calert[c]] = Fresh]
        /\ UNCHANGED <<calert, cent, cdiff>>
        /\ cpc'[c] \notin Saving /\ \A d \in Commands \ {c} : cpc'[d] = cpc[d]
    BY <1>0, <1>3 DEF OpenIncident, OpeningInv, IInv, TypeOK, Engaged, InFlight
  <2>2. \A d \in Commands : cpc[d] = "write" =>
           calert[d] \in Alerts /\ incidents[calert[d]] # None
    BY <1>0 DEF IInv, TypeOK, Engaged, InFlight, Handling
  <2>3. \A a \in Alerts \ {calert[c]} : incidents'[a] = incidents[a]
    BY <1>0, <2>1 DEF IInv, TypeOK
  <2>4. incidents'[calert[c]].status = "open" /\ incidents'[calert[c]].acknowledgedBy = None
    BY <1>0, <2>1 DEF Fresh, IInv, TypeOK
  <2> QED
    BY <1>0, <2>1, <2>2, <2>3, <2>4
<1>4. ASSUME NEW c \in Commands, NEW a \in Alerts, NEW kind,
             RaiseAlert(c, a, kind) \/ Reject(c, a)
      PROVE  AcknowledgerInv'
  BY <1>0, <1>4 DEF RaiseAlert, Reject, IInv, TypeOK
<1>5. ASSUME NEW c \in Commands,
             \/ UpdateAlert(c) \/ RecordAction(c) \/ RecordAudit(c) \/ RecordIncidentAudit(c)
             \/ Publish(c) \/ Abort(c)
      PROVE  AcknowledgerInv'
  BY <1>0, <1>5
  DEF UpdateAlert, RecordAction, RecordAudit, RecordIncidentAudit, Publish, Abort, IInv, TypeOK
<1>6. CASE Finished \/ UNCHANGED vars
  BY <1>0, <1>6 DEF Finished, vars, commandVars
<1> QED
  BY <1>1, <1>2, <1>2a, <1>3, <1>4, <1>5, <1>6 DEF Next, Step

LEMMA AcknowledgerInit == Init => AcknowledgerInv
  BY OpeningInit DEF Init, AcknowledgerInv, Saving

\* A resolved incident names an acknowledger, whoever overwrote whom.
THEOREM AcknowledgerIsNamed == Spec => []AcknowledgementNamed
<1>1. AcknowledgerInv => AcknowledgementNamed
  BY DEF AcknowledgerInv, AcknowledgementNamed
<1> QED
  BY <1>1, AcknowledgerInit, AcknowledgerStep, PTL DEF Spec

-----------------------------------------------------------------------------

\* The operators that a row names.
Named(row) == {row.acknowledgedBy, row.resolvedBy} \ {None}

\* Whoever is named in the entity a command is about to save is that command's
\* operator, or was named in the row it read.
NamedInv ==
    /\ IInv
    /\ NamedOperatorsOnRecord
    /\ \A d \in Commands : cpc[d] \in Saving =>
          \A c \in Named(cent[d]) : c = d \/ OnRecord(calert[d], c)

\* What is on record stays on record.
LEMMA RecordKept ==
    ASSUME IInv, [Next]_vars, NEW a \in Alerts, NEW c \in Commands, OnRecord(a, c)
    PROVE  OnRecord(a, c)'
<1>1. actions \subseteq actions'
  BY DEF Next, Step, RaiseAlert, OpenIncident, LoadIncident, Reject, SelectIncident,
         SaveIncident, UpdateAlert, RecordAction, RecordAudit, RecordIncidentAudit, Publish, Abort,
         Finished, vars
<1>2. CASE \E x \in actions : x.by = c /\ x.alert = a
                              /\ x.action \in {"incident.acknowledge", "incident.resolve"}
  BY <1>1, <1>2 DEF OnRecord
<1>3. CASE /\ calert[c] = a /\ ckind[c] \in {"acknowledge", "resolve"}
           /\ cpc[c] \in {"update", "action"} \/ c \in cut
  <2>1. /\ calert'[c] = a /\ ckind'[c] \in {"acknowledge", "resolve"}
        /\ cut \subseteq cut'
    BY <1>3, CommandFrame DEF IInv
  <2>2. CASE UpdateAlert(c)
    BY <2>1, <2>2 DEF UpdateAlert, Goto, IInv, TypeOK, OnRecord
  <2>3. CASE RecordAction(c)
    <3> DEFINE x == By(c, ActionOf(ckind[c]))
    <3>1. x \in actions' /\ x.by = c /\ x.alert = a
          /\ x.action \in {"incident.acknowledge", "incident.resolve"}
      BY <1>3, <2>3 DEF RecordAction, By, ActionOf
    <3> QED
      BY <3>1 DEF OnRecord
  <2>4. CASE cpc'[c] \in {"update", "action"} \/ c \in cut'
    BY <2>1, <2>4 DEF OnRecord
  <2> QED
    BY <1>3, <2>1, <2>2, <2>3, <2>4, CommandFrame
<1> QED
  BY <1>2, <1>3 DEF OnRecord

LEMMA NamedStep == NamedInv /\ [Next]_vars => NamedInv'
<1> SUFFICES ASSUME NamedInv, [Next]_vars PROVE NamedInv'
  OBVIOUS
<1>0. IInv' /\ IInv
  BY IInvStep DEF NamedInv
<1>1. ASSUME NEW a \in Alerts, incidents'[a] # None, NEW c \in Named(incidents'[a])
      PROVE  OnRecord(a, c)'
  <2>0. c \in Commands
    BY <1>0, <1>1 DEF IInv, TypeOK, Named, IncidentRow
  <2>1. CASE incidents'[a] = incidents[a]
    BY <1>0, <1>1, <2>0, <2>1, RecordKept DEF NamedInv, NamedOperatorsOnRecord, Named
  <2>2. ASSUME NEW d \in Commands, OpenIncident(d), incidents'[a] # incidents[a] PROVE FALSE
    <3>1. incidents'[a] = Fresh
      BY <1>0, <2>2 DEF OpenIncident, IInv, TypeOK
    <3> QED
      BY <1>1, <3>1 DEF Named, Fresh
  <2>3. ASSUME NEW d \in Commands, SaveIncident(d), incidents'[a] # incidents[a]
        PROVE  OnRecord(a, c)'
    <3>1. calert[d] = a /\ cpc[d] = "write" /\ incidents[a] # None
      BY <1>0, <1>1, <2>3, SavedRow
    <3>a. c \in Named(incidents[a]) \cup Named(cent[d])
      BY <1>0, <1>1, <2>3, <3>1, SavedRow, UpdatedRow DEF Named
    <3>2. c = d \/ OnRecord(a, c)
      BY <3>1, <3>a DEF NamedInv, NamedOperatorsOnRecord, Named, Saving
    <3>3. calert'[d] = a /\ ckind'[d] \in {"acknowledge", "resolve"} /\ cpc'[d] = "update"
      BY <1>0, <2>3, <3>1, SavedRow
    <3>4. OnRecord(a, d)'
      BY <3>3 DEF OnRecord
    <3> QED
      BY <1>0, <2>0, <3>2, <3>4, RecordKept
  <2>4. \/ incidents'[a] = incidents[a]
        \/ \E d \in Commands : OpenIncident(d) \/ SaveIncident(d)
    BY <1>0, RowFrame DEF RaiseAlert, UpdateAlert
  <2> QED
    BY <2>1, <2>2, <2>3, <2>4
<1>2. ASSUME NEW d \in Commands, cpc'[d] \in Saving, NEW c \in Named(cent'[d])
      PROVE  c = d \/ OnRecord(calert[d], c)'
  <2>1. CASE cpc[d] \in Saving /\ cent'[d] = cent[d]
    <3>1. c \in Commands /\ calert[d] \in Alerts
      BY <1>0, <1>2, <2>1 DEF IInv, TypeOK, Named, IncidentRow, Engaged, InFlight, Handling, Saving
    <3>2. calert'[d] = calert[d]
      BY <1>0, <2>1, CommandFrame DEF Saving
    <3>3. c = d \/ OnRecord(calert[d], c)
      BY <1>2, <2>1 DEF NamedInv
    <3> QED
      BY <1>0, <3>1, <3>2, <3>3, RecordKept
  <2>2. ASSUME NEW a \in Alerts, NEW kind \in {"acknowledge", "resolve"}, LoadIncident(d, a, kind)
        PROVE  c = d \/ OnRecord(calert[d], c)'
    <3>1. incidents[a] \in IncidentRow /\ incidents[a] # None
      BY <1>0, <2>2 DEF LoadIncident, MayHandle, IInv, TypeOK
    <3>2. cent'[d] = Handled(incidents[a], d, kind) /\ calert'[d] = a
      BY <1>0, <2>2 DEF LoadIncident, IInv, TypeOK
    <3>3. c = d \/ c \in Named(incidents[a])
      BY <1>2, <3>1, <3>2, HandledRow DEF Named
    <3>4. c \in Named(incidents[a]) => c \in Commands /\ OnRecord(a, c)
      BY <3>1 DEF NamedInv, NamedOperatorsOnRecord, Named, IncidentRow
    <3> QED
      BY <1>0, <3>2, <3>3, <3>4, RecordKept
  <2>3. \/ cpc[d] \in Saving /\ cent'[d] = cent[d]
        \/ \E a \in Alerts, kind \in {"acknowledge", "resolve"} : LoadIncident(d, a, kind)
    <3> USE <1>0, <1>2 DEF IInv, TypeOK, Goto, Saving
    <3>1. ASSUME NEW e \in Commands, NEW a \in Alerts, NEW kind,
                 RaiseAlert(e, a, kind) \/ (LoadIncident(e, a, kind) /\ e # d)
          PROVE  cpc[d] \in Saving /\ cent'[d] = cent[d]
      BY <3>1 DEF RaiseAlert, LoadIncident
    <3>2. ASSUME NEW e \in Commands, Step(e) \/ Abort(e) \/ \E a \in Alerts : Reject(e, a)
          PROVE  cpc[d] \in Saving /\ cent'[d] = cent[d]
      BY <3>2 DEF Step, OpenIncident, SelectIncident, SaveIncident, UpdateAlert, RecordAction,
                  RecordAudit, RecordIncidentAudit, Publish, Abort, Reject
    <3>3. CASE Finished \/ UNCHANGED vars
      BY <3>3 DEF Finished, vars, commandVars
    <3> QED
      BY <3>1, <3>2, <3>3 DEF Next
  <2> QED
    BY <2>1, <2>2, <2>3
<1>3. NamedOperatorsOnRecord'
  BY <1>1 DEF NamedOperatorsOnRecord, Named
<1>4. ASSUME NEW d \in Commands, cpc'[d] \in Saving, NEW c \in Named(cent'[d])
      PROVE  c = d \/ OnRecord(calert[d], c)'
  BY <1>2, <1>4
<1> QED
  BY <1>0, <1>3, <1>4 DEF NamedInv, Named

LEMMA NamedInit == Init => NamedInv
  BY IInvInit DEF Init, NamedInv, NamedOperatorsOnRecord, Saving

\* Whoever a row names did something about the incident and is on record with
\* it, about to be, or was cut off; overwriting rows does not change that.
THEOREM OperatorsOnRecord == Spec => []NamedOperatorsOnRecord
<1>1. NamedInv => NamedOperatorsOnRecord
  BY DEF NamedInv
<1> QED
  BY <1>1, NamedInit, NamedStep, PTL DEF Spec

-----------------------------------------------------------------------------

\* The audit entry of a transition.
Transition(a, status) ==
    \E x \in audit : /\ x.alert = a
                     /\ x.action = IF status = "resolved" THEN "incident.resolved"
                                   ELSE "incident.acknowledged"

\* A command that is about to broadcast a transition has audited it.
BroadcastInv ==
    /\ IInv
    /\ BroadcastsAudited
    /\ \A c \in Commands : cpc[c] = "publish" /\ ckind[c] \in {"acknowledge", "resolve"} =>
          Transition(calert[c], Target(ckind[c]))

LEMMA BroadcastStep == BroadcastInv /\ [Next]_vars => BroadcastInv'
<1> SUFFICES ASSUME BroadcastInv, [Next]_vars PROVE BroadcastInv'
  OBVIOUS
<1>0. IInv' /\ IInv
  BY IInvStep DEF BroadcastInv
<1> USE <1>0 DEF BroadcastInv, BroadcastsAudited, Transition, IInv, TypeOK, Goto
<1>1. ASSUME NEW c \in Commands, RecordAudit(c) PROVE BroadcastInv'
  <2>1. audit \subseteq audit' /\ UNCHANGED <<events, ckind, calert>>
        /\ \A d \in Commands \ {c} : cpc'[d] = cpc[d]
    BY <1>1 DEF RecordAudit
  <2>2. ckind[c] \in {"acknowledge", "resolve"} => Transition(calert[c], Target(ckind[c]))'
    <3> SUFFICES ASSUME ckind[c] \in {"acknowledge", "resolve"}
                 PROVE  Transition(calert[c], Target(ckind[c]))'
      OBVIOUS
    <3> DEFINE entry == IF ckind[c] = "resolve" THEN "incident.resolved"
                        ELSE "incident.acknowledged"
    <3>1. entry = EntryOf(ckind[c])
      BY DEF EntryOf
    <3>2. By(c, entry) \in audit'
      BY <1>1, <3>1 DEF RecordAudit
    <3>3. By(c, entry).alert = calert[c] /\ By(c, entry).action = entry
      BY DEF By
    <3> HIDE DEF entry
    <3> QED
      BY <2>1, <3>2, <3>3 DEF entry, Target
  <2> QED
    BY <2>1, <2>2
<1>2. ASSUME NEW c \in Commands, Publish(c) PROVE BroadcastInv'
  <2>1. UNCHANGED <<audit, ckind, calert>> /\ cpc[c] = "publish" /\ cpc'[c] = "done"
        /\ \A d \in Commands \ {c} : cpc'[d] = cpc[d]
    BY <1>2 DEF Publish
  <2>2. ASSUME NEW e \in EventsOf(c), e.topic = "incident.updated", e.status # "open"
        PROVE  Transition(e.alert, e.status)
    <3>1. ckind[c] \in {"acknowledge", "resolve"}
      BY <2>1, <2>2 DEF EventsOf, Engaged, InFlight, Kinds
    <3>2. e.alert = calert[c] /\ e.status = Target(ckind[c])
      BY <2>2, <3>1 DEF EventsOf
    <3> QED
      BY <2>1, <3>1, <3>2
  <2>3. events' = events \cup EventsOf(c)
    BY <1>2 DEF Publish
  <2> QED
    BY <2>1, <2>2, <2>3
<1>1a. ASSUME NEW c \in Commands, RecordIncidentAudit(c) PROVE BroadcastInv'
  <2>1. audit \subseteq audit' /\ UNCHANGED <<events, ckind, calert>> /\ ckind[c] = "raise"
        /\ \A d \in Commands \ {c} : cpc'[d] = cpc[d]
    BY <1>1a DEF RecordIncidentAudit, Engaged, InFlight
  <2> QED
    BY <2>1
<1>3. ASSUME NEW c \in Commands,
             \/ OpenIncident(c) \/ SelectIncident(c) \/ SaveIncident(c) \/ UpdateAlert(c)
             \/ RecordAction(c) \/ Abort(c)
             \/ \E a \in Alerts : Reject(c, a)
      PROVE  BroadcastInv'
  <2>1. UNCHANGED <<audit, events, ckind, calert>> /\ cpc'[c] # "publish"
        /\ \A d \in Commands \ {c} : cpc'[d] = cpc[d]
    BY <1>3 DEF OpenIncident, SelectIncident, SaveIncident, UpdateAlert, RecordAction, Abort, Reject
  <2> QED
    BY <2>1
<1>4. ASSUME NEW c \in Commands, NEW a \in Alerts, NEW kind,
             RaiseAlert(c, a, kind) \/ LoadIncident(c, a, kind)
      PROVE  BroadcastInv'
  <2>1. UNCHANGED <<audit, events>> /\ cpc'[c] # "publish"
        /\ \A d \in Commands \ {c} : cpc'[d] = cpc[d] /\ ckind'[d] = ckind[d]
                                     /\ calert'[d] = calert[d]
    BY <1>4 DEF RaiseAlert, LoadIncident
  <2> QED
    BY <2>1
<1>5. CASE Finished \/ UNCHANGED vars
  BY <1>5 DEF Finished, vars, commandVars
<1> QED
  BY <1>1, <1>1a, <1>2, <1>3, <1>4, <1>5 DEF Next, Step

LEMMA BroadcastInit == Init => BroadcastInv
  BY IInvInit DEF Init, BroadcastInv, BroadcastsAudited

\* No acknowledgement and no resolution reaches the gateway before it was audited.
THEOREM BroadcastsAreAudited == Spec => []BroadcastsAudited
<1>1. BroadcastInv => BroadcastsAudited
  BY DEF BroadcastInv
<1> QED
  BY <1>1, BroadcastInit, BroadcastStep, PTL DEF Spec

-----------------------------------------------------------------------------

\* The command on alert a that read the incident, while nobody else does so: its
\* entity is up to date, then the columns it will write are the ones that differ,
\* then the row is its own, and without it the alert says what the incident says.
Alone(a) ==
    /\ \A c, d \in Commands :
          cpc[c] \in Handling /\ calert[c] = a /\ cpc[d] \in Handling /\ calert[d] = a => c = d
    /\ \A c \in Commands : cpc[c] \in Saving /\ calert[c] = a =>
          cent[c] = Handled(incidents[a], c, ckind[c]) /\ MayHandle(a)
    /\ \A c \in Commands : cpc[c] = "write" /\ calert[c] = a =>
          cdiff[c] = Diff(cent[c], incidents[a])
    /\ \A c \in Commands : cpc[c] = "update" /\ calert[c] = a =>
          incidents[a].status = Target(ckind[c])
    /\ incidents[a] # None
       /\ (\A c \in Commands : calert[c] = a => cpc[c] # "update" /\ c \notin cut)
         => alerts[a].status = incidents[a].status

AloneInv == AcknowledgerInv /\ \A a \in Alerts \ contended : Alone(a)

LEMMA AloneStep == AloneInv /\ [Next]_vars => AloneInv'
<1> SUFFICES ASSUME AloneInv, [Next]_vars, NEW a \in Alerts \ contended' PROVE Alone(a)'
  BY AcknowledgerStep DEF AloneInv
<1>0. IInv /\ OpeningInv
  BY DEF AloneInv, OpeningInv, AcknowledgerInv
<1>a. Alone(a)
  <2>1. contended \subseteq contended'
    BY DEF Next, Step, RaiseAlert, OpenIncident, LoadIncident, Reject, SelectIncident,
           SaveIncident, UpdateAlert, RecordAction, RecordAudit, RecordIncidentAudit, Publish,
           Abort, Finished, vars, history
  <2> QED
    BY <2>1 DEF AloneInv
<1> USE <1>0, <1>a DEF Alone, IInv, TypeOK, Goto, Handling, Saving
<1>1. ASSUME NEW c \in Commands, NEW b \in Alerts, NEW kind \in {"create", "raise"},
             RaiseAlert(c, b, kind)
      PROVE  Alone(a)'
  <2>1. /\ alerts[b] = None /\ cpc'[c] \notin Handling 
        /\ UNCHANGED <<incidents, cent, cdiff, cut>>
        /\ cpc[c] = "idle" /\ c \notin cut
        /\ alerts' = [alerts EXCEPT ![b] = alerts'[b]]
        /\ \A d \in Commands \ {c} :
              cpc'[d] = cpc[d] /\ calert'[d] = calert[d] /\ ckind'[d] = ckind[d]
    BY <1>1 DEF RaiseAlert, history
  <2>2. incidents[a] # None => a # b /\ alerts'[a] = alerts[a]
    BY <2>1
  <2>3. calert'[c] = b
    BY <1>1 DEF RaiseAlert
  <2> QED
    BY <2>1, <2>2, <2>3 DEF MayHandle
<1>2. ASSUME NEW c \in Commands, OpenIncident(c) PROVE Alone(a)'
  <2>1. /\ cpc[c] = "incident" /\ cpc'[c] \notin Handling /\ calert[c] \in Alerts
        /\ UNCHANGED <<alerts, calert, ckind, cent, cdiff, cut>>
        /\ \A d \in Commands \ {c} : cpc'[d] = cpc[d]
        /\ incidents[calert[c]] = None /\ incidents' = [incidents EXCEPT ![calert[c]] = Fresh]
    BY <1>2 DEF OpenIncident, Engaged, InFlight, OpeningInv, history
  <2>2. CASE a = calert[c]
    <3>1. alerts[a].status = "open" /\ incidents'[a].status = "open"
      BY <2>1, <2>2 DEF OpeningInv, Engaged, InFlight, Fresh
    <3>2. \A d \in Commands : cpc'[d] \in Handling => calert[d] # a
      BY <2>1, <2>2 DEF Engaged, InFlight
    <3> QED
      BY <2>1, <3>1, <3>2
  <2>3. CASE a # calert[c]
    BY <2>1, <2>3 DEF MayHandle
  <2> QED
    BY <2>2, <2>3
<1>3. ASSUME NEW c \in Commands, NEW b \in Alerts, NEW kind \in {"acknowledge", "resolve"},
             LoadIncident(c, b, kind)
      PROVE  Alone(a)'
  <2>1. /\ cpc[c] = "idle" /\ cpc'[c] = "save" /\ calert'[c] = b /\ ckind'[c] = kind
        /\ cent'[c] = Handled(incidents[b], c, kind) /\ MayHandle(b) /\ c \notin cut
        /\ UNCHANGED <<alerts, incidents, cdiff, cut>>
        /\ \A d \in Commands \ {c} : /\ cpc'[d] = cpc[d] /\ calert'[d] = calert[d]
                                     /\ ckind'[d] = ckind[d] /\ cent'[d] = cent[d]
    BY <1>3 DEF LoadIncident
  <2>2. a = b => \A d \in Commands : cpc[d] \in Handling => calert[d] # b
    BY <1>3 DEF LoadIncident
  <2> QED
    BY <2>1, <2>2 DEF MayHandle
<1>4. ASSUME NEW c \in Commands, SaveIncident(c) PROVE Alone(a)'
  <2> HIDE <1>0, <1>a DEF Alone, IInv, TypeOK, Goto
  <2>1. CASE a = calert[c]
    <3>1. /\ cpc[c] = "write" /\ cent[c] = Handled(incidents[a], c, ckind[c])
          /\ cdiff[c] = Diff(cent[c], incidents[a])
      BY <1>0, <1>a, <1>4, <2>1, SavedRow DEF Alone
    <3>2. incidents'[a] = cent[c]
      BY <1>0, <1>4, <2>1, <3>1, SavedRow, UpdatedByDiff
    <3>3. incidents'[a].status = Target(ckind[c])
      BY <1>0, <1>4, <2>1, <3>1, <3>2, SavedRow, HandledRow
    <3>4. \A d \in Commands : cpc'[d] \in Handling /\ calert'[d] = a => d = c
      BY <1>0, <1>a, <1>4, <2>1, SavedRow DEF Alone
    <3> QED
      BY <1>0, <1>4, <2>1, <3>3, <3>4, SavedRow DEF Alone
  <2>2. CASE a # calert[c]
    <3>1. incidents'[a] = incidents[a]
      BY <1>0, <1>4, <2>2, SavedRow
    <3>2. \A d \in Commands : calert[d] = a => cpc'[d] = cpc[d]
      BY <1>0, <1>4, <2>2, SavedRow
    <3> QED
      BY <1>0, <1>a, <1>4, <3>1, <3>2, SavedRow DEF Alone, MayHandle
  <2> QED
    BY <2>1, <2>2
<1>4a. ASSUME NEW c \in Commands, SelectIncident(c) PROVE Alone(a)'
  <2>1. /\ cpc[c] = "save" /\ cpc'[c] = "write"
        /\ UNCHANGED <<alerts, incidents, calert, ckind, cent, cut>>
        /\ cdiff'[c] = Diff(cent[c], incidents[calert[c]])
        /\ \A d \in Commands \ {c} : cpc'[d] = cpc[d] /\ cdiff'[d] = cdiff[d]
    BY <1>4a DEF SelectIncident, history
  <2> QED
    BY <2>1 DEF MayHandle
<1>5. ASSUME NEW c \in Commands, UpdateAlert(c) PROVE Alone(a)'
  <2>1. /\ cpc[c] = "update" /\ cpc'[c] = "action" /\ calert[c] \in Alerts
        /\ UNCHANGED <<incidents, calert, ckind, cent, cdiff, cut>>
        /\ \A d \in Commands \ {c} : cpc'[d] = cpc[d]
        /\ alerts[calert[c]] \in AlertRow
        /\ alerts' = [alerts EXCEPT ![calert[c]] =
                        [alerts[calert[c]] EXCEPT !.status = Target(ckind[c])]]
    BY <1>5 DEF UpdateAlert, Engaged, InFlight, history
  <2>2. alerts'[calert[c]].status = Target(ckind[c])
        /\ \A b \in Alerts \ {calert[c]} : alerts'[b] = alerts[b]
    BY <2>1 DEF AlertRow
  <2>3. CASE a = calert[c]
    <3>1. \A d \in Commands : cpc'[d] \in Handling => calert'[d] # a
      BY <2>1, <2>3
    <3>2. alerts'[a].status = incidents'[a].status
      BY <2>1, <2>2, <2>3
    <3> QED
      BY <3>1, <3>2 DEF MayHandle
  <2>4. CASE a # calert[c]
    <3>1. alerts'[a] = alerts[a] /\ incidents'[a] = incidents[a]
      BY <2>2, <2>1, <2>4
    <3>2. \A d \in Commands : calert'[d] = a => cpc'[d] = cpc[d] /\ d # c
      BY <2>1, <2>4
    <3> QED
      BY <2>1, <3>1, <3>2 DEF MayHandle
  <2> QED
    BY <2>3, <2>4
<1>6. ASSUME NEW c \in Commands,
             \/ RecordAction(c) \/ RecordAudit(c) \/ RecordIncidentAudit(c)
             \/ Publish(c) \/ Abort(c)
             \/ \E b \in Alerts : Reject(c, b)
      PROVE  Alone(a)'
  <2>1. /\ UNCHANGED <<alerts, incidents, calert, ckind, cent, cdiff>>
        /\ cpc'[c] \notin Handling
        /\ cpc[c] = "update" => c \in cut'
        /\ cut \subseteq cut'
        /\ \A d \in Commands \ {c} : cpc'[d] = cpc[d]
    BY <1>6 DEF RecordAction, RecordAudit, RecordIncidentAudit, Publish, Abort, Reject, history
  <2>2. \A d \in Commands : cpc'[d] \in Handling => cpc'[d] = cpc[d] /\ d # c
    BY <2>1
  <2>3. (\A d \in Commands : calert'[d] = a => cpc'[d] # "update" /\ d \notin cut')
          => \A d \in Commands : calert[d] = a => cpc[d] # "update" /\ d \notin cut
    BY <2>1
  <2>4. incidents'[a] # None
        /\ (\A d \in Commands : calert'[d] = a => cpc'[d] # "update" /\ d \notin cut')
          => alerts'[a].status = incidents'[a].status
    BY <2>1, <2>3
  <2> QED
    BY <2>1, <2>2, <2>4 DEF MayHandle
<1>7. CASE Finished \/ UNCHANGED vars
  BY <1>7 DEF Finished, vars, commandVars, history, MayHandle
<1> QED
  BY <1>1, <1>2, <1>3, <1>4, <1>4a, <1>5, <1>6, <1>7 DEF Next, Step

LEMMA AloneInit == Init => AloneInv
<1> SUFFICES ASSUME Init, NEW a \in Alerts PROVE Alone(a)
  BY AcknowledgerInit DEF AloneInv
<1>1. incidents[a] = None /\ \A c \in Commands : cpc[c] \notin Handling
  BY DEF Init, Handling, Saving
<1> QED
  BY <1>1 DEF Alone, Handling, Saving, MayHandle

\* An alert and its incident agree once their commands are over, if none was cut
\* off and no two of them overlapped.
THEOREM AlertsInStep == Spec => []AlertInStep
<1>1. AloneInv => AlertInStep
  BY DEF AloneInv, Alone, AlertInStep, Handling, Saving
<1> QED
  BY <1>1, AloneInit, AloneStep, PTL DEF Spec

-----------------------------------------------------------------------------

\* Every step is a step of the domain model's incident, or none.
LEMMA LifecycleStep == AloneInv /\ [Next]_vars => [Lifecycle!Next]_Lifecycle!vars
<1> SUFFICES ASSUME AloneInv, [Next]_vars PROVE [Lifecycle!Next]_Lifecycle!vars
  OBVIOUS
<1>0. IInv /\ OpeningInv /\ AcknowledgerInv
  BY DEF AloneInv, OpeningInv, AcknowledgerInv
<1> USE DEF Lifecycle!vars
<1>1. ASSUME NEW c \in Commands, OpenIncident(c) PROVE Lifecycle!Next
  <2>1. calert[c] \in Alerts /\ incidents[calert[c]] = None
    BY <1>0, <1>1 DEF OpenIncident, OpeningInv, IInv, TypeOK, Engaged, InFlight
  <2>2. Lifecycle!Open(calert[c])
    BY <1>1, <2>1 DEF OpenIncident, Fresh, Lifecycle!Open, history
  <2> QED
    BY <2>1, <2>2 DEF Lifecycle!Next
<1>2. ASSUME NEW c \in Commands, NEW a \in Alerts, NEW kind, LoadIncident(c, a, kind)
      PROVE  Lifecycle!Next \/ UNCHANGED Lifecycle!vars
  BY <1>2 DEF LoadIncident, Lifecycle!Next, Lifecycle!Loosen
<1>3. ASSUME NEW c \in Commands, SaveIncident(c) PROVE Lifecycle!Next
  <2> DEFINE a == calert[c]
  <2> DEFINE new == incidents'[a]
  <2>1. /\ a \in Alerts /\ cpc[c] = "write" /\ UNCHANGED contended
        /\ incidents' = [incidents EXCEPT ![a] = new] /\ new \in IncidentRow
        /\ new = Updated(incidents[a], cent[c], cdiff[c])
        /\ cent[c] \in IncidentRow /\ incidents[a] \in IncidentRow
        /\ ckind[c] \in {"acknowledge", "resolve"}
    <3>1. incidents' = [incidents EXCEPT ![a] = new]
      BY <1>0, <1>3 DEF SaveIncident, IInv, TypeOK
    <3> QED
      BY <1>0, <1>3, <3>1, SavedRow
  <2> HIDE DEF new
  <2>2. CASE a \in contended
    <3>1. Lifecycle!Drift(a)
      BY <2>1, <2>2 DEF Lifecycle!Drift, Lifecycle!Row, IncidentRow, Statuses
    <3> QED
      BY <2>1, <3>1 DEF Lifecycle!Next
  <2>3. CASE a \notin contended
    <3>1. /\ cent[c] = Handled(incidents[a], c, ckind[c]) /\ Lifecycle!Unresolved(a)
          /\ cdiff[c] = Diff(cent[c], incidents[a])
      BY <2>1, <2>3 DEF AloneInv, Alone, Saving, MayHandle, Lifecycle!Unresolved
    <3>a. incidents' = [incidents EXCEPT ![a] = cent[c]]
      BY <2>1, <3>1, UpdatedByDiff
    <3>2. CASE ckind[c] = "acknowledge"
      <4>1. cent[c] = [incidents[a] EXCEPT !.status = "acknowledged", !.acknowledgedBy = c]
        BY <3>1, <3>2 DEF Handled
      <4>2. Lifecycle!Acknowledge(a, c)
        BY <2>1, <3>1, <3>a, <4>1 DEF Lifecycle!Acknowledge, IInv, TypeOK
      <4> QED
        BY <2>1, <4>2 DEF Lifecycle!Next
    <3>3. CASE ckind[c] = "resolve"
      <4>1. cent[c] = [incidents[a] EXCEPT !.status = "resolved", !.resolvedBy = c,
                         !.acknowledgedBy = IF incidents[a].status = "open" THEN c ELSE @]
        BY <3>1, <3>3 DEF Handled
      <4>2. incidents[a].status = "open" <=> incidents[a].acknowledgedBy = None
        BY <1>0, <2>1, NoRowAssumption DEF AcknowledgerInv
      <4>3. cent[c] = [incidents[a] EXCEPT !.status = "resolved", !.resolvedBy = c,
                         !.acknowledgedBy = IF @ = None THEN c ELSE @]
        BY <2>1, <4>1, <4>2 DEF IncidentRow
      <4>4. incidents' = [incidents EXCEPT ![a].status = "resolved", ![a].resolvedBy = c,
                            ![a].acknowledgedBy = IF @ = None THEN c ELSE @]
        BY <2>1, <3>a, <4>3 DEF IncidentRow
      <4>5. Lifecycle!Resolve(a, c)
        BY <2>1, <3>1, <4>4 DEF Lifecycle!Resolve
      <4> QED
        BY <2>1, <4>5 DEF Lifecycle!Next
    <3> QED
      BY <2>1, <3>2, <3>3
  <2> QED
    BY <2>2, <2>3
<1>4. ASSUME NEW c \in Commands,
             \/ \E a \in Alerts, kind \in {"create", "raise"} : RaiseAlert(c, a, kind)
             \/ \E a \in Alerts : Reject(c, a)
             \/ SelectIncident(c) \/ UpdateAlert(c) \/ RecordAction(c) \/ RecordAudit(c)
             \/ RecordIncidentAudit(c) \/ Publish(c) \/ Abort(c)
      PROVE  UNCHANGED Lifecycle!vars
  BY <1>4 DEF RaiseAlert, Reject, SelectIncident, UpdateAlert, RecordAction, RecordAudit,
              RecordIncidentAudit, Publish, Abort, history
<1>5. CASE Finished \/ UNCHANGED vars
  BY <1>5 DEF Finished, vars, history
<1> QED
  BY <1>1, <1>2, <1>3, <1>4, <1>5 DEF Next, Step

\* The commands of the API implement the incident of the domain model, for every
\* incident that no command read in the middle of another one.
THEOREM LifecycleImplemented == Spec => ImplementsIncidentLifecycle
<1>1. Init => Lifecycle!Init
  BY DEF Init, Lifecycle!Init
<1>2. AloneInv /\ [Next]_vars => [Lifecycle!Next]_Lifecycle!vars
  BY LifecycleStep
<1> QED
  BY <1>1, <1>2, AloneInit, AloneStep, PTL DEF Spec, ImplementsIncidentLifecycle, Lifecycle!Spec

-----------------------------------------------------------------------------

\* A resolved incident that no command read in the middle of another one is
\* never written again: the guard of acknowledge and resolve suffices for it
\* (incident.service.ts:25-27, 80-82).
ResolutionStays ==
    \A a \in Alerts \ contended :
        incidents[a] # None /\ incidents[a].status = "resolved" => incidents'[a] = incidents[a]

\* The commands of an alert that do not overlap save what their method makes of
\* the row as it is: nothing unread is overwritten.
SavesFresh ==
    \A c \in Commands : SaveIncident(c) /\ calert[c] \notin contended =>
        incidents'[calert[c]] = Handled(incidents[calert[c]], c, ckind[c])

\* Both hold of every step from a state where AloneInv does.
LEMMA FinalStep == AloneInv /\ [Next]_vars => ResolutionStays /\ SavesFresh
<1> SUFFICES ASSUME AloneInv, [Next]_vars PROVE ResolutionStays /\ SavesFresh
  OBVIOUS
<1>0. IInv /\ OpeningInv
  BY DEF AloneInv, OpeningInv, AcknowledgerInv
<1>2. SavesFresh
  <2> SUFFICES ASSUME NEW c \in Commands, SaveIncident(c), calert[c] \notin contended
               PROVE  incidents'[calert[c]] = Handled(incidents[calert[c]], c, ckind[c])
    BY DEF SavesFresh
  <2>1. cpc[c] = "write" /\ calert[c] \in Alerts
    BY <1>0, SavedRow
  <2>2. /\ cent[c] = Handled(incidents[calert[c]], c, ckind[c])
        /\ cdiff[c] = Diff(cent[c], incidents[calert[c]])
    BY <2>1 DEF AloneInv, Alone, Saving
  <2> QED
    BY <1>0, <2>2, SavedRow, UpdatedByDiff
<1>3. ResolutionStays
  <2> SUFFICES ASSUME NEW a \in Alerts \ contended,
                      incidents[a] # None, incidents[a].status = "resolved"
               PROVE  incidents'[a] = incidents[a]
    BY DEF ResolutionStays
  <2>1. ASSUME NEW c \in Commands, SaveIncident(c) PROVE incidents'[a] = incidents[a]
    <3>1. calert[c] = a => MayHandle(a)
      BY <1>0, <2>1, SavedRow DEF AloneInv, Alone, Saving
    <3>2. calert[c] # a
      BY <3>1 DEF MayHandle
    <3> QED
      BY <1>0, <2>1, <3>2, SavedRow
  <2>2. ASSUME NEW c \in Commands, OpenIncident(c) PROVE incidents'[a] = incidents[a]
    <3>1. incidents[calert[c]] = None /\ incidents' = [incidents EXCEPT ![calert[c]] = Fresh]
      BY <1>0, <2>2 DEF OpenIncident, OpeningInv
    <3> QED
      BY <1>0, <3>1 DEF IInv, TypeOK
  <2>3. ASSUME NEW c \in Commands, UpdateAlert(c) PROVE incidents'[a] = incidents[a]
    BY <2>3 DEF UpdateAlert
  <2>4. ASSUME NEW c \in Commands, NEW b \in Alerts, NEW kind, RaiseAlert(c, b, kind)
        PROVE  incidents'[a] = incidents[a]
    BY <2>4 DEF RaiseAlert
  <2> QED
    BY <1>0, <2>1, <2>2, <2>3, <2>4, RowFrame
<1> QED
  BY <1>2, <1>3

\* A resolution is final, and no save is stale, where commands do not overlap;
\* the run resolution_undone shows that they must not.
THEOREM ResolutionIsFinal == Spec => [][ResolutionStays /\ SavesFresh]_vars
<1>1. AloneInv /\ [Next]_vars => [ResolutionStays /\ SavesFresh]_vars
  BY FinalStep
<1> QED
  BY <1>1, AloneInit, AloneStep, PTL DEF Spec

-----------------------------------------------------------------------------

\* Operator c is on record, by its action or in the audit, as having resolved
\* the incident of alert a.
SaidToResolve(a, c) ==
    \/ [action |-> "incident.resolve", by |-> c, alert |-> a] \in actions
    \/ [action |-> "incident.resolved", by |-> c, alert |-> a] \in audit

\* Whoever is on record as the resolver of an incident is the one its row names,
\* unless commands overlapped on it: no incident has two resolvers, and the
\* history agrees with the table (incident.service.ts:84-125).
ResolverNamed ==
    \A a \in Alerts \ contended, c \in Commands : SaidToResolve(a, c) =>
        incidents[a] # None /\ incidents[a].status = "resolved" /\ incidents[a].resolvedBy = c

\* Command c resolved the incident of alert a, whether that is on record or not.
Resolved(a, c) ==
    \/ SaidToResolve(a, c)
    \/ calert[c] = a /\ ckind[c] = "resolve" /\ cpc[c] \in {"update", "action", "audit"}

ResolverInv ==
    /\ AloneInv
    /\ \A a \in Alerts \ contended, c \in Commands : Resolved(a, c) =>
          incidents[a] # None /\ incidents[a].status = "resolved" /\ incidents[a].resolvedBy = c

\* Nobody comes to have resolved an incident but by saving it.
LEMMA ResolvedBySave ==
    ASSUME IInv, [Next]_vars, NEW a \in Alerts, NEW c \in Commands, Resolved(a, c)', ~Resolved(a, c)
    PROVE  SaveIncident(c) /\ calert[c] = a /\ ckind[c] = "resolve"
<1> USE DEF IInv, TypeOK, Goto, Resolved, SaidToResolve
<1>1. ASSUME NEW d \in Commands, NEW b \in Alerts, NEW kind \in {"create", "raise"},
             RaiseAlert(d, b, kind)
      PROVE  FALSE
  BY <1>1 DEF RaiseAlert
<1>2. ASSUME NEW d \in Commands, NEW b \in Alerts, NEW kind,
             LoadIncident(d, b, kind) \/ Reject(d, b)
      PROVE  FALSE
  BY <1>2 DEF LoadIncident, Reject
<1>3. ASSUME NEW d \in Commands, OpenIncident(d) PROVE FALSE
  BY <1>3 DEF OpenIncident, Engaged, InFlight
<1>4. ASSUME NEW d \in Commands, SaveIncident(d)
      PROVE  d = c /\ calert[c] = a /\ ckind[c] = "resolve"
  BY <1>4 DEF SaveIncident
<1>5. ASSUME NEW d \in Commands, SelectIncident(d) \/ UpdateAlert(d) \/ Publish(d) \/ Abort(d)
      PROVE  FALSE
  BY <1>5 DEF SelectIncident, UpdateAlert, Publish, Abort
<1>6. ASSUME NEW d \in Commands, RecordAction(d) PROVE FALSE
  <2>1. /\ cpc[d] = "action" /\ ckind[d] \in {"create", "acknowledge", "resolve"}
        /\ UNCHANGED <<audit, calert, ckind>> /\ \A e \in Commands \ {d} : cpc'[e] = cpc[e]
        /\ actions' = actions \cup {By(d, ActionOf(ckind[d]))}
    BY <1>6 DEF RecordAction, Engaged, InFlight, Kinds
  <2>2. ckind[d] # "resolve" => ActionOf(ckind[d]) # "incident.resolve"
    BY <2>1 DEF ActionOf
  <2>3. By(d, ActionOf(ckind[d])).action # "incident.resolve" \/ ckind[d] = "resolve"
    BY <2>2 DEF By
  <2>4. By(d, ActionOf(ckind[d])).by = d /\ By(d, ActionOf(ckind[d])).alert = calert[d]
    BY DEF By
  <2> QED
    BY <2>1, <2>3, <2>4
<1>7. ASSUME NEW d \in Commands, RecordAudit(d) PROVE FALSE
  <2>1. /\ cpc[d] = "audit" /\ ckind[d] \in Kinds
        /\ UNCHANGED <<actions, calert, ckind>> /\ \A e \in Commands \ {d} : cpc'[e] = cpc[e]
        /\ cpc'[d] \in {"auditincident", "publish"}
        /\ audit' = audit \cup {By(d, EntryOf(ckind[d]))}
    BY <1>7 DEF RecordAudit, Engaged, InFlight
  <2>2. EntryOf(ckind[d]) = "incident.resolved" => ckind[d] = "resolve"
    BY <2>1 DEF EntryOf, Kinds
  <2>3. \A entry : By(d, entry).by = d /\ By(d, entry).alert = calert[d]
                   /\ By(d, entry).action = entry
    BY DEF By
  <2> QED
    BY <2>1, <2>2, <2>3
<1>7a. ASSUME NEW d \in Commands, RecordIncidentAudit(d) PROVE FALSE
  BY <1>7a DEF RecordIncidentAudit, By
<1>8. CASE Finished \/ UNCHANGED vars
  BY <1>8 DEF Finished, vars, commandVars
<1> QED
  BY <1>1, <1>2, <1>3, <1>4, <1>5, <1>6, <1>7, <1>7a, <1>8 DEF Next, Step

\* ResolverInv is inductive: what is resolved stays as it is, and who resolves
\* is named by his save.
LEMMA ResolverStep == ResolverInv /\ [Next]_vars => ResolverInv'
<1> SUFFICES ASSUME ResolverInv, [Next]_vars, NEW a \in Alerts \ contended', NEW c \in Commands,
                    Resolved(a, c)'
             PROVE  /\ incidents'[a] # None /\ incidents'[a].status = "resolved"
                    /\ incidents'[a].resolvedBy = c
  BY AloneStep DEF ResolverInv
<1>0. AloneInv /\ IInv
  BY DEF ResolverInv, AloneInv, OpeningInv, AcknowledgerInv
<1>1. a \in Alerts \ contended
  <2>1. contended \subseteq contended'
    BY DEF Next, Step, RaiseAlert, OpenIncident, LoadIncident, Reject, SelectIncident,
           SaveIncident, UpdateAlert, RecordAction, RecordAudit, RecordIncidentAudit, Publish,
           Abort, Finished, vars, history
  <2> QED
    BY <2>1
<1>2. CASE Resolved(a, c)
  <2>1. incidents[a] # None /\ incidents[a].status = "resolved" /\ incidents[a].resolvedBy = c
    BY <1>1, <1>2 DEF ResolverInv
  <2>2. incidents'[a] = incidents[a]
    BY <1>0, <1>1, <2>1, FinalStep DEF ResolutionStays
  <2> QED
    BY <2>1, <2>2
<1>3. CASE ~Resolved(a, c)
  <2>1. SaveIncident(c) /\ calert[c] = a /\ ckind[c] = "resolve"
    BY <1>0, <1>1, <1>3, ResolvedBySave
  <2>2. incidents'[a] = Handled(incidents[a], c, "resolve")
    BY <1>0, <1>1, <2>1, FinalStep DEF SavesFresh
  <2>3. incidents[a] \in IncidentRow
    BY <1>0, <2>1, SavedRow
  <2>4. Handled(incidents[a], c, "resolve") \in IncidentRow
    BY <2>3, HandledRow
  <2> QED
    BY <2>2, <2>3, <2>4, NoRowAssumption DEF Handled, IncidentRow
<1> QED
  BY <1>2, <1>3

\* The history of an incident and its row name the same resolver, and no two.
THEOREM ResolverIsNamed == Spec => []ResolverNamed
<1>1. Init => ResolverInv
  BY AloneInit DEF Init, ResolverInv, Resolved, SaidToResolve
<1>2. ResolverInv => ResolverNamed
  BY DEF ResolverInv, ResolverNamed, Resolved
<1> QED
  BY <1>1, <1>2, ResolverStep, PTL DEF Spec
==============================================================================
