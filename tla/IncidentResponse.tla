--------------------------- MODULE IncidentResponse ---------------------------
(***************************************************************************)
(* Alerts and their incidents, as AlertService, IncidentService and the    *)
(* workers write them.  A command is one POST request, or one failure a    *)
(* worker reports; each is issued by an operator of its own, so that rows  *)
(* and audit entries tell them apart.  The statements of a command run     *)
(* without a transaction: between any two of them other commands run, and  *)
(* any of them may be the last.                                            *)
(*                                                                         *)
(* An incident has the id of its alert: incidents.alertId is unique, and   *)
(* no code creates an incident without an alert or deletes either.         *)
(* AlertService.acknowledge is left out, no controller calls it.           *)
(***************************************************************************)
EXTENDS Naturals, FiniteSets

CONSTANTS Alerts,      \* ids of the alerts that may be raised
          Commands,    \* requests and worker reports, each issued once
          None,        \* null
          MayAbort     \* TRUE: a command may be cut off between two statements

ASSUME NoneAssumption == None \notin Commands /\ None \notin Alerts
ASSUME FlagsAssumption == MayAbort \in BOOLEAN

VARIABLES
    alerts,     \* alerts[a]: the row of alert a, or None
    incidents,  \* incidents[a]: the row of the incident with alertId a, or None
    actions,    \* operator_actions
    audit,      \* audit_entries
    events,     \* what was published: topic, alert and the status it carries
    cpc,        \* where a command is
    ckind,      \* what it does
    calert,     \* the alert it is about
    cent,       \* its in-memory IncidentEntity
    cdiff,      \* the columns its save will write
    cut,        \* the commands that were cut off
    contended   \* alerts whose incident was read in the middle of another command

commandVars == <<cpc, ckind, calert, cent, cdiff>>
history == <<cut, contended>>
vars == <<alerts, incidents, actions, audit, events, commandVars, history>>

Statuses == {"open", "acknowledged", "resolved"}
Severities == {"high", "critical"}  \* low and medium behave as high

AlertRow == [severity : Severities, status : Statuses]
IncidentRow == [status : Statuses, acknowledgedBy : Commands \cup {None},
                resolvedBy : Commands \cup {None}]

\* The columns of an incident that a save may find changed; the timestamps always
\* are, and carry nothing more.
Columns == {"status", "acknowledgedBy", "resolvedBy"}

ASSUME NoRowAssumption == None \notin AlertRow /\ None \notin IncidentRow

Init ==
    /\ alerts = [a \in Alerts |-> None]
    /\ incidents = [a \in Alerts |-> None]
    /\ actions = {} /\ audit = {} /\ events = {}
    /\ cpc = [c \in Commands |-> "idle"]
    /\ ckind = [c \in Commands |-> None]
    /\ calert = [c \in Commands |-> None]
    /\ cent = [c \in Commands |-> None]
    /\ cdiff = [c \in Commands |-> {}]
    /\ cut = {} /\ contended = {}

InFlight == {"incident", "save", "write", "update", "action", "audit", "auditincident", "publish"}

\* The command read the incident and did not write it yet.
Saving == {"save", "write"}

\* The command read the incident and did not update the alert yet.
Handling == Saving \cup {"update"}

Goto(c, pc) == cpc' = [cpc EXCEPT ![c] = pc]

\* An audit entry, or an operator action, by the operator of c.
By(c, action) == [action |-> action, by |-> c, alert |-> calert[c]]

-----------------------------------------------------------------------------
(* AlertService.create, and the alert a worker raises for a failed job *)

\* Mutant of RaiseAlert: severity alone opens no incident.
RaiseAlertOnRequest(c, a, kind) ==
    /\ cpc[c] = "idle"
    /\ alerts[a] = None
    /\ \E severity \in Severities, createIncident \in BOOLEAN :
         /\ alerts' = [alerts EXCEPT ![a] = [severity |-> severity, status |-> "open"]]
         /\ Goto(c, IF createIncident THEN "incident"
                    ELSE IF kind = "raise" THEN "audit" ELSE "action")
    /\ ckind' = [ckind EXCEPT ![c] = kind]
    /\ calert' = [calert EXCEPT ![c] = a]
    /\ UNCHANGED <<incidents, actions, audit, events, cent, cdiff, history>>

\* createIncident of the request; a worker decides by severity alone.
RaiseAlert(c, a, kind) ==
    /\ cpc[c] = "idle"
    /\ alerts[a] = None
    /\ \E severity \in Severities, createIncident \in BOOLEAN :
         /\ kind = "raise" => ~createIncident
         /\ alerts' = [alerts EXCEPT ![a] = [severity |-> severity, status |-> "open"]]
         /\ Goto(c, IF createIncident \/ severity = "critical" THEN "incident"
                    ELSE IF kind = "raise" THEN "audit" ELSE "action")
    /\ ckind' = [ckind EXCEPT ![c] = kind]
    /\ calert' = [calert EXCEPT ![c] = a]
    /\ UNCHANGED <<incidents, actions, audit, events, cent, cdiff, history>>

Fresh == [status |-> "open", acknowledgedBy |-> None, resolvedBy |-> None]

\* Mutant of OpenIncident: a worker goes on as if an operator had asked.
OpenIncidentAsOperator(c) ==
    /\ cpc[c] = "incident"
    /\ incidents' = [incidents EXCEPT ![calert[c]] = Fresh]
    /\ Goto(c, "action")
    /\ UNCHANGED <<alerts, actions, audit, events, ckind, calert, cent, cdiff, history>>

OpenIncident(c) ==
    /\ cpc[c] = "incident"
    /\ incidents' = [incidents EXCEPT ![calert[c]] = Fresh]
    /\ Goto(c, IF ckind[c] = "raise" THEN "audit" ELSE "action")
    /\ UNCHANGED <<alerts, actions, audit, events, ckind, calert, cent, cdiff, history>>

-----------------------------------------------------------------------------
(* IncidentService.acknowledge and resolve *)

\* Mutant of Target: the alert of a resolved incident stays acknowledged.
TargetAcknowledged(kind) == "acknowledged"

Target(kind) == IF kind = "resolve" THEN "resolved" ELSE "acknowledged"

\* The entity each method saves: acknowledge always takes the incident over,
\* resolve fills in an acknowledgement only if it read an open incident.
Handled(row, c, kind) ==
    IF kind = "acknowledge"
    THEN [row EXCEPT !.status = "acknowledged", !.acknowledgedBy = c]
    ELSE [row EXCEPT !.status = "resolved", !.resolvedBy = c,
                     !.acknowledgedBy = IF row.status = "open" THEN c ELSE @]

\* Mutant of MayHandle: resolved incidents are not refused.
MayHandleAny(a) == incidents[a] # None

MayHandle(a) == incidents[a] # None /\ incidents[a].status # "resolved"

\* findOne, the guard, and the assignments to the entity: no await in between.
LoadIncident(c, a, kind) ==
    /\ cpc[c] = "idle"
    /\ MayHandle(a)
    /\ cent' = [cent EXCEPT ![c] = Handled(incidents[a], c, kind)]
    /\ ckind' = [ckind EXCEPT ![c] = kind]
    /\ calert' = [calert EXCEPT ![c] = a]
    /\ Goto(c, "save")
    /\ contended' = IF \E d \in Commands : cpc[d] \in Handling /\ calert[d] = a
                    THEN contended \cup {a} ELSE contended
    /\ UNCHANGED <<alerts, incidents, actions, audit, events, cdiff, cut>>

\* NotFoundException or BadRequestException.
Reject(c, a) ==
    /\ cpc[c] = "idle"
    /\ ~MayHandle(a)
    /\ Goto(c, "done")
    /\ UNCHANGED <<alerts, incidents, actions, audit, events, ckind, calert, cent, cdiff, history>>

\* save(incident) is two statements: a SELECT of the row, to which the entity is
\* compared, and an UPDATE of the columns that differed from it.
Diff(entity, row) == {k \in Columns : entity[k] # row[k]}
Updated(row, entity, columns) ==
    [k \in DOMAIN row |-> IF k \in columns THEN entity[k] ELSE row[k]]

SelectIncident(c) ==
    /\ cpc[c] = "save"
    /\ cdiff' = [cdiff EXCEPT ![c] = Diff(cent[c], incidents[calert[c]])]
    /\ Goto(c, "write")
    /\ UNCHANGED <<alerts, incidents, actions, audit, events, ckind, calert, cent, history>>

\* Whatever the row has become since the SELECT.
SaveIncident(c) ==
    /\ cpc[c] = "write"
    /\ incidents' = [incidents EXCEPT ![calert[c]] = Updated(@, cent[c], cdiff[c])]
    /\ Goto(c, "update")
    /\ UNCHANGED <<alerts, actions, audit, events, ckind, calert, cent, cdiff, history>>

\* Mutant of UpdateAlert: only a resolution reaches the alert.
UpdateAlertOnResolve(c) ==
    /\ cpc[c] = "update"
    /\ alerts' = IF ckind[c] = "resolve"
                 THEN [alerts EXCEPT ![calert[c]].status = Target(ckind[c])] ELSE alerts
    /\ Goto(c, "action")
    /\ UNCHANGED <<incidents, actions, audit, events, ckind, calert, cent, cdiff, history>>

\* alertRepository.update: no look at the alert.
UpdateAlert(c) ==
    /\ cpc[c] = "update"
    /\ alerts' = [alerts EXCEPT ![calert[c]].status = Target(ckind[c])]
    /\ Goto(c, "action")
    /\ UNCHANGED <<incidents, actions, audit, events, ckind, calert, cent, cdiff, history>>

-----------------------------------------------------------------------------
(* The common tail: operator action, audit, events *)

ActionOf(kind) == CASE kind = "create"      -> "alert.create"
                    [] kind = "acknowledge" -> "incident.acknowledge"
                    [] kind = "resolve"     -> "incident.resolve"

\* Mutant of RecordAction: one action of a kind per alert.
RecordActionOnce(c) ==
    /\ cpc[c] = "action"
    /\ actions' = IF \E x \in actions : x.action = ActionOf(ckind[c]) /\ x.alert = calert[c]
                  THEN actions ELSE actions \cup {By(c, ActionOf(ckind[c]))}
    /\ Goto(c, "audit")
    /\ UNCHANGED <<alerts, incidents, audit, events, ckind, calert, cent, cdiff, history>>

RecordAction(c) ==
    /\ cpc[c] = "action"
    /\ actions' = actions \cup {By(c, ActionOf(ckind[c]))}
    /\ Goto(c, "audit")
    /\ UNCHANGED <<alerts, incidents, audit, events, ckind, calert, cent, cdiff, history>>

\* The entry of a command; a worker that opened an incident audits that next.
\* What it audits and notifies of the job is in JobPipeline.
EntryOf(kind) == CASE kind = "create"      -> "alert.created"
                   [] kind = "raise"       -> "alert.raised"
                   [] kind = "acknowledge" -> "incident.acknowledged"
                   [] kind = "resolve"     -> "incident.resolved"

RecordAudit(c) ==
    /\ cpc[c] = "audit"
    /\ audit' = audit \cup {By(c, EntryOf(ckind[c]))}
    /\ Goto(c, IF ckind[c] = "raise" /\ alerts[calert[c]].severity = "critical"
               THEN "auditincident" ELSE "publish")
    /\ UNCHANGED <<alerts, incidents, actions, events, ckind, calert, cent, cdiff, history>>

RecordIncidentAudit(c) ==
    /\ cpc[c] = "auditincident"
    /\ audit' = audit \cup {By(c, "incident.created")}
    /\ Goto(c, "publish")
    /\ UNCHANGED <<alerts, incidents, actions, events, ckind, calert, cent, cdiff, history>>

\* The events carry the entities of the command, not the rows of the moment;
\* the two of an alert go to the channel with no answer awaited in between.
EventsOf(c) ==
    LET event(topic, status) == [topic |-> topic, alert |-> calert[c], status |-> status]
    IN  IF ckind[c] \in {"create", "raise"}
        THEN {event("alert.raised", "open")} \cup
             (IF incidents[calert[c]] # None THEN {event("incident.updated", "open")} ELSE {})
        ELSE {event("incident.updated", Target(ckind[c]))}

\* Mutant of Publish: events may go out before the audit entry is written.
PublishEarly(c) ==
    /\ cpc[c] \in {"audit", "publish"}
    /\ events' = events \cup EventsOf(c)
    /\ Goto(c, "done")
    /\ UNCHANGED <<alerts, incidents, actions, audit, ckind, calert, cent, cdiff, history>>

Publish(c) ==
    /\ cpc[c] = "publish"
    /\ events' = events \cup EventsOf(c)
    /\ Goto(c, "done")
    /\ UNCHANGED <<alerts, incidents, actions, audit, ckind, calert, cent, cdiff, history>>

\* The process dies or a statement is refused: the rest never happens.
Abort(c) ==
    /\ MayAbort
    /\ cpc[c] \in InFlight
    /\ cut' = cut \cup {c}
    /\ Goto(c, "done")
    /\ UNCHANGED <<alerts, incidents, actions, audit, events, ckind, calert, cent, cdiff>>
    /\ UNCHANGED contended

-----------------------------------------------------------------------------

Step(c) == OpenIncident(c) \/ SelectIncident(c) \/ SaveIncident(c) \/ UpdateAlert(c)
           \/ RecordAction(c) \/ RecordAudit(c) \/ RecordIncidentAudit(c) \/ Publish(c)

Finished == (\A c \in Commands : cpc[c] = "done") /\ UNCHANGED vars

Next ==
    \/ \E c \in Commands :
         \/ \E a \in Alerts :
              \/ \E kind \in {"create", "raise"} : RaiseAlert(c, a, kind)
              \/ \E kind \in {"acknowledge", "resolve"} : LoadIncident(c, a, kind)
              \/ Reject(c, a)
         \/ Step(c)
         \/ Abort(c)
    \/ Finished

Spec == Init /\ [][Next]_vars

-----------------------------------------------------------------------------
(* Properties *)

Kinds == {"create", "raise", "acknowledge", "resolve"}
ActionNames == {"alert.create", "incident.acknowledge", "incident.resolve"}
EntryNames == {"alert.created", "alert.raised", "incident.created", "incident.acknowledged",
               "incident.resolved"}

\* A command in flight has its alert, and what its next statement needs.
Engaged(c) ==
    /\ ckind[c] \in Kinds /\ calert[c] # None /\ alerts[calert[c]] # None
    /\ cpc[c] \in Handling => /\ ckind[c] \in {"acknowledge", "resolve"}
                              /\ incidents[calert[c]] # None /\ cent[c] # None
    /\ cpc[c] = "incident" => ckind[c] \in {"create", "raise"}
    /\ cpc[c] = "action" => ckind[c] \in Kinds \ {"raise"}
    /\ cpc[c] = "auditincident" => ckind[c] = "raise"

TypeOK ==
    /\ alerts \in [Alerts -> AlertRow \cup {None}]
    /\ incidents \in [Alerts -> IncidentRow \cup {None}]
    /\ actions \subseteq [action : ActionNames, by : Commands, alert : Alerts]
    /\ audit \subseteq [action : EntryNames, by : Commands, alert : Alerts]
    /\ events \subseteq [topic : {"alert.raised", "incident.updated"}, alert : Alerts,
                         status : Statuses]
    /\ cpc \in [Commands -> InFlight \cup {"idle", "done"}]
    /\ ckind \in [Commands -> Kinds \cup {None}]
    /\ calert \in [Commands -> Alerts \cup {None}]
    /\ cent \in [Commands -> IncidentRow \cup {None}]
    /\ cdiff \in [Commands -> SUBSET Columns]
    /\ cut \subseteq Commands /\ contended \subseteq Alerts
    /\ \A a \in Alerts : alerts[a] = None => incidents[a] = None
    /\ \A c \in Commands : cpc[c] \in InFlight => Engaged(c)

\* Nobody sees a critical alert without its incident for longer than the pause
\* between the two inserts, unless the command was cut off right there
\* (alert.service.ts:48-69, job-processor.service.ts:184-205).
EscalationComplete ==
    \A a \in Alerts :
        alerts[a] # None /\ alerts[a].severity = "critical" /\ incidents[a] = None =>
            \E c \in Commands :
                /\ calert[c] = a /\ ckind[c] \in {"create", "raise"}
                /\ cpc[c] = "incident" \/ c \in cut

\* An incident somebody handles drags its alert along: the alert stays open only
\* while the update is under way or because it was cut off, in whatever order
\* acknowledgements and resolutions overlap (incident.service.ts:33-44, 93-104).
AlertFollowsIncident ==
    \A a \in Alerts :
        incidents[a] # None /\ incidents[a].status # "open" /\ alerts[a].status = "open" =>
            \E c \in Commands : calert[c] = a /\ (cpc[c] = "update" \/ c \in cut)

\* Operator c did something about the incident of alert a: that is on record, or
\* about to be, or the command was cut off.
OnRecord(a, c) ==
    \/ \E x \in actions : x.by = c /\ x.alert = a
                          /\ x.action \in {"incident.acknowledge", "incident.resolve"}
    \/ /\ calert[c] = a /\ ckind[c] \in {"acknowledge", "resolve"}
       /\ cpc[c] \in {"update", "action"} \/ c \in cut

\* Whoever an incident's row names, as acknowledger or as resolver, is on record
\* with an operator action for it, even if others overwrote the row meanwhile
\* (incident.service.ts:29-54, 84-114).
NamedOperatorsOnRecord ==
    \A a \in Alerts : incidents[a] # None =>
        \A c \in {incidents[a].acknowledgedBy, incidents[a].resolvedBy} \ {None} : OnRecord(a, c)

\* A resolved incident names its acknowledger too, also when it was resolved
\* from open or by an operator who read it before somebody else acknowledged it
\* (incident.service.ts:84-91).
AcknowledgementNamed ==
    \A a \in Alerts :
        incidents[a] # None /\ incidents[a].status = "resolved" =>
            incidents[a].acknowledgedBy # None

\* A transition that was broadcast was audited before, by someone
\* (incident.service.ts:56-72, 116-132).
BroadcastsAudited ==
    \A e \in events : e.topic = "incident.updated" /\ e.status # "open" =>
        \E x \in audit :
            /\ x.alert = e.alert
            /\ x.action = IF e.status = "resolved" THEN "incident.resolved"
                          ELSE "incident.acknowledged"

\* Resolution is final (docs/domain-model.md:75 "resolved -> acknowledged | No |
\* Rejected by the service").
ResolutionSticks ==
    [][\A a \in Alerts : incidents[a] # None =>
          (incidents[a].status = "resolved" => incidents'[a].status = "resolved")]_vars

\* An alert whose commands are over, and were not cut off, has the status of its
\* incident, however often it is acknowledged and resolved, unless two of them
\* overlapped (incident.service.ts:29-44, 89-104).
AlertInStep ==
    \A a \in Alerts \ contended :
        /\ incidents[a] # None
        /\ \A c \in Commands : calert[c] = a => cpc[c] \notin Handling /\ c \notin cut
        => alerts[a].status = incidents[a].status

Lifecycle == INSTANCE IncidentLifecycle
    WITH Incidents <- Alerts, Operators <- Commands, incident <- incidents, loose <- contended

\* Commands that read the incident in the middle of another one are its only way
\* out of the transitions the domain model allows; commands that are cut off
\* never are (incident.service.ts:22-44, 77-104).
ImplementsIncidentLifecycle == Lifecycle!Spec
=============================================================================
