----------------------------- MODULE RemoteAccess -----------------------------
(***************************************************************************)
(* SSH access through Cloudflare: apps/api/src/lib/cloudflareTunnel.ts     *)
(* with its callers, POST /enroll, POST and DELETE of a device's remote    *)
(* access (devices.ts) and the orphan pages of the settings.               *)
(*                                                                         *)
(* Every call to Cloudflare and every statement is a step; while the cloud *)
(* is unreliable any call may fail, with or without effect, and a request  *)
(* may be cut off anywhere; and the requests interleave.  An Access        *)
(* application has the number of the tunnel it was made for, and a number  *)
(* is used again once nothing refers to it.  A status other than "error"   *)
(* is "ready" here, whatever the connector does.                           *)
(* Cloudflare (external) keeps one CNAME per name and refuses a second.    *)
(***************************************************************************)
EXTENDS Integers, FiniteSets

CONSTANTS
  Device,     \* enrolled devices
  Operator,   \* the operator whose requests never stop coming
  Worker,     \* other requests in progress: enrolments, consoles
  MaxFlaky,   \* bound: tunnels in use while calls to Cloudflare fail
  MaxTunnels  \* bound: tunnels in use at any time

Tunnel == 1 .. MaxTunnels
Requester == Worker \cup {Operator}

ASSUME AccessAssumption ==
  /\ MaxFlaky \in Nat /\ MaxTunnels \in Nat /\ MaxFlaky <= MaxTunnels
  /\ Operator \notin Worker
  /\ "none" \notin Device  \* a request's dev before it has one

VARIABLES
  fleet,      \* rows of devices
  access,     \* device_remote_access: access[d], NoAccess without a row
  tunnels,    \* live tunnels of the account
  dns,        \* dns[d]: the tunnel the CNAME of d's hostname points to, or 0
  apps,       \* live Access applications
  guarded,    \* those of them that have their policy and CA
  cloud,      \* may a call to Cloudflare still fail?
  task,       \* task[w]: the request w is in the middle of
  disturbed   \* devices whose remote access two requests changed at once, one of
              \*   them perhaps the deletion of a tunnel not yet recorded, whose
              \*   error a look at the device overwrote, or whose row stood when
              \*   a request at work on them was cut off (history)

accessVars ==
  <<fleet, access, tunnels, dns, apps, guarded, cloud, task, disturbed>>

NoAccess == [tunnel |-> 0, app |-> 0, status |-> "none"]
NoTask   == [at |-> "none", dev |-> "none", old |-> NoAccess, tunnel |-> 0, app |-> 0,
             after |-> "none", seen |-> {}, flying |-> {}]

AccessRow == [tunnel : 0 .. MaxTunnels, app : 0 .. MaxTunnels,
              status : {"none", "ready", "error"}]

Task == [at : {"none", "tunnel", "dns", "app", "guard", "row", "failed", "delapp",
               "deldns", "deltunnel", "delrow", "orphans", "orphan"},
         dev : Device \cup {"none"}, old : AccessRow,
         tunnel : 0 .. MaxTunnels, app : 0 .. MaxTunnels,
         after : {"none", "provision", "delete"},
         seen : SUBSET Tunnel, flying : SUBSET Tunnel]

AccessTypeOK ==
  /\ fleet \subseteq Device
  /\ access \in [Device -> AccessRow]
  /\ tunnels \subseteq Tunnel /\ apps \subseteq Tunnel /\ guarded \subseteq apps
  /\ dns \in [Device -> 0 .. MaxTunnels]
  /\ cloud \in {"flaky", "steady"}
  /\ task \in [Requester -> Task]
  /\ disturbed \subseteq Device

AccessInit ==
  /\ fleet = Device
  /\ access = [d \in Device |-> NoAccess]
  /\ tunnels = {} /\ apps = {} /\ guarded = {}
  /\ dns = [d \in Device |-> 0]
  /\ cloud = "flaky"
  /\ task = [w \in Requester |-> NoTask]
  /\ disturbed = {}

-----------------------------------------------------------------------------
Goto(w, step) == task' = [task EXCEPT ![w].at = step]

End(w) == task' = [task EXCEPT ![w] = NoTask]

\* A call took effect; its answer may be lost, and then the request goes on as if
\* the call had failed.
Replied(w, next, failure) ==
  Goto(w, next) \/ (cloud = "flaky" /\ Goto(w, failure))

\* Another request is at work on the remote access of d.
Overlap(w, d) ==
  disturbed' = IF \E v \in Requester \ {w} : task[v].dev = d
                  THEN disturbed \cup {d} ELSE disturbed

Claim(w, d, first, next) ==
  task' = [task EXCEPT ![w] = [NoTask EXCEPT
             !.at = first, !.dev = d, !.old = access[d], !.after = next]]

(* provisionRemoteAccess. *)

\* POST /remote-access (and, on a device without a row, POST /enroll): a row in
\* error, without an application or, at the operator's wish or after a change of
\* the settings (force), any row is removed and provisioned again.
Provision(w, d, force) ==
  /\ task[w] = NoTask /\ d \in fleet
  /\ force => access[d].status = "ready"
  /\ IF access[d] = NoAccess
       THEN Claim(w, d, "tunnel", "none")
       ELSE /\ access[d].status = "error" \/ access[d].app = 0 \/ force
            /\ Claim(w, d, "delapp", "provision")
  /\ Overlap(w, d)
  /\ UNCHANGED <<fleet, access, tunnels, dns, apps, guarded, cloud>>

\* Numbers that something still refers to.
Named ==
  tunnels \cup apps \cup {access[d].tunnel : d \in Device} \cup {dns[d] : d \in Device}
  \cup UNION {{task[w].tunnel, task[w].old.tunnel} \cup task[w].seen : w \in Requester}

CreateTunnel(w) ==
  /\ task[w].at = "tunnel"
  /\ \E t \in 1 .. (IF cloud = "flaky" THEN MaxFlaky ELSE MaxTunnels) \ Named :
       /\ \A u \in 1 .. t - 1 : u \in Named
       /\ tunnels' = tunnels \cup {t}
       /\ \/ task' = [task EXCEPT ![w].at = "dns", ![w].tunnel = t]
          \/ cloud = "flaky" /\ End(w)
  /\ UNCHANGED <<fleet, access, dns, apps, guarded, cloud, disturbed>>

\* PUT /configurations, which needs the tunnel, then the CNAME.
PointName(w) ==
  /\ task[w].at = "dns"
  /\ IF task[w].tunnel \in tunnels /\ dns[task[w].dev] = 0
       THEN /\ dns' = [dns EXCEPT ![task[w].dev] = task[w].tunnel]
            /\ Replied(w, "app", "failed")
       ELSE UNCHANGED dns /\ Goto(w, "failed")
  /\ UNCHANGED <<fleet, access, tunnels, apps, guarded, cloud, disturbed>>

CreateApp(w) ==
  /\ task[w].at = "app"
  /\ apps' = apps \cup {task[w].tunnel}
  /\ \/ task' = [task EXCEPT ![w].at = "guard", ![w].app = task[w].tunnel]
     \/ cloud = "flaky" /\ Goto(w, "failed")
  /\ UNCHANGED <<fleet, access, tunnels, dns, guarded, cloud, disturbed>>

\* Its policy and its CA, unless the application is gone already.
GuardApp(w) ==
  /\ task[w].at = "guard"
  /\ guarded' = guarded \cup ({task[w].app} \cap apps)
  /\ Replied(w, IF task[w].app \in apps THEN "row" ELSE "failed", "failed")
  /\ UNCHANGED <<fleet, access, tunnels, dns, apps, cloud, disturbed>>

\* The row; another request's row, or no device any more, is a failed constraint.
RecordReady(w) ==
  LET d == task[w].dev IN
  /\ task[w].at = "row"
  /\ IF d \in fleet /\ access[d] = NoAccess
       THEN /\ access' = [access EXCEPT ![d] =
                 [tunnel |-> task[w].tunnel, app |-> task[w].app, status |-> "ready"]]
            /\ End(w)
       ELSE UNCHANGED access /\ Goto(w, "failed")
  /\ UNCHANGED <<fleet, tunnels, dns, apps, guarded, cloud, disturbed>>

\* Mutant of RecordError: the row does not show that provisioning failed.
RecordErrorAsReady(w) ==
  LET d == task[w].dev IN
  /\ task[w].at = "failed"
  /\ access' = IF d \notin fleet THEN access
               ELSE [access EXCEPT ![d] =
                      [tunnel |-> task[w].tunnel, app |-> task[w].app, status |-> "ready"]]
  /\ End(w)
  /\ UNCHANGED <<fleet, tunnels, dns, apps, guarded, cloud, disturbed>>

\* The catch: an error row for the tunnel, or the error on the row that stands,
\* which keeps its tunnel.
RecordError(w) ==
  LET d == task[w].dev IN
  /\ task[w].at = "failed"
  /\ access' = CASE d \notin fleet -> access
                 [] d \in fleet /\ access[d] = NoAccess ->
                      [access EXCEPT ![d] = [tunnel |-> task[w].tunnel,
                                             app |-> task[w].app, status |-> "error"]]
                 [] OTHER -> [access EXCEPT ![d].status = "error"]
  /\ End(w)
  /\ UNCHANGED <<fleet, tunnels, dns, apps, guarded, cloud, disturbed>>

-----------------------------------------------------------------------------
(* removeRemoteAccess, for a new provisioning or for DELETE /devices/:uuid. *)

RemoveDevice(w, d) ==
  /\ task[w] = NoTask /\ d \in fleet
  /\ Claim(w, d, IF access[d] = NoAccess THEN "delrow" ELSE "delapp", "delete")
  /\ Overlap(w, d)
  /\ UNCHANGED <<fleet, access, tunnels, dns, apps, guarded, cloud>>

\* Each deletion in turn; of what is gone already, the first one throws.
DeleteApp(w) ==
  LET a == task[w].old.app IN
  /\ task[w].at = "delapp"
  /\ apps' = apps \ {a} /\ guarded' = guarded \ {a}
  /\ Replied(w, IF a = 0 \/ a \in apps THEN "deldns" ELSE "delrow", "delrow")
  /\ UNCHANGED <<fleet, access, tunnels, dns, cloud, disturbed>>

\* Mutant of DeleteName: the record is looked up by tunnel, not by name.
DeleteNameOfTunnel(w) ==
  /\ task[w].at = "deldns"
  /\ dns' = [dns EXCEPT ![task[w].dev] = IF @ = task[w].old.tunnel THEN 0 ELSE @]
  /\ Replied(w, "deltunnel", "delrow")
  /\ UNCHANGED <<fleet, access, tunnels, apps, guarded, cloud, disturbed>>

DeleteName(w) ==
  /\ task[w].at = "deldns"
  /\ dns' = [dns EXCEPT ![task[w].dev] = 0]
  /\ Replied(w, "deltunnel", "delrow")
  /\ UNCHANGED <<fleet, access, tunnels, apps, guarded, cloud, disturbed>>

DeleteTunnel(w) ==
  /\ task[w].at = "deltunnel"
  /\ tunnels' = tunnels \ {task[w].old.tunnel}
  /\ Goto(w, "delrow")
  /\ UNCHANGED <<fleet, access, dns, apps, guarded, cloud, disturbed>>

\* The row goes, with the device (ON DELETE CASCADE) or before the next tunnel.
DeleteAccess(w) ==
  /\ task[w].at = "delrow"
  /\ access' = [access EXCEPT ![task[w].dev] = NoAccess]
  /\ IF task[w].after = "delete"
       THEN fleet' = fleet \ {task[w].dev} /\ End(w)
       ELSE /\ UNCHANGED fleet
            /\ task' = [task EXCEPT ![w] = [NoTask EXCEPT !.at = "tunnel",
                                                          !.dev = task[w].dev]]
  /\ UNCHANGED <<tunnels, dns, apps, guarded, cloud, disturbed>>

\* A call fails without effect: a removal gives up and goes on with the row, a
\* provisioning records the error, if it has a tunnel to name.
CallFails(w) ==
  /\ cloud = "flaky"
  /\ \/ task[w].at \in {"delapp", "deldns", "deltunnel"} /\ Goto(w, "delrow")
     \/ task[w].at \in {"dns", "app", "guard", "row"} /\ Goto(w, "failed")
     \/ task[w].at \in {"tunnel", "orphans", "orphan"} /\ End(w)
  /\ UNCHANGED <<fleet, access, tunnels, dns, apps, guarded, cloud, disturbed>>

\* The worker dies, or the statement fails that would record the error or remove the
\* row: a row that stands may then name what is gone.
CutOff(w) ==
  LET d == task[w].dev IN
  /\ cloud = "flaky" /\ task[w] # NoTask
  /\ End(w)
  /\ disturbed' = IF d \in Device /\ access[d] # NoAccess
                    THEN disturbed \cup {d} ELSE disturbed
  /\ UNCHANGED <<fleet, access, tunnels, dns, apps, guarded, cloud>>

-----------------------------------------------------------------------------
(* deleteOrphanTunnels. *)

InUse == {access[d].tunnel : d \in Device}

\* Tunnels some request has created and not yet recorded.
Unrecorded == tunnels \cap {task[w].tunnel : w \in Requester}

ListTunnels(w) ==
  /\ task[w] = NoTask /\ tunnels # {}
  /\ task' = [task EXCEPT ![w].at = "orphans", ![w].seen = tunnels,
                          ![w].flying = Unrecorded]
  /\ UNCHANGED <<fleet, access, tunnels, dns, apps, guarded, cloud, disturbed>>

\* Mutant of ConfirmOrphans: the ids the page sent are trusted.
ConfirmNothing(w) ==
  /\ task[w].at = "orphans"
  /\ task' = [task EXCEPT ![w].at = "orphan"]
  /\ UNCHANGED <<fleet, access, tunnels, dns, apps, guarded, cloud, disturbed>>

\* The rows are read after the tunnels.
ConfirmOrphans(w) ==
  /\ task[w].at = "orphans"
  /\ task' = [task EXCEPT ![w].at = "orphan", ![w].seen = @ \ InUse]
  /\ UNCHANGED <<fleet, access, tunnels, dns, apps, guarded, cloud, disturbed>>

DeleteOrphan(w) ==
  /\ task[w].at = "orphan"
  /\ \/ \E t \in task[w].seen :
          /\ tunnels' = tunnels \ {t}
          /\ task' = [task EXCEPT ![w].seen = @ \ {t}]
          /\ disturbed' = disturbed \cup
               {d \in Device : /\ t \in task[w].flying
                               /\ \/ access[d].tunnel = t
                                  \/ \E v \in Requester : /\ task[v].dev = d
                                                           /\ task[v].tunnel = t}
     \/ End(w) /\ UNCHANGED <<tunnels, disturbed>>
  /\ UNCHANGED <<fleet, access, dns, apps, guarded, cloud>>

\* GET /remote-access, by whoever looks at the device: the row takes the status of
\* the tunnel, over the error of a provisioning that failed.
ShowAccess(d) ==
  /\ access[d].status = "error"
  /\ access' = [access EXCEPT ![d].status = "ready"]
  /\ disturbed' = IF access[d].app = 0 THEN disturbed ELSE disturbed \cup {d}
  /\ UNCHANGED <<fleet, tunnels, dns, apps, guarded, cloud, task>>

CloudSettles ==
  /\ cloud = "flaky" /\ cloud' = "steady"
  /\ UNCHANGED <<fleet, access, tunnels, dns, apps, guarded, task, disturbed>>

Continue(w) ==
  \/ CreateTunnel(w) \/ PointName(w) \/ CreateApp(w) \/ GuardApp(w)
  \/ RecordReady(w) \/ RecordError(w)
  \/ DeleteApp(w) \/ DeleteName(w) \/ DeleteTunnel(w) \/ DeleteAccess(w)
  \/ ConfirmOrphans(w) \/ DeleteOrphan(w)

\* A row that names an application and reports no error, and keeps its word: its
\* tunnel is alive, the hostname leads to it, and the application protects it with
\* its policy and CA.
LooksReady(d) == access[d].status = "ready" /\ access[d].app # 0

Serves(d) ==
  /\ LooksReady(d)
  /\ access[d].app \in guarded
  /\ dns[d] = access[d].tunnel
  /\ access[d].tunnel \in tunnels

\* The operator replaces what looks ready and does not work (force).
Replace(d) == ~Serves(d) /\ Provision(Operator, d, TRUE)

AccessNext ==
  \/ \E w \in Requester : Continue(w) \/ CallFails(w) \/ CutOff(w)
  \/ \E d \in Device : Provision(Operator, d, FALSE) \/ Replace(d) \/ ShowAccess(d)
  \/ /\ cloud = "flaky"
     /\ \E w \in Worker :
          \/ ListTunnels(w)
          \/ \E d \in Device :
               RemoveDevice(w, d) \/ \E force \in BOOLEAN : Provision(w, d, force)
  \/ CloudSettles

AccessSpec == AccessInit /\ [][AccessNext]_accessVars

-----------------------------------------------------------------------------
(* Properties. *)

\* A row that names an application and reports no error serves, unless the row is
\* just being removed, two requests worked on the device at once, the tunnel was
\* deleted as an orphan while it was being provisioned, a request on it was cut off,
\* or somebody looked at the device after provisioning failed.
ReadyServes ==
  \A d \in fleet \ disturbed :
    LooksReady(d) /\ (\A w \in Requester : task[w].dev # d) => Serves(d)

\* "Deletes only Tunnels confirmed orphaned at call time, so an in-use id passed
\* by a stale client can never remove a live device's Tunnel": one that a row
\* names is deleted only if it was still being provisioned when the tunnels
\* were listed.
OrphansOnly ==
  [][\A w \in Requester : \A t \in tunnels \ tunnels' :
       DeleteOrphan(w) /\ t \in InUse => t \in task[w].flying]_accessVars

\* Once Cloudflare answers, an operator who retries has a row that says ready, and
\* one that works unless something came between before; and an operator who also
\* replaces a row that looks ready and does not work (force) gets working remote
\* access, whatever half-made tunnels, names, applications and rows failures, lost
\* answers, overlaps and requests cut off have left.
ReprovisionHeals ==
  \A d \in Device :
    <>[](cloud = "steady") =>
      /\ <>[](d \in fleet => LooksReady(d) /\ (Serves(d) \/ d \in disturbed))
      /\ WF_accessVars(Replace(d)) => <>[](d \in fleet => Serves(d))
=============================================================================
