----------------------------- MODULE TuiForms -----------------------------
(***************************************************************************)
(* The New Session form and the hosts overlay of the terminal UI           *)
(* (agentum-tui, app.rs).  Slow work - finding a home directory, checking  *)
(* a host, creating and starting a session - runs in detached tasks; a     *)
(* form operation has a number, the result of a task carries it, and       *)
(* new_session_active_op names the operation the visible form waits for.   *)
(* The hosts overlay calls the server inline and keeps the reports of the  *)
(* hosts in a cache that the submit guard reads.                           *)
(***************************************************************************)
EXTENDS Integers, Sequences, FiniteSets

CONSTANTS FormHosts,    \* remote hosts
          MaxOps,       \* bound: operations started
          MaxForms,     \* bound: forms opened
          MaxEdits      \* bound: edits of a host

ASSUME FormAssumption ==
    MaxOps \in Nat /\ MaxForms \in Nat /\ MaxEdits \in Nat

Local == "local"
NoOp == 0

VARIABLES
    overlay,    \* the one overlay
    form,       \* the New Session form, <<>> when it is not the overlay
    activeOp,   \* new_session_active_op
    nextOp,     \* new_session_next_op
    running,    \* tasks at work
    results,    \* results sent and not handled
    hostVersion,\* version of each host's row and machine at the server
    report,     \* host_readiness_cache
    created,    \* operations whose session is in the list
    formsOpened,\* counts forms
    scribbled   \* history: a result changed a form that did not ask for it

formVars == <<overlay, form, activeOp, nextOp, running, results, hostVersion,
              report, created, formsOpened, scribbled>>

Kinds == {"home", "prepare", "create"}
Tasks == [op : 1 .. MaxOps, kind : Kinds, host : FormHosts \cup {Local}]
Reports == [version : 0 .. MaxEdits, ok : BOOLEAN]
Results == [task : Tasks, ok : BOOLEAN, report : Reports \cup {<<>>}]
FormStates == [number : 1 .. MaxForms, host : FormHosts \cup {Local},
               dirBy : 0 .. MaxOps, busy : BOOLEAN, op : 0 .. MaxOps]

\* The variables stay within their types.
FormTypeOK ==
    /\ overlay \in {"none", "form", "palette", "hosts"}
    /\ form \in FormStates \cup {<<>>}
    /\ (overlay = "form") = (form # <<>>)
    /\ activeOp \in 0 .. MaxOps /\ nextOp \in 0 .. MaxOps
    /\ running \subseteq Tasks
    /\ results \in Seq(Results)
    /\ hostVersion \in [FormHosts -> 0 .. MaxEdits]
    /\ report \in [FormHosts -> Reports \cup {<<>>}]
    /\ created \subseteq 1 .. MaxOps
    /\ formsOpened \in 0 .. MaxForms
    /\ scribbled \in BOOLEAN

-----------------------------------------------------------------------------
(* Form operations.                                                        *)

\* begin_new_session_operation and the spawn of its task, for form f.
Begin(f, kind) ==
    /\ nextOp < MaxOps
    /\ nextOp' = nextOp + 1
    /\ activeOp' = nextOp + 1
    /\ form' = [f EXCEPT !.busy = TRUE, !.op = nextOp + 1]
    /\ running' = running \cup
           {[op |-> nextOp + 1, kind |-> kind, host |-> f.host]}

\* The tree's create key and the palette's New Session.  With a session
\* selected its directory is taken over and no operation starts.
OpenForm ==
    /\ overlay \in {"none", "palette"} /\ formsOpened < MaxForms
    /\ formsOpened' = formsOpened + 1
    /\ overlay' = "form"
    /\ LET fresh == [number |-> formsOpened + 1, host |-> Local, dirBy |-> 0,
                     busy |-> FALSE, op |-> NoOp]
       IN  \/ /\ form' = fresh
              /\ UNCHANGED <<activeOp, nextOp, running>>
           \/ Begin(fresh, "home")
    /\ UNCHANGED <<results, hostVersion, report, created, scribbled>>

\* Ctrl-P and Ctrl-S replace whatever overlay is up.
OpenOther ==
    /\ overlay' \in {"palette", "hosts"} \ {overlay}
    /\ form' = <<>>
    /\ UNCHANGED <<activeOp, nextOp, running, results, hostVersion, report,
                   created, formsOpened, scribbled>>

\* Esc: a busy form is hidden and its operation is no longer the active one.
HideForm ==
    /\ overlay = "form"
    /\ overlay' = "none" /\ form' = <<>>
    /\ activeOp' = IF form.busy THEN NoOp ELSE activeOp
    /\ UNCHANGED <<nextOp, running, results, hostVersion, report, created,
                   formsOpened, scribbled>>

\* Tab on the host field: the next host is checked.
CycleHost ==
    /\ overlay = "form" /\ ~form.busy
    /\ \E h \in FormHosts \cup {Local} :
         /\ h # form.host
         /\ Begin([form EXCEPT !.host = h], "prepare")
    /\ UNCHANGED <<overlay, results, hostVersion, report, created,
                   formsOpened, scribbled>>

\* The user edits the working directory.
EditDir ==
    /\ overlay = "form" /\ ~form.busy /\ form.dirBy # 0
    /\ form' = [form EXCEPT !.dirBy = 0]
    /\ UNCHANGED <<overlay, activeOp, nextOp, running, results, hostVersion,
                   report, created, formsOpened, scribbled>>

\* A cached report that says the host is not ready stops the submit.
HostBlocked(h) == h # Local /\ report[h] # <<>> /\ ~report[h].ok

Submit ==
    /\ overlay = "form" /\ ~form.busy
    /\ ~HostBlocked(form.host)
    /\ Begin(form, "create")
    /\ UNCHANGED <<overlay, results, hostVersion, report, created,
                   formsOpened, scribbled>>

\* A task gets its answer; a report is of the host as it is then.
TaskAnswers ==
    /\ \E t \in running, ok \in BOOLEAN, ready \in BOOLEAN :
         /\ running' = running \ {t}
         /\ results' = Append(results,
              [task |-> t, ok |-> ok,
               report |-> IF t.kind = "prepare" /\ t.host # Local
                          THEN [version |-> hostVersion[t.host], ok |-> ready]
                          ELSE <<>>])
    /\ UNCHANGED <<overlay, form, activeOp, nextOp, hostVersion, report,
                   created, formsOpened, scribbled>>

-----------------------------------------------------------------------------
(* apply_new_session_task_result.                                          *)

\* The visible form when the result is of the active operation; a result of
\* any other operation leaves the form alone.
Answered(r) == r.task.op = activeOp /\ overlay = "form"

Thawed(r) ==
    IF ~Answered(r) THEN form
    ELSE [form EXCEPT !.busy = FALSE,
                      !.dirBy = IF r.ok /\ r.task.kind # "create"
                                THEN r.task.op ELSE @]

\* A report is cached whether or not its form is still there; a created
\* session is listed, and the form that waits for it closes.
ApplyResult ==
    /\ results # <<>>
    /\ LET r == Head(results)
           done == Answered(r) /\ r.task.kind = "create" /\ r.ok
       IN  /\ results' = Tail(results)
           /\ activeOp' = IF r.task.op = activeOp THEN NoOp ELSE activeOp
           /\ report' = IF r.report # <<>>
                        THEN [report EXCEPT ![r.task.host] = r.report]
                        ELSE report
           /\ created' = IF r.task.kind = "create" /\ r.ok
                         THEN created \cup {r.task.op} ELSE created
           /\ overlay' = IF r.task.op = activeOp /\ r.task.kind = "create"
                             /\ r.ok
                         THEN "none" ELSE overlay
           /\ form' = IF done THEN <<>> ELSE Thawed(r)
           /\ scribbled' = (scribbled \/ (Answered(r)
                                          /\ form.op # r.task.op))
    /\ UNCHANGED <<nextOp, running, hostVersion, formsOpened>>

-----------------------------------------------------------------------------
(* The hosts overlay: its calls are awaited in the key handler.            *)

\* Enter, t: the host is checked, the report cached.
CheckHost ==
    /\ overlay = "hosts"
    /\ \E h \in FormHosts, ready \in BOOLEAN :
         report' = [report EXCEPT ![h] =
                        [version |-> hostVersion[h], ok |-> ready]]
    /\ UNCHANGED <<overlay, form, activeOp, nextOp, running, results,
                   hostVersion, created, formsOpened, scribbled>>

\* i, then y: the missing packages are installed and the host reports again.
ProvisionHost ==
    /\ overlay = "hosts"
    /\ \E h \in FormHosts, ready \in BOOLEAN :
         /\ report[h] # <<>> /\ hostVersion[h] < MaxEdits
         /\ hostVersion' = [hostVersion EXCEPT ![h] = @ + 1]
         /\ report' = [report EXCEPT ![h] =
                           [version |-> hostVersion[h] + 1, ok |-> ready]]
    /\ UNCHANGED <<overlay, form, activeOp, nextOp, running, results, created,
                   formsOpened, scribbled>>

\* e, Enter: the host is saved with another address and its report dropped.
EditHost ==
    /\ overlay = "hosts"
    /\ \E h \in FormHosts :
         /\ hostVersion[h] < MaxEdits
         /\ hostVersion' = [hostVersion EXCEPT ![h] = @ + 1]
         /\ report' = [report EXCEPT ![h] = <<>>]
    /\ UNCHANGED <<overlay, form, activeOp, nextOp, running, results, created,
                   formsOpened, scribbled>>

\* cached_readiness: a report older than HOST_READINESS_TTL is not used.
ReportExpires ==
    /\ \E h \in FormHosts : /\ report[h] # <<>>
                            /\ report' = [report EXCEPT ![h] = <<>>]
    /\ UNCHANGED <<overlay, form, activeOp, nextOp, running, results,
                   hostVersion, created, formsOpened, scribbled>>

CloseOverlay ==
    /\ overlay \in {"palette", "hosts"}
    /\ overlay' = "none"
    /\ UNCHANGED <<form, activeOp, nextOp, running, results, hostVersion,
                   report, created, formsOpened, scribbled>>

-----------------------------------------------------------------------------
FormInit ==
    /\ overlay = "none" /\ form = <<>>
    /\ activeOp = NoOp /\ nextOp = 0
    /\ running = {} /\ results = <<>>
    /\ hostVersion = [h \in FormHosts |-> 0]
    /\ report = [h \in FormHosts |-> <<>>]
    /\ created = {} /\ formsOpened = 0
    /\ scribbled = FALSE

FormNext ==
    \/ OpenForm
    \/ OpenOther
    \/ HideForm
    \/ CycleHost
    \/ EditDir
    \/ Submit
    \/ TaskAnswers
    \/ ApplyResult
    \/ CheckHost
    \/ ProvisionHost
    \/ EditHost
    \/ ReportExpires
    \/ CloseOverlay

FormSpec == FormInit /\ [][FormNext]_formVars

-----------------------------------------------------------------------------
\* A form that shows it is working is waiting for an operation that is still
\* to be answered: it cannot stay frozen because the result of its operation
\* was taken for another one's.
FrozenFormIsAwaited ==
    overlay = "form" /\ form.busy =>
        /\ activeOp = form.op
        /\ \/ \E t \in running : t.op = form.op
           \/ \E i \in 1 .. Len(results) : results[i].task.op = form.op

-----------------------------------------------------------------------------
(* Statements the code does not keep: TLC refutes each of them, see the    *)
(* README, "What does not hold".                                           *)

\* "A stale result ... must never overwrite a newer form the user opened
\* meanwhile" (new_session_active_op).
StaleNeverOverwrites == ~scribbled
=============================================================================
