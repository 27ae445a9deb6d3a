--------------------------- MODULE SystemTriggers ---------------------------
(***************************************************************************)
(* Runs the system starts by itself.  Every backend process scans the      *)
(* monthly report schedules (list, then for each that is due: start a run, *)
(* mark the month) and handles sentiment anomalies that were put into the  *)
(* outbox once per window.  The clock is a month, a day and an hour.       *)
(*                                                                         *)
(*   scan: idle -Begin-> next -Start-> started -MarkFired-> next ... idle  *)
(*   anomaly: absent -emit-> pending -Claim-> taken -> done or dead        *)
(***************************************************************************)
EXTENDS Integers, Sequences, FiniteSets

CONSTANTS
    Process,      \* backend processes, each with a worker
    Schedule,     \* report_schedule rows, in the order they are listed
    DayOfMonth,   \* [Schedule -> 1..31]
    Hour,         \* [Schedule -> hour of the day]
    MonthLength,  \* days of each month of the run: bound of time
    Hours,        \* hours of a day
    Window,       \* window keys of anomalies
    MaxAttempts,  \* max_attempts of an event
    MaxFaults     \* bound: failing starts and processes that die

TriggerAssumption ==
    /\ \A i \in DOMAIN Schedule : DayOfMonth[Schedule[i]] \in 1..31
    /\ \A i \in DOMAIN Schedule : Hour[Schedule[i]] \in 0..(Hours - 1)
    /\ MaxAttempts \in Nat /\ MaxFaults \in Nat

VARIABLES
    now,       \* [month, day, hour]
    last,      \* last_fired_period of each schedule, 0 when never
    enabled,   \* of each schedule
    template,  \* whether the templates the schedules and anomalies name are enabled
    scan,      \* what the scan of each process knows
    runs,      \* runs started for each schedule and month
    event,     \* sentiment.anomaly.detected of each window
    answers,   \* runs started for each window
    faults

vars == <<now, last, enabled, template, scan, runs, event, answers, faults>>

-----------------------------------------------------------------------------
Schedules == {Schedule[i] : i \in DOMAIN Schedule}
Month == DOMAIN MonthLength
Idle == [pc |-> "idle"]
At(p, pc) == scan[p].pc = pc
NoEvent == [status |-> "absent", by |-> "nobody", attempts |-> 0]

target_day(s, month) == IF DayOfMonth[s] < MonthLength[month] THEN DayOfMonth[s]
                        ELSE MonthLength[month]

is_due(s, on, fired, t) ==
    /\ on /\ fired # t.month
    /\ \/ t.day > target_day(s, t.month)
       \/ t.day = target_day(s, t.month) /\ t.hour >= Hour[s]

Init == /\ now = [month |-> 1, day |-> 1, hour |-> 0]
        /\ last = [s \in Schedules |-> 0]
        /\ enabled = [s \in Schedules |-> TRUE]
        /\ template = TRUE
        /\ scan = [p \in Process |-> Idle]
        /\ runs = [s \in Schedules |-> [m \in Month |-> 0]]
        /\ event = [w \in Window |-> NoEvent]
        /\ answers = [w \in Window |-> 0]
        /\ faults = 0

Fault == faults < MaxFaults /\ faults' = faults + 1

-----------------------------------------------------------------------------
\* An hour passes.
Tick ==
    /\ now' = CASE now.hour + 1 < Hours -> [now EXCEPT !.hour = @ + 1]
                [] now.hour + 1 = Hours /\ now.day < MonthLength[now.month] ->
                     [now EXCEPT !.hour = 0, !.day = @ + 1]
                [] OTHER -> [month |-> now.month + 1, day |-> 1, hour |-> 0]
    /\ now'.month \in Month
    /\ UNCHANGED <<last, enabled, template, scan, runs, event, answers, faults>>

\* An administrator changes a row; the template is switched off or on.
SwitchSchedule(s) ==
    /\ enabled' = [enabled EXCEPT ![s] = ~@]
    /\ UNCHANGED <<now, last, template, scan, runs, event, answers, faults>>

SwitchTemplate ==
    /\ template' = ~template
    /\ UNCHANGED <<now, last, enabled, scan, runs, event, answers, faults>>

\* scan_once: the clock is read once, and the enabled schedules are listed.
Begin(p) ==
    /\ At(p, "idle")
    /\ scan' = [scan EXCEPT ![p] =
                  [pc |-> "next", i |-> 1, now |-> now,
                   views |-> [s \in {t \in Schedules : enabled[t]} |-> last[s]]]]
    /\ UNCHANGED <<now, last, enabled, template, runs, event, answers, faults>>

Due(p, s) ==
    LET view == scan[p] IN
    s \in DOMAIN view.views /\ is_due(s, TRUE, view.views[s], view.now)

\* A schedule that is not due, or whose template is off, is passed over.
Skip(p) ==
    LET s == Schedule[scan[p].i] IN
    /\ At(p, "next") /\ scan[p].i <= Len(Schedule)
    /\ Due(p, s) => ~template
    /\ scan' = [scan EXCEPT ![p].i = @ + 1]
    /\ UNCHANGED <<now, last, enabled, template, runs, event, answers, faults>>

\* start commits the run ...
Start(p) ==
    LET s == Schedule[scan[p].i] IN
    /\ At(p, "next") /\ scan[p].i <= Len(Schedule)
    /\ Due(p, s) /\ template
    /\ runs' = [runs EXCEPT ![s][scan[p].now.month] = @ + 1]
    /\ scan' = [scan EXCEPT ![p].pc = "started"]
    /\ UNCHANGED <<now, last, enabled, template, event, answers, faults>>

\* ... or returns nothing, before its commit or after it: tried again in the next scan.
StartFails(p, committed) ==
    LET s == Schedule[scan[p].i] IN
    /\ At(p, "next") /\ scan[p].i <= Len(Schedule)
    /\ Due(p, s) /\ template /\ Fault
    /\ runs' = [runs EXCEPT ![s][scan[p].now.month] = IF committed THEN @ + 1 ELSE @]
    /\ scan' = [scan EXCEPT ![p].i = @ + 1]
    /\ UNCHANGED <<now, last, enabled, template, event, answers>>

MarkFired(p) ==
    LET s == Schedule[scan[p].i] IN
    /\ At(p, "started")
    /\ last' = [last EXCEPT ![s] = scan[p].now.month]
    /\ scan' = [scan EXCEPT ![p] = [@ EXCEPT !.pc = "next", !.i = @ + 1]]
    /\ UNCHANGED <<now, enabled, template, runs, event, answers, faults>>

End(p) ==
    /\ At(p, "next") /\ scan[p].i > Len(Schedule)
    /\ scan' = [scan EXCEPT ![p] = Idle]
    /\ UNCHANGED <<now, last, enabled, template, runs, event, answers, faults>>

-----------------------------------------------------------------------------
\* Variant of emit_anomaly: a finished event of the window is opened again.
EmitAgain(w) ==
    /\ event' = [event EXCEPT ![w] = IF @.status \in {"absent", "done"}
                                     THEN [NoEvent EXCEPT !.status = "pending"] ELSE @]
    /\ UNCHANGED <<now, last, enabled, template, scan, runs, answers, faults>>

\* An anomaly of a window is enqueued; the event of that window is used again.
emit_anomaly(w) ==
    /\ event' = [event EXCEPT ![w] = IF @.status = "absent"
                                     THEN [NoEvent EXCEPT !.status = "pending"] ELSE @]
    /\ UNCHANGED <<now, last, enabled, template, scan, runs, answers, faults>>

\* A worker is one task: it scans or it handles an event.
Free(p) == At(p, "idle") /\ \A w \in Window : event[w].by # p

Claim(p, w) ==
    /\ Free(p) /\ event[w].status = "pending"
    /\ event' = [event EXCEPT ![w] = [status |-> "taken", by |-> p, attempts |-> @.attempts + 1]]
    /\ UNCHANGED <<now, last, enabled, template, scan, runs, answers, faults>>

Settle(w, status) == event' = [event EXCEPT ![w].status = status, ![w].by = "nobody"]

\* The run of the anomaly is committed by start ...
handle_sentiment_anomaly(p, w) ==
    /\ event[w].status = "taken" /\ event[w].by = p /\ template
    /\ answers' = [answers EXCEPT ![w] = @ + 1]
    /\ event' = [event EXCEPT ![w].status = "answered"]
    /\ UNCHANGED <<now, last, enabled, template, scan, runs, faults>>

\* ... and the event is done in another transaction.
Complete(p, w) ==
    /\ event[w].status = "answered" /\ event[w].by = p
    /\ Settle(w, "done")
    /\ UNCHANGED <<now, last, enabled, template, scan, runs, answers, faults>>

\* Without the template, or when the start returned nothing, the handler raises: the
\* run may have been committed.
Raise(p, w) ==
    /\ event[w].status \in {"taken", "answered"} /\ event[w].by = p
    /\ IF template \/ event[w].status = "answered" THEN Fault ELSE UNCHANGED faults
    /\ Settle(w, IF event[w].attempts < MaxAttempts THEN "pending" ELSE "dead")
    /\ UNCHANGED <<now, last, enabled, template, scan, runs, answers>>

\* A process dies and starts again; the lease of its event runs out.
Die(p) ==
    /\ Fault
    /\ scan' = [scan EXCEPT ![p] = Idle]
    /\ event' = [w \in Window |->
                   IF event[w].by # p THEN event[w]
                   ELSE [event[w] EXCEPT !.by = "nobody",
                           !.status = IF @ \in {"taken", "answered"}
                                         /\ event[w].attempts < MaxAttempts
                                      THEN "pending" ELSE "dead"]]
    /\ UNCHANGED <<now, last, enabled, template, runs, answers>>

ScanStep(p) == Skip(p) \/ Start(p) \/ MarkFired(p) \/ End(p)
EventStep(p) == \E w \in Window : Claim(p, w) \/ handle_sentiment_anomaly(p, w)
                                  \/ Complete(p, w) \/ Raise(p, w)

Next == \/ Tick \/ SwitchTemplate
        \/ \E s \in Schedules : SwitchSchedule(s)
        \/ \E p \in Process : \/ ScanStep(p) \/ EventStep(p) \/ Die(p)
                              \/ Begin(p) /\ Free(p)
                              \/ \E c \in BOOLEAN : StartFails(p, c)
        \/ \E w \in Window : emit_anomaly(w)

Spec == Init /\ [][Next]_vars

\* Workers go on polling: a scan that began ends, and an event is claimed and handled.
FairSpec == /\ Spec
            /\ \A p \in Process : WF_vars(ScanStep(p)) /\ SF_vars(EventStep(p))

-----------------------------------------------------------------------------
TypeOK == /\ now.month \in Month /\ now.day \in 1..MonthLength[now.month]
          /\ \A s \in Schedules : last[s] \in 0..Len(MonthLength)
          /\ \A p \in Process : scan[p].pc \in {"idle", "next", "started"}
          /\ \A w \in Window : event[w].attempts \in 0..MaxAttempts

\* In the last hour of a month every enabled schedule that was not started in it is due,
\* whatever day it names: no month is too short for a report.
NoMonthTooShort ==
    now.day = MonthLength[now.month] /\ now.hour = Hours - 1 =>
        \A s \in Schedules : enabled[s] /\ last[s] # now.month => is_due(s, enabled[s], last[s], now)

\* A month that is marked has its run: a failing start is tried again, never marked.
MarkedWasStarted ==
    \A s \in Schedules : last[s] > 0 => runs[s][last[s]] > 0

\* A second run of the same month, or of the same window, needs a fault.
RepetitionNeedsFault ==
    /\ \A s \in Schedules, m \in Month : runs[s][m] <= 1 + faults
    /\ \A w \in Window : answers[w] <= 1 + faults

\* An anomaly that is done with was answered by a run: it is not passed over silently.
DoneIsAnswered == \A w \in Window : event[w].status = "done" => answers[w] > 0

\* Every anomaly is answered or given up visibly in the end.
AnomaliesEnd == \A w \in Window : event[w].status = "pending" ~> event[w].status \in {"done", "dead"}

-----------------------------------------------------------------------------
(* What the documents promise and the code does not keep (see README). *)

\* mark_fired: the cursor keeps a schedule from being started twice in a month.
OncePerMonth == faults = 0 => \A s \in Schedules, m \in Month : runs[s][m] <= 1

=============================================================================
