--------------------------- MODULE OperatingFigures ---------------------------
(***************************************************************************)
(* The daily figures of the operation: uploads, synchronisations and the   *)
(* check for anomalies.                                                    *)
(*                                                                         *)
(* A workbook is parsed row by row and stored in one transaction; the      *)
(* synchronisation stores what ThinkingData gives for a day in another.    *)
(* Each row is looked up by date and product and inserted or updated       *)
(* (upsert); the table has one row of a date and product.  An update       *)
(* writes the columns whose value differs from the one that was loaded.    *)
(* Transactions see what is committed, an insert or update of a key that   *)
(* another transaction wrote waits for its end, and of two that wait for   *)
(* each other the database aborts one.  The check reads the day and the    *)
(* day before in two transactions of its own.                              *)
(*                                                                         *)
(* Figures are small numbers.                                              *)
(***************************************************************************)
EXTENDS Integers, FiniteSets, Sequences, SequencesExt, TLC

CONSTANTS Writer,    \* uploads and synchronisations
          Source,    \* writer |-> "excel" or "thinkingdata"
          Book,      \* writer |-> its raw rows
          Day,       \* the days, numbers
          Product,
          DauDrop, NewDrop, Floor   \* the thresholds of an alert, in percent

None == -1   \* NULL
Key == Day \X Product

OperatingFiguresAssumption ==
    /\ Day \subseteq Nat /\ \A w \in Writer : Source[w] \in {"excel", "thinkingdata"}
    /\ \A w \in Writer : \A i \in DOMAIN Book[w] :
          Book[w][i].cells \in {"good", "blank", "bad", "raises"}

VARIABLES table,    \* the committed rows: key |-> [dau, fresh, kept, source], or None
          dirty,    \* writer |-> the rows its transaction wrote
          rows,     \* writer |-> what it has still to store
          loaded,   \* writer |-> <<the row it looked up>>, and <<>> before it did
          outcome,  \* writer |-> "new", "open", "done" or "failed"
          past,     \* the tables there were
          check,    \* the anomaly check: [stage, day, today, alerts, prior]
          drafts    \* what was pushed to the group
figureVars == <<table, dirty, rows, loaded, outcome, past, check, drafts>>

NoRow == [dau |-> None, fresh |-> None, kept |-> None, source |-> "none"]
NoCheck == [stage |-> "idle", day |-> 0, today |-> {}, prior |-> {}, alerts |-> {}]

TypeOK ==
    /\ DOMAIN table \subseteq Key
    /\ \A w \in Writer : /\ DOMAIN dirty[w] \subseteq Key
                         /\ outcome[w] \in {"new", "open", "done", "failed"}
    /\ check.stage \in {"idle", "today", "done"}

Init ==
    /\ table = [k \in {} |-> NoRow] /\ dirty = [w \in Writer |-> [k \in {} |-> NoRow]]
    /\ rows = [w \in Writer |-> <<>>] /\ loaded = [w \in Writer |-> <<>>]
    /\ outcome = [w \in Writer |-> "new"] /\ past = {} /\ check = NoCheck /\ drafts = {}

\* What parse_workbook makes of the rows of a sheet: blank ones are passed over, a cell
\* that is no value of its column is an error of its row, the first row of a key is kept.
Parsed(raw) ==
    FoldLeft(LAMBDA kept, r : IF r.cells = "good" /\ \A i \in DOMAIN kept : kept[i].key # r.key
                              THEN Append(kept, r) ELSE kept, <<>>, raw)

\* An upload is parsed, or the source is asked; a number too large raises.
Begin(w) ==
    /\ outcome[w] = "new"
    /\ IF \E i \in DOMAIN Book[w] : Book[w][i].cells = "raises"
       THEN outcome' = [outcome EXCEPT ![w] = "failed"] /\ UNCHANGED rows
       ELSE /\ outcome' = [outcome EXCEPT ![w] = "open"]
            /\ rows' = [rows EXCEPT ![w] = IF Source[w] = "excel" THEN Parsed(Book[w])
                                           ELSE SelectSeq(Book[w], LAMBDA r : r.cells # "blank")]
    /\ UNCHANGED <<table, dirty, loaded, past, check, drafts>>

row(w) == Head(rows[w])
Busy(w) == outcome[w] = "open" /\ rows[w] # <<>>

\* The row of a writer's key, as its transaction sees it; NoRow when there is none.
Seen(w) == IF row(w).key \in DOMAIN dirty[w] THEN dirty[w][row(w).key]
           ELSE IF row(w).key \in DOMAIN table THEN table[row(w).key] ELSE NoRow

\* The row of the key is looked up: what is committed, or what this transaction wrote.
Look(w) ==
    /\ Busy(w) /\ loaded[w] = <<>>
    /\ loaded' = [loaded EXCEPT ![w] = <<Seen(w)>>]
    /\ UNCHANGED <<table, dirty, rows, outcome, past, check, drafts>>

\* Whether the key of a writer is held by another transaction.
Held(w) == \E v \in Writer \ {w} : outcome[v] = "open" /\ row(w).key \in DOMAIN dirty[v]

\* The columns that a writer sets: a workbook those of its template, a synchronisation two.
Set(w, r) == [dau |-> r.dau, fresh |-> r.fresh, source |-> Source[w]]
             @@ IF Source[w] = "excel" THEN [kept |-> r.kept] ELSE <<>>

\* What an update makes of the row there is now: a column is written when its value is
\* not the one that was loaded.
Updated(w, current) ==
    [c \in DOMAIN current |->
        IF c \in DOMAIN Set(w, row(w)) /\ Set(w, row(w))[c] # loaded[w][1][c]
        THEN Set(w, row(w))[c] ELSE current[c]]

Rollback(w) ==
    /\ outcome' = [outcome EXCEPT ![w] = "failed"]
    /\ dirty' = [dirty EXCEPT ![w] = [k \in {} |-> NoRow]]
    /\ rows' = [rows EXCEPT ![w] = <<>>]

\* The row is inserted or updated.  A key that was committed meanwhile and a missing dau
\* are refused by the table, and the whole transaction is rolled back.
Put(w) ==
    /\ Busy(w) /\ loaded[w] # <<>> /\ ~Held(w)
    /\ LET k == row(w).key
           current == Seen(w)
       IN  IF row(w).dau = None \/ (loaded[w] = <<NoRow>> /\ current # NoRow)
           THEN Rollback(w)
           ELSE /\ dirty' = [dirty EXCEPT ![w] =
                               (k :> IF loaded[w] = <<NoRow>> THEN Set(w, row(w)) @@ NoRow
                                     ELSE Updated(w, current)) @@ @]
                /\ rows' = [rows EXCEPT ![w] = Tail(@)] /\ UNCHANGED outcome
    /\ loaded' = [loaded EXCEPT ![w] = <<>>]
    /\ UNCHANGED <<table, past, check, drafts>>

\* Two transactions wait for each other: one is aborted.
Deadlocked(w) ==
    /\ Busy(w) /\ loaded[w] # <<>> /\ Held(w)
    /\ \E v \in Writer \ {w} : /\ Busy(v) /\ loaded[v] # <<>>
                               /\ row(w).key \in DOMAIN dirty[v] /\ row(v).key \in DOMAIN dirty[w]
    /\ Rollback(w) /\ loaded' = [loaded EXCEPT ![w] = <<>>]
    /\ UNCHANGED <<table, past, check, drafts>>

\* Variant of Commit: every row is committed as it is stored.
CommitEarly(w) ==
    /\ outcome[w] = "open" /\ dirty[w] # [k \in {} |-> NoRow]
    /\ table' = dirty[w] @@ table /\ past' = past \cup {table}
    /\ dirty' = [dirty EXCEPT ![w] = [k \in {} |-> NoRow]]
    /\ outcome' = [outcome EXCEPT ![w] = IF rows[w] = <<>> THEN "done" ELSE "open"]
    /\ UNCHANGED <<rows, loaded, check, drafts>>

\* All rows are stored, and committed together.
Commit(w) ==
    /\ outcome[w] = "open" /\ rows[w] = <<>>
    /\ table' = dirty[w] @@ table /\ past' = past \cup {table}
    /\ dirty' = [dirty EXCEPT ![w] = [k \in {} |-> NoRow]]
    /\ outcome' = [outcome EXCEPT ![w] = "done"]
    /\ UNCHANGED <<rows, loaded, check, drafts>>

\* The figures of a day.
OfDay(d) == {[product |-> k[2], dau |-> table[k].dau, fresh |-> table[k].fresh,
              kept |-> table[k].kept] : k \in {j \in DOMAIN table : j[1] = d}}

\* Whether a figure fell by a share of its former value, in percent.
Fell(before, now, pct) ==
    before # None /\ now # None /\ before # 0 /\ (before - now) * 100 >= pct * before

\* The rules of detect_metric_anomalies.
Alerts(today, prior) ==
    LET falls(f, pct) == {r \in today : \E p \in prior : p.product = r.product /\ Fell(p[f], r[f], pct)}
    IN  {<<r.product, "dau", "critical">> : r \in falls("dau", 2 * DauDrop)}
        \cup {<<r.product, "dau", "warning">> : r \in falls("dau", DauDrop) \ falls("dau", 2 * DauDrop)}
        \cup {<<r.product, "fresh", "warning">> : r \in falls("fresh", NewDrop)}
        \cup {<<r.product, "kept", "warning">> : r \in {t \in today : t.kept # None /\ t.kept < Floor}}

\* The check reads the day; without figures it is refused.
CheckToday ==
    /\ check.stage = "idle"
    /\ \E d \in Day : /\ OfDay(d) # {}
                      /\ check' = [NoCheck EXCEPT !.stage = "today", !.day = d, !.today = OfDay(d)]
    /\ UNCHANGED <<table, dirty, rows, loaded, outcome, past, drafts>>

\* It reads the day before and compares; the expert's text about alerts goes to the group.
CheckBefore ==
    /\ check.stage = "today"
    /\ LET prior == OfDay(check.day - 1)
           alerts == Alerts(check.today, prior)
       IN  /\ check' = [check EXCEPT !.stage = "done", !.prior = prior, !.alerts = alerts]
           /\ drafts' = IF alerts = {} THEN drafts ELSE drafts \cup {<<check.day, alerts>>}
    /\ UNCHANGED <<table, dirty, rows, loaded, outcome, past>>

Next ==
    \/ \E w \in Writer : Begin(w) \/ Look(w) \/ Put(w) \/ Deadlocked(w) \/ Commit(w)
    \/ CheckToday \/ CheckBefore

-----------------------------------------------------------------------------
\* An upload or a synchronisation is stored whole or not at all: a key in the table came
\* with one that was committed, and one that was has all its keys there.
StoredWhole ==
    /\ \A k \in DOMAIN table :
          \E w \in Writer : outcome[w] = "done" /\ \E i \in DOMAIN Book[w] : Book[w][i].key = k
    /\ \A w \in Writer : outcome[w] = "done" =>
          \A i \in DOMAIN Book[w] : Book[w][i].cells = "good" => Book[w][i].key \in DOMAIN table

\* What is stored of a key is what a row of somebody's gives it, and the first row of a
\* workbook when it repeats a key.
StoredIsGiven ==
    \A k \in DOMAIN table :
       \E w \in Writer : \E i \in DOMAIN Book[w] :
          /\ Book[w][i].key = k /\ Book[w][i].cells = "good" /\ Book[w][i].dau = table[k].dau
          /\ Source[w] = "excel" => \A j \in 1..(i - 1) : Book[w][j].key = k => Book[w][j].cells # "good"

\* An alert of the group is of figures the check read: a fall from a value of the day
\* before, or a rate below the floor; one product and figure has one alert.
AlertsAreFounded ==
    \A a \in check.alerts :
       /\ \E t \in check.today : t.product = a[1] /\ t[a[2]] # None
       /\ a[2] # "kept" => \E p \in check.prior, t \in check.today :
                              /\ p.product = a[1] /\ t.product = a[1]
                              /\ p[a[2]] # None /\ t[a[2]] # None /\ t[a[2]] < p[a[2]]
       /\ \A b \in check.alerts : a[1] = b[1] /\ a[2] = b[2] => a = b

(* What the documents promise and the code does not keep (see README). *)

\* The figures of a day and product come from one row: an upload that repeats a value it
\* loaded leaves the column another transaction wrote meanwhile.
NoMixedRow ==
    \A k \in DOMAIN table :
       \E w \in Writer : \E i \in DOMAIN Book[w] :
          /\ Book[w][i].key = k /\ Source[w] = table[k].source
          /\ Book[w][i].dau = table[k].dau /\ Book[w][i].fresh = table[k].fresh

\* The two days an alert compares were in the table at one time.
AlertComparesOneState ==
    check.alerts # {} =>
       \E t \in past \cup {table} :
          check.prior = {[product |-> k[2], dau |-> t[k].dau, fresh |-> t[k].fresh,
                          kept |-> t[k].kept] : k \in {j \in DOMAIN t : j[1] = check.day - 1}}
          /\ check.today = {[product |-> k[2], dau |-> t[k].dau, fresh |-> t[k].fresh,
                             kept |-> t[k].kept] : k \in {j \in DOMAIN t : j[1] = check.day}}
=============================================================================
