--------------------------- MODULE CampaignSpend ---------------------------
(***************************************************************************)
(* The derived spend of a campaign (domain/campaigns.ts).  A transaction   *)
(* adds or deletes a spend metric, sums what it sees and writes the sum,   *)
(* an absolute value; transactions that overlap do not see each other's    *)
(* metric.  The backfill turns a figure of before the derived model into a *)
(* metric; it decides on what it has read before its transaction.          *)
(*                                                                         *)
(* One campaign; metrics that are no spend, or targets, are left out: they *)
(* touch nothing here.  The row lock of the campaign makes the writes of   *)
(* two transactions follow each other, as commits do here.                 *)
(***************************************************************************)
EXTENDS Naturals, Sequences, FiniteSetsExt

CONSTANTS
    Users,   \* calls under way: of users, and of the job
    Metrics, \* identities of metrics
    Amounts, \* what a metric may be entered with
    Figures, \* what a campaign may carry from before the derived model
    MaxMigrations, \* bound on the figures turned into metrics
    NoMetric \* no row

VARIABLES
    metric,      \* CampaignMetric
    actualSpend, \* of the campaign
    spending,    \* the call of each user
    figure,      \* history: the figure from before
    outsummed,   \* history: something committed between the sum that was
                 \* written last and its commit
    migrations,  \* history: what the backfill turned into metrics, in order
    disturbed    \* history: a backfill migrated a figure although something
                 \* had committed since it read, or the figure was outsummed

spendvars ==
    <<metric, actualSpend, spending, figure, outsummed, migrations, disturbed>>

NoCall == [call |-> "none"]

SumOf(rows) ==
    MapThenSumSet(LAMBDA m : IF rows[m] = NoMetric THEN 0 ELSE rows[m], Metrics)

Entered == {m \in Metrics : metric[m] # NoMetric}

(* The metrics as a transaction sees them that has changed one, or none.   *)
With(m, amount) == IF m = NoMetric THEN metric ELSE [metric EXCEPT ![m] = amount]

(* Identities are fresh, and the row of a metric is locked by its delete.  *)
Untouched(m) == \A u \in Users : spending[u].call = "write" => spending[u].at # m

Take(u, call) ==
    /\ spending' = [spending EXCEPT ![u] = call]
    /\ UNCHANGED <<metric, actualSpend, figure, outsummed, migrations, disturbed>>

-----------------------------------------------------------------------------

(* Variant: the sum is taken before the change. *)
SumThenChange(u, m, amount, alone) ==
    Take(u, [call |-> "write", at |-> m, amount |-> amount, sum |-> SumOf(metric),
             fresh |-> TRUE, migrates |-> spending[u].call = "counted", alone |-> alone])

(* A transaction up to its commit: its change, and recomputeCampaignSpend. *)
ChangeAndSum(u, m, amount, alone) ==
    Take(u, [call |-> "write", at |-> m, amount |-> amount, sum |-> SumOf(With(m, amount)),
             fresh |-> TRUE, migrates |-> spending[u].call = "counted", alone |-> alone])

AddCampaignMetric(u, m, amount) ==
    /\ spending[u] = NoCall /\ metric[m] = NoMetric /\ Untouched(m)
    /\ ChangeAndSum(u, m, amount, TRUE)

DeleteCampaignMetric(u, m) ==
    /\ spending[u] = NoCall /\ metric[m] # NoMetric /\ Untouched(m)
    /\ ChangeAndSum(u, m, NoMetric, TRUE)

(* backfillCampaignSpend reads the figure, then counts the metrics.        *)
ReadFigure(u) ==
    /\ spending[u] = NoCall
    /\ Take(u, [call |-> "read", legacy |-> actualSpend, alone |-> ~outsummed])

(* Metrics there are: the spend is computed anew. *)
Resum(u) ==
    /\ spending[u].call = "read" /\ Entered # {}
    /\ ChangeAndSum(u, NoMetric, NoMetric, TRUE)

(* There are none, so the figure it has read is to be kept. *)
FindNone(u) ==
    /\ spending[u].call = "read" /\ Entered = {}
    /\ Take(u, IF spending[u].legacy = 0 THEN NoCall
               ELSE [spending[u] EXCEPT !.call = "counted"])

Migrate(u, m) ==
    /\ spending[u].call = "counted" /\ metric[m] = NoMetric /\ Untouched(m)
    /\ Len(migrations) < MaxMigrations
    /\ ChangeAndSum(u, m, spending[u].legacy, spending[u].alone)

(* Everybody else's sum, and what backfills have read, is behind now. *)
Commit(u) ==
    LET tx == spending[u] IN
    /\ tx.call = "write"
    /\ metric' = With(tx.at, tx.amount)
    /\ actualSpend' = tx.sum
    /\ outsummed' = ~tx.fresh
    /\ migrations' = IF tx.migrates THEN Append(migrations, tx.amount) ELSE migrations
    /\ disturbed' = (disturbed \/ (tx.migrates /\ ~tx.alone))
    /\ spending' = [v \in Users |->
          CASE v = u \/ spending[v] = NoCall -> NoCall
            [] v # u /\ spending[v].call = "write" ->
                  [spending[v] EXCEPT !.fresh = FALSE, !.alone = ~spending[v].migrates]
            [] v # u /\ spending[v].call \in {"read", "counted"} ->
                  [spending[v] EXCEPT !.alone = FALSE]]
    /\ UNCHANGED figure

Rollback(u) == spending[u] # NoCall /\ Take(u, NoCall)

-----------------------------------------------------------------------------

Init ==
    /\ figure \in Figures
    /\ metric = [m \in Metrics |-> NoMetric]
    /\ actualSpend = figure
    /\ spending = [u \in Users |-> NoCall]
    /\ outsummed = FALSE
    /\ migrations = <<>>
    /\ disturbed = FALSE

Next ==
    \E u \in Users :
       \/ ReadFigure(u) \/ Resum(u) \/ FindNone(u) \/ Commit(u) \/ Rollback(u)
       \/ \E m \in Metrics :
             \/ DeleteCampaignMetric(u, m) \/ Migrate(u, m)
             \/ \E amount \in Amounts : AddCampaignMetric(u, m, amount)

Spec == Init /\ [][Next]_spendvars

-----------------------------------------------------------------------------

(* The spend shown is the sum of the metrics, or the figure from before    *)
(* while there was none, unless what was summed is behind, which the next  *)
(* transaction on its own makes good; and the figure is kept as a metric   *)
(* at most once, and is the one from before, if nothing committed between  *)
(* what a backfill read and its own commit (domain/campaigns.ts:188-272).  *)
SpendIsDerived ==
    /\ ~outsummed => actualSpend \in {SumOf(metric), figure}
    /\ ~outsummed /\ Entered # {} => actualSpend = SumOf(metric)
    /\ ~disturbed => migrations \in {<<>>, <<figure>>}

=============================================================================
