------------------------------ MODULE Ifrs17Close ------------------------------
(***************************************************************************)
(* Ifrs17BatchCloseProcessor: the monthly job and the "run now" endpoint   *)
(* close one group of contracts after the other.  A close reads the        *)
(* group's last measurement, adds up the premiums and claims of the month, *)
(* and saves a new measurement some awaits later; rows are never updated.  *)
(***************************************************************************)
EXTENDS Sequences, FiniteSets, Functions, Ifrs17Calculators

CONSTANTS
    CloseRuns,     \* runs of the job or of the endpoint
    Groups,        \* table ifrs17_groups, with the inputs an actuary gave
    Months,        \* bound: the periods are 1 .. Months
    Premiums,      \* amounts a client may pay
    MaxRows,       \* bound: measurements
    MaxPayments    \* bound: payments

VARIABLES
    measurements,  \* table ifrs17_measurements, in insertion order
    recorded,      \* premiums recorded per group and payment month
    claimed,       \* claims reported per group and month
    close,         \* what each run is doing
    payments,      \* bound: how many payments there were
    inOrder        \* history: one run at a time, periods closed once and ascending

closeVars == <<measurements, recorded, claimed, close, payments, inOrder>>

Ifrs17Group ==
    [measurementModel: {"PAA", "GMM"}, paaCoverageMonths: Nat, rate: Nat, marginPct: Nat,
     gmmCoverageUnitsTotal: Nat, seeded: BOOLEAN, initialFcf: Int, initialRiskAdjustment: Nat]
Ifrs17Measurement ==
    [group: DOMAIN Groups, period: 1 .. Months, premiums: Nat, closingFcf: Int,
     closingRiskAdjustment: Nat, closingCsm: Nat, closingLrc: Int,
     closingLicBestEstimate: Nat, interestAccretionOnCsm: Int, csmRecognisedInPnl: Int,
     insuranceRevenue: Int]

\* What is assumed of the inputs an actuary gave, and of all inputs.
GroupsTyped == Groups \in Seq(Ifrs17Group)
BookTyped == GroupsTyped /\ Months \in Nat /\ Premiums \subseteq Nat /\ IsFiniteSet(CloseRuns)

Off == [step |-> "idle", period |-> 1, todo |-> << >>, group |-> 0, previous |-> << >>,
        row |-> << >>]
CloseAt(r, step) == close[r].step = step
Proceed(r, to) == close' = [close EXCEPT ![r] = to]

CloseInit ==
    /\ measurements = << >>
    /\ recorded = [g \in DOMAIN Groups |-> [m \in 1 .. Months |-> 0]]
    /\ \E claims \in Premiums : claimed = [g \in DOMAIN Groups |-> [m \in 1 .. Months |-> claims]]
    /\ close = [r \in CloseRuns |-> Off]
    /\ payments = 0
    /\ inOrder = TRUE

RowsOf(g) == {i \in DOMAIN measurements : measurements[i].group = g}

\* Fault: ordered the other way, the first measurement is found.
FirstMeasurements(g) ==
    LET rows == {i \in RowsOf(g) :
                    \A n \in RowsOf(g) : measurements[n].period >= measurements[i].period}
    IN  IF rows = {} THEN {<< >>} ELSE {<<measurements[i]>> : i \in rows}

\* findOne with order period DESC; of two rows of one period the database
\* gives either.
LastMeasurements(g) ==
    LET rows == {i \in RowsOf(g) :
                    \A n \in RowsOf(g) : measurements[n].period <= measurements[i].period}
    IN  IF rows = {} THEN {<< >>} ELSE {<<measurements[i]>> : i \in rows}

\* closePaaGroup: the months elapsed are 1 as soon as there is a measurement.
PaaRow(g, period, previous, premiums, claims, settled) ==
    LET group == Groups[g]
        result == computePaaPeriod(
            [openingLrc |-> IF previous = << >> THEN 0 ELSE previous[1].closingLrc,
             openingLicBestEstimate |->
                IF previous = << >> THEN 0 ELSE previous[1].closingLicBestEstimate,
             totalCoverageMonths |-> group.paaCoverageMonths,
             coverageMonthsElapsedAtOpen |-> IF previous = << >> THEN 0 ELSE 1],
            [premiums |-> premiums, newClaims |-> claims, claimsPaid |-> settled,
             monthsElapsed |-> 1, rate |-> group.rate, marginPct |-> group.marginPct])
    IN  [group |-> g, period |-> period, premiums |-> premiums, closingFcf |-> 0,
         closingRiskAdjustment |-> 0, closingCsm |-> 0, closingLrc |-> result.closingLrc,
         closingLicBestEstimate |-> result.closingLicBestEstimate,
         interestAccretionOnCsm |-> 0, csmRecognisedInPnl |-> 0,
         insuranceRevenue |-> result.insuranceRevenue]

\* closeGmmGroup refuses a group that was not seeded.
GmmClosable(g, previous) ==
    /\ Groups[g].gmmCoverageUnitsTotal # 0
    /\ previous = << >> => Groups[g].seeded

\* The margin at initial recognition makes the liability nothing.
CsmAtRecognition(group) == AtLeast(-(group.initialFcf + group.initialRiskAdjustment), 0)

\* Fault: every month starts from the margin of the first one.
RecognisedAgain(group, previous) == CsmAtRecognition(group)

OpeningCsm(group, previous) ==
    IF previous = << >> THEN CsmAtRecognition(group) ELSE previous[1].closingCsm

\* The units left are one fewer than all of them as soon as there is a measurement.
GmmRow(g, period, previous, premiums, claims, settled) ==
    LET group == Groups[g]
        fcf == IF previous = << >> THEN group.initialFcf ELSE previous[1].closingFcf
        ra == IF previous = << >> THEN group.initialRiskAdjustment ELSE previous[1].closingRiskAdjustment
        result == computeGmmPeriod(
            [openingFcf |-> fcf, openingRiskAdjustment |-> ra, openingCsm |-> OpeningCsm(group, previous),
             lockedInRate |-> group.rate,
             coverageUnitsRemainingAtOpen |->
                IF previous = << >> THEN group.gmmCoverageUnitsTotal
                                    ELSE group.gmmCoverageUnitsTotal - 1],
            [currentRate |-> group.rate, premiums |-> premiums, claimsPaid |-> settled,
             expectedClaims |-> claims, futureService |-> 0, pastService |-> 0,
             coverageUnits |-> 1, acquisitionCosts |-> 0])
    IN  [group |-> g, period |-> period, premiums |-> premiums,
         closingFcf |-> result.closingFcf,
         closingRiskAdjustment |-> result.closingRiskAdjustment,
         closingCsm |-> result.closingCsm, closingLrc |-> result.closingLrc,
         closingLicBestEstimate |->
            IF previous = << >> THEN 0 ELSE previous[1].closingLicBestEstimate,
         interestAccretionOnCsm |-> result.interestAccretionOnCsm,
         csmRecognisedInPnl |-> result.csmRecognisedInPnl,
         insuranceRevenue |-> result.insuranceRevenue]
-------------------------------------------------------------------------------
\* A premium is recorded for a month, also one already closed.
RecordPremium(g, m, amount) ==
    /\ payments < MaxPayments
    /\ payments' = payments + 1
    /\ recorded' = [recorded EXCEPT ![g][m] = @ + amount]
    /\ UNCHANGED <<measurements, claimed, close>>

\* runForPeriod, or process once 'previous-month' is resolved.
StartClose(r, period) ==
    /\ CloseAt(r, "idle")
    /\ Proceed(r, [Off EXCEPT !.step = "next", !.period = period, !.todo = [g \in DOMAIN Groups |-> g]])
    /\ UNCHANGED <<measurements, recorded, claimed, payments>>

ReadPrevious(r) ==
    /\ CloseAt(r, "next")
    /\ close[r].todo # << >>
    /\ \E previous \in LastMeasurements(Head(close[r].todo)) :
          Proceed(r, [close[r] EXCEPT !.step = "aggregate", !.group = Head(close[r].todo),
                        !.todo = Tail(@), !.previous = previous])
    /\ UNCHANGED <<measurements, recorded, claimed, payments>>

\* Fault: the error of one group ends the run.
ThrowOut(r) ==
    LET g == close[r].group
    IN  /\ CloseAt(r, "aggregate")
        /\ Groups[g].measurementModel = "GMM"
        /\ ~GmmClosable(g, close[r].previous)
        /\ Proceed(r, Off)
        /\ UNCHANGED <<measurements, recorded, claimed, payments>>

\* A group that cannot be closed is logged and passed over.
SkipGroup(r) ==
    LET g == close[r].group
    IN  /\ CloseAt(r, "aggregate")
        /\ Groups[g].measurementModel = "GMM"
        /\ ~GmmClosable(g, close[r].previous)
        /\ Proceed(r, [close[r] EXCEPT !.step = "next", !.group = 0, !.previous = << >>])
        /\ UNCHANGED <<measurements, recorded, claimed, payments>>

\* aggregatePeriod (of the claims reported, some or none are Paid) and the
\* calculation; the row is saved by the next step.
Aggregate(r) ==
    LET g == close[r].group
        m == close[r].period
        previous == close[r].previous
        Computed(row) == Proceed(r, [close[r] EXCEPT !.step = "save", !.row = row])
    IN  /\ CloseAt(r, "aggregate")
        /\ \E settled \in {0, claimed[g][m]} :
              \/ /\ Groups[g].measurementModel = "PAA"
                 /\ Computed(PaaRow(g, m, previous, recorded[g][m], claimed[g][m], settled))
              \/ /\ Groups[g].measurementModel = "GMM"
                 /\ GmmClosable(g, previous)
                 /\ Computed(GmmRow(g, m, previous, recorded[g][m], claimed[g][m], settled))
        /\ UNCHANGED <<measurements, recorded, claimed, payments>>

SaveMeasurement(r) ==
    /\ CloseAt(r, "save")
    /\ Len(measurements) < MaxRows
    /\ measurements' = Append(measurements, close[r].row)
    /\ Proceed(r, [close[r] EXCEPT !.step = "next", !.group = 0, !.previous = << >>,
                                   !.row = << >>])
    /\ UNCHANGED <<recorded, claimed, payments>>

EndClose(r) ==
    /\ CloseAt(r, "next")
    /\ close[r].todo = << >>
    /\ Proceed(r, Off)
    /\ UNCHANGED <<measurements, recorded, claimed, payments>>

CloseStep(r) == ReadPrevious(r) \/ SkipGroup(r) \/ Aggregate(r) \/ SaveMeasurement(r) \/ EndClose(r)

CloseNext ==
    /\ \/ \E r \in CloseRuns : CloseStep(r) \/ \E m \in 1 .. Months : StartClose(r, m)
       \/ \E g \in DOMAIN Groups, m \in 1 .. Months, amount \in Premiums : RecordPremium(g, m, amount)
    /\ inOrder' = /\ inOrder
                  /\ Cardinality({r \in CloseRuns : close'[r].step # "idle"}) <= 1
                  /\ \A r \in CloseRuns : close'[r].step # "idle" /\ close[r].step = "idle" =>
                        \A i \in DOMAIN measurements : measurements[i].period < close'[r].period
-------------------------------------------------------------------------------
(* Properties.                                                              *)

PremiumsFound(g) == SumFunctionOnSet([i \in RowsOf(g) |-> measurements[i].premiums], RowsOf(g))
RevenueEarned(g) ==
    SumFunctionOnSet([i \in RowsOf(g) |-> measurements[i].insuranceRevenue], RowsOf(g))

\* As long as months are closed one after the other, no premium of a group
\* under the premium allocation approach is lost or earned twice from close to
\* close: what the closes earned and what the last one carries forward is what
\* they found paid, to a cent a close.
PremiumsEarnedOnce ==
    inOrder => \A g \in DOMAIN Groups : \A last \in RowsOf(g) :
        (Groups[g].measurementModel = "PAA" /\ \A i \in RowsOf(g) : i <= last) =>
            Near(PremiumsFound(g), RevenueEarned(g) + measurements[last].closingLrc,
                 Cardinality(RowsOf(g)))

\* The margin of a GMM group, "unearned profit ... released to the income statement
\* gradually": as long as months are closed one after the other, none of it is
\* lost, doubled or recognised twice from close to close.  What the group was
\* recognised with and the interest of every close are what the closes released and
\* what the last one carries forward, to two cents a close.
InterestAccreted(g) ==
    SumFunctionOnSet([i \in RowsOf(g) |-> measurements[i].interestAccretionOnCsm], RowsOf(g))
MarginRecognised(g) ==
    SumFunctionOnSet([i \in RowsOf(g) |-> measurements[i].csmRecognisedInPnl], RowsOf(g))
MarginsEarnedOnce ==
    inOrder => \A g \in DOMAIN Groups : \A last \in RowsOf(g) :
        (Groups[g].measurementModel = "GMM" /\ \A i \in RowsOf(g) : i <= last) =>
            Near(CsmAtRecognition(Groups[g]) + InterestAccreted(g),
                 MarginRecognised(g) + measurements[last].closingCsm,
                 2 * Cardinality(RowsOf(g)))

\* process and runForPeriod, "one group's failure must not block the rest of
\* the book from closing": a run that ends has left a measurement of its month
\* for every group that can be closed.
RunClosesTheRest ==
    [][\A r \in CloseRuns : ~CloseAt(r, "idle") /\ close'[r].step = "idle" =>
         \A g \in DOMAIN Groups :
            Groups[g].measurementModel = "PAA" \/ GmmClosable(g, << >>) =>
               \E i \in DOMAIN measurements :
                  measurements[i].group = g /\ measurements[i].period = close[r].period]_closeVars
===============================================================================
