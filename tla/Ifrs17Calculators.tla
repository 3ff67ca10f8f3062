--------------------------- MODULE Ifrs17Calculators ---------------------------
(***************************************************************************)
(* The two measurement models of IFRS 17, computeGmmPeriod and             *)
(* computePaaPeriod, with the toFixed(2) the close applies to each result. *)
(* Amounts are cents, a monthly rate and a margin are parts of Unit, and a *)
(* result is computed exactly and then rounded, so that only the rounding  *)
(* of the stored columns remains.                                          *)
(***************************************************************************)
EXTENDS Integers

Unit == 1000   \* rates and margins are thousandths
AtLeast(x, least) == IF x > least THEN x ELSE least
\* The nearest cent of num / den.
ToCents(num, den) == (2 * num + den) \div (2 * den)

GmmGroupState ==
    [openingFcf: Int, openingRiskAdjustment: Nat, openingCsm: Nat, lockedInRate: Nat,
     coverageUnitsRemainingAtOpen: Nat]
GmmPeriodInputs ==
    [currentRate: Nat, premiums: Nat, claimsPaid: Nat, expectedClaims: Nat,
     futureService: Int, pastService: Int, coverageUnits: Nat, acquisitionCosts: Nat]

\* Fault: the margin is not floored at zero.
CsmUnfloored(state, futureService) ==
    state.openingCsm * (Unit + state.lockedInRate) - Unit * futureService

\* The margin before its release, in Units: an adverse change of what is still
\* to be served is taken from it first, never below zero.
CsmAfterUnlock(state, futureService) ==
    AtLeast(state.openingCsm * (Unit + state.lockedInRate) - Unit * futureService, 0)
\* What the margin could not take is a loss of this period.
LossOfPeriod(state, futureService) ==
    AtLeast(Unit * futureService - state.openingCsm * (Unit + state.lockedInRate), 0)

computeGmmPeriod(state, inputs) ==
    LET units == AtLeast(state.coverageUnitsRemainingAtOpen, 1)
        left == units - inputs.coverageUnits
        den == Unit * units
        fcf == units * (state.openingFcf * (Unit + inputs.currentRate)
                 + Unit * (inputs.claimsPaid + inputs.pastService + inputs.futureService
                           - inputs.premiums))
        ra == state.openingRiskAdjustment * left * (Unit + inputs.currentRate)
        csm == CsmAfterUnlock(state, inputs.futureService)
        loss == LossOfPeriod(state, inputs.futureService)
        release == state.openingRiskAdjustment * inputs.coverageUnits * Unit
        margin == csm * inputs.coverageUnits
    IN  [closingFcf |-> ToCents(fcf, den),
         closingRiskAdjustment |-> ToCents(ra, den),
         closingCsm |-> ToCents(csm * left, den),
         closingLrc |-> ToCents(fcf + ra + csm * left, den),
         interestAccretionOnCsm |-> ToCents(state.openingCsm * state.lockedInRate, Unit),
         riskAdjustmentRelease |-> ToCents(release, den),
         csmRecognisedInPnl |-> ToCents(margin, den),
         insuranceRevenue |-> ToCents(release + margin
              + den * (inputs.expectedClaims + inputs.acquisitionCosts), den),
         insuranceServiceExpense |-> ToCents(loss
              + Unit * (inputs.expectedClaims + inputs.pastService), Unit),
         insuranceFinanceExpense |-> ToCents(state.openingFcf * inputs.currentRate
              + state.openingCsm * state.lockedInRate, Unit),
         isOnerous |-> loss > 0,
         lossRecognisedInPeriod |-> ToCents(loss, Unit)]

PaaGroupState ==
    [openingLrc: Nat, openingLicBestEstimate: Nat, totalCoverageMonths: Nat,
     coverageMonthsElapsedAtOpen: Nat]
PaaPeriodInputs ==
    [premiums: Nat, newClaims: Nat, claimsPaid: Nat, monthsElapsed: Nat, rate: Nat, marginPct: Nat]

RemainingMonthsAtOpen(state, inputs) ==
    AtLeast(state.totalCoverageMonths - state.coverageMonthsElapsedAtOpen, inputs.monthsElapsed)

computePaaPeriod(state, inputs) ==
    LET remaining == RemainingMonthsAtOpen(state, inputs)
        available == state.openingLrc + inputs.premiums
        lic == AtLeast(state.openingLicBestEstimate + inputs.newClaims - inputs.claimsPaid, 0)
    IN  [closingLrc |-> ToCents(AtLeast(available * (remaining - inputs.monthsElapsed), 0), remaining),
         closingLicBestEstimate |-> ToCents(lic * (Unit + inputs.rate), Unit),
         closingLicRiskAdjustment |->
            ToCents(lic * (Unit + inputs.rate) * inputs.marginPct, Unit * Unit),
         closingLic |->
            ToCents(lic * (Unit + inputs.rate) * (Unit + inputs.marginPct), Unit * Unit),
         insuranceRevenue |-> ToCents(available * inputs.monthsElapsed, remaining),
         insuranceServiceExpense |-> inputs.newClaims,
         insuranceFinanceExpense |-> ToCents(lic * inputs.rate, Unit)]

Near(x, y, cents) == x - y <= cents /\ y - x <= cents
===============================================================================
