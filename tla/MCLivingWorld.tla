--------------------------- MODULE MCLivingWorld ---------------------------
(* Two firms of one industry and two of each other actor.  Firm and first    *)
(* investor share the last segment of their ids.                           *)
EXTENDS LivingWorld

FirmA == <<"firm", "a">>
FirmB == <<"firm", "b">>
InvestorA == <<"investor", "a">>
InvestorB == <<"investor", "b">>
BankA == <<"bank", "a">>
BankB == <<"bank", "b">>
Credit == <<"market", "credit">>
Equity == <<"market", "equity">>
SomeFirms == {FirmA, FirmB}
SomeInvestors == {InvestorA, InvestorB}
SomeBanks == {BankA, BankB}
SomeMarkets == {Credit, Equity}
Industry == [f \in SomeFirms |-> <<"industry", "generic">>]

Arguments(firms, investors, banks, dates, markets, profile, refused) ==
  [firms |-> firms, investors |-> investors, banks |-> banks, dates |-> dates,
   markets |-> markets, profile |-> profile, refused |-> refused]

(* One actor of each kind. *)
Small(dates, markets, profile, refused) ==
  Arguments(<<FirmA>>, <<InvestorA>>, <<BankA>>, dates, markets, profile, refused)

Monthly == "monthly_reference"
Quarterly == "quarterly_default"
WithScenario == "scenario_monthly_reference_universe"

SomeCalls ==
  {Arguments(<<FirmA, FirmB>>, <<InvestorA, InvestorB>>, <<BankA, BankB>>, <<1, 2, 3>>, <<Credit>>,
             Quarterly, "nothing"),
   Small(<<2>>, <<Credit, Equity>>, Monthly, "nothing"),
   Small(<<3, 1>>, <<Credit>>, Quarterly, "nothing"),
   Small(<<1, 1>>, <<>>, Quarterly, "nothing"),
   Small(<<3, 4>>, <<Credit>>, WithScenario, "nothing"),
   Small(<<1>>, <<Credit>>, Quarterly, "industry_condition"),
   Small(<<1>>, <<Credit>>, Quarterly, "market_condition"),
   Small(<<1>>, <<Credit>>, Quarterly, "valuation"),
   Arguments(<<FirmB>>, <<InvestorB>>, <<BankB>>, <<2, 1>>, <<Equity, Credit>>, Monthly, "nothing"),
   Arguments(<<FirmB>>, <<InvestorB>>, <<BankB>>, <<2, 4>>, <<Credit>>, WithScenario, "nothing"),
   Arguments(<<FirmB>>, <<InvestorA>>, <<BankB>>, <<2>>, <<Credit>>, Quarterly, "nothing"),
   Arguments(<<FirmB>>, <<InvestorB>>, <<BankA>>, <<3>>, <<Credit>>, Quarterly, "nothing"),
   Arguments(<<FirmB, FirmB>>, <<InvestorB>>, <<BankB>>, <<4>>, <<Credit>>, Quarterly, "nothing")}

SomeFocus == {{"firm_state", "environment", "valuation", "dialogue", "escalation"}, {"dialogue"}}
=============================================================================
