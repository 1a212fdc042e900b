------------------------------ MODULE MCDunning ------------------------------
(* Small instances of Dunning. *)
EXTENDS Dunning

MCProcs == {"api", "worker"}
OnlyApi == {"api"}
None == {}
NoFunction == [x \in {} |-> x]

Row(default, steps) == [exists |-> TRUE, isDefault |-> default, steps |-> steps]
NoRow == [exists |-> FALSE, isDefault |-> FALSE, steps |-> <<>>]

Email(delay, custom) == [delay |-> delay, channel |-> "email", custom |-> custom]
Sms(delay) == [delay |-> delay, channel |-> "sms", custom |-> FALSE]

\* One invoice of one tenant with one default sequence.
OneInvoice == {"in1"}
OneSequence == {"seq1"}
OneTenant == [x \in OneInvoice \cup OneSequence |-> "acme"]
TwoFailures == {"f1", "f2"}
OneFailure == {"f1"}
FailedOne == [f \in OneFailure |-> "in1"]
FailedTwice == [f \in TwoFailures |-> "in1"]
OneSuccess == {"p1"}
PaidOne == [s \in OneSuccess |-> "in1"]
LaterEmail == <<Email(1, TRUE)>>
OneStep == {LaterEmail, <<>>}
OneStepDefault == [s \in OneSequence |-> Row(TRUE, LaterEmail)]

OneTick == {"t1"}
TwoTicks == {"t1", "t2"}
TwoTickProcs == [r \in TwoTicks |-> IF r = "t1" THEN "api" ELSE "worker"]
OneTickProc == [r \in OneTick |-> "worker"]

\* Two failures of the invoice, the defaults of two tenants, and edits of both.
ThreeSequences == {"seq1", "seq2", "seq3"}
OneOfTwoTenants ==
  [x \in OneInvoice \cup ThreeSequences |-> IF x = "seq2" THEN "globex" ELSE "acme"]
EmailThenSms == <<Email(0, FALSE), Sms(1)>>
Lists == {LaterEmail, EmailThenSms, <<>>}
TwoDefaults == [s \in ThreeSequences |-> IF s = "seq3" THEN NoRow ELSE Row(TRUE, LaterEmail)]
TwoEdits == {"e1", "e2"}
EditDtos ==
  [e \in TwoEdits |->
     IF e = "e1"
     THEN [op |-> "create", id |-> "seq3", isDefault |-> "yes", keepSteps |-> FALSE,
           steps |-> EmailThenSms]
     ELSE [op |-> "update", id |-> "seq2", isDefault |-> "keep", keepSteps |-> FALSE,
           steps |-> <<>>]]
=============================================================================
