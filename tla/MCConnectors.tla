----------------------------- MODULE MCConnectors -----------------------------
EXTENDS Connectors, TLC

It(ref, verdict, time) == [ref |-> ref, verdict |-> verdict, time |-> time]
MCRefs == Calls \cup {"r1"}
MCModels == {<<"opus", "4-1", "v2", "DATE">>, <<"other">>}
MCPrice ==
  <<"opus", "4-1">> :> [input |-> 15, output |-> 75]
  @@ <<"opus", "latest">> :> [input |-> 5, output |-> 25]
\* A good record after one that cannot be mapped and after one with a time that
\* is refused, a good batch, one report.
MCBatches ==
  {<<It(NoRef, TRUE, TRUE), It("r1", TRUE, TRUE)>>,
   <<It("c1", TRUE, FALSE), It("r1", FALSE, TRUE)>>,
   <<It("c1", TRUE, TRUE), It("r1", TRUE, TRUE)>>,
   <<It(NoRef, FALSE, TRUE)>>}
=============================================================================
