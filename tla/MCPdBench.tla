----------------------------- MODULE MCPdBench -----------------------------
(***************************************************************************)
(* A PD bench against a partner that offers 5 V and a PPS range, then 5 V   *)
(* and 9 V in its place, and asks a bench that sources for too much or for  *)
(* a PDO it has not got, in mV and mA.  What the host asks of the PPS range  *)
(* lies between two steps.                                                 *)
(***************************************************************************)
EXTENDS PdBench

Fixed(v, a) == [kind |-> "fixed", min |-> v, max |-> v, ma |-> a]
Pps(lo, hi, a) == [kind |-> "pps", min |-> lo, max |-> hi, ma |-> a]
Ask(p, a) == [pos |-> p, mv |-> 0, ma |-> a]

MCCapabilities == {<<Fixed(5000, 3000), Pps(3300, 5900, 2000)>>, <<Fixed(5000, 3000), Fixed(9000, 1000)>>}
MCSourcePdos == <<Fixed(5000, 3000)>>
MCOffers == {MCSourcePdos, <<Fixed(5000, 1000)>>}
MCRequests == {Ask(1, 3000), Ask(2, 1000)}

Choose(k, p, v, a) == [name |-> "want", want |-> [kind |-> k, pos |-> p, mv |-> v, ma |-> a]]
Cmd(n) == [name |-> n]
Answer(n, a) == [name |-> n, answer |-> a]
Keepalive(off) == [name |-> "keepalive", off |-> off]
Offer(o) == [name |-> "srccaps", offer |-> o]
AskFor(k) == [name |-> "ask", kind |-> k]

MCScripts ==
    {<<Choose("pps", 2, 3310, 1990), Keepalive(TRUE), Keepalive(FALSE)>>,
     <<Choose("fixed", 2, 0, 0)>>,
     <<Cmd("prswap"), Cmd("prswap")>>,
     <<Offer(<<Fixed(5000, 1000)>>), Offer(MCSourcePdos), Answer("answer", "wait")>>,
     <<Answer("pr", "reject"), Cmd("getcaps"), Cmd("hardreset")>>,
     <<Answer("dr", "nosupport"), Cmd("drswap")>>,
     <<AskFor("snkcaps"), AskFor("status")>>}
=============================================================================
