----------------------------- MODULE MCBleLink -----------------------------
(***************************************************************************)
(* Two connection objects, as BT_MAX_CONN has it, a DUT and a stranger, and *)
(* studies of up to five steps, most with a Hello behind them.              *)
(***************************************************************************)
EXTENDS BleLink

For(k, t) == [kind |-> k, target |-> t]
Do(k) == For(k, Anyone)

MCStudies ==
    {<<Do("advertise"), For("central", "dut"), Do("reset")>>,
     <<For("central", "dut"), For("central", "stranger"), Do("reset")>>,
     <<For("peripheral", "dut"), Do("secure"), Do("reset"), For("central", "dut")>>,
     <<Do("advertise"), Do("peripheral"), Do("secure"), Do("unbond"), Do("await")>>,
     <<Do("central"), Do("read"), Do("await"), Do("secure"), Do("reset")>>,
     <<Do("central"), Do("capture"), Do("central"), Do("await"), Do("reset")>>}
=============================================================================
