---------------------------- MODULE MCStreamTaps ----------------------------
(* Small instances of StreamTaps for TLC.                                     *)
EXTENDS StreamTaps

CONSTANTS c1, c2

Tap(src, c, w, f, t) == [source |-> src, char |-> c, whole |-> w, from |-> f, to |-> t]

Gatt        == Tap("gatt_transcript", NoChar, TRUE, 0, 0)
GattSecond  == Tap("gatt_transcript", NoChar, FALSE, 1, 1)
Notify(c)   == Tap("gatt_notify", c, TRUE, 0, 0)
Window(c, f, t) == Tap("gatt_notify", c, FALSE, f, t)
Signal      == Tap("signal", NoChar, TRUE, 0, 0)

(* A whole transcript beside a characteristic's window over the second step
   and a tap of Core's own; two whole notify taps without a transcript.       *)
MCStudies ==
  { [taps |-> <<Gatt, Signal, Window(c1, 1, 1)>>, steps |-> 2],
    [taps |-> <<Notify(c1), Window(c2, 0, 0)>>, steps |-> 2] }

(* A connection event, a small notification and one of a full ATT MTU.        *)
MCEntries ==
  { [char |-> NoChar, value |-> FALSE, len |-> 0],
    [char |-> c1, value |-> TRUE, len |-> 20],
    [char |-> c2, value |-> TRUE, len |-> 244] }
=============================================================================
