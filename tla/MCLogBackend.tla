----------------------------- MODULE MCLogBackend -----------------------------
(* Records of four kinds for TLC: a warning and a trace of the kernel's, an    *)
(* information of this firmware's, a printk.                                  *)
EXTENDS LogBackend

MCRecords == { [source |-> Kernel, level |-> WRN], [source |-> Kernel, level |-> DBG],
               [source |-> App, level |-> INF], [source |-> Printk, level |-> INF] }

MCStudyLevels == {OFF, DBG}
=============================================================================
