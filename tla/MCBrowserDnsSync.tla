-------------------------- MODULE MCBrowserDnsSync --------------------------
(* Small instances of BrowserDnsSync: two windows, two record tables.      *)
EXTENDS BrowserDnsSync, TLC

CONSTANTS w1, w2, tableA

MCWindows == {w1, w2}
MCRecords == {DefaultTable, tableA}
MCRevs == 0..MaxSaves
MCIncs == 1..(MaxFaults + 1)

Start(open, documents, past) == [open |-> open, docs |-> documents, faults |-> past]

\* Two windows that save twice, one window with two faults, and two windows of
\* a saved document with one fault.
MCStarts ==
  {Start(MCWindows, <<>>, MaxFaults), Start({w1}, <<>>, MaxFaults - 2),
   Start(MCWindows, <<tableA, DefaultTable>>, MaxFaults - 1)}
=============================================================================
