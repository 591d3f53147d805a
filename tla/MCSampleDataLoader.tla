------------------------- MODULE MCSampleDataLoader -------------------------
(***************************************************************************)
(* Two clicks on one page, which then has two timers for two loads that    *)
(* may overlap; two files, the first with two lines of the same id, as     *)
(* countries-poly.txt has them.                                            *)
(***************************************************************************)
EXTENDS SampleDataLoader

MCFiles == << << "ISR", "ISR" >>, << "HI" >> >>
=============================================================================
